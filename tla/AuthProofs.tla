---------------------------- MODULE AuthProofs ----------------------------
(***************************************************************************)
(* Theorems about what core/auth keeps: the sessions of Sessions, for any  *)
(* replicas, handlers, calls and length of the clock, and the lock of      *)
(* Logins, for any limits, windows and lengths of a lock besides.  What    *)
(* SecondFactor keeps is in RecordsProofs.                                 *)
(***************************************************************************)
EXTENDS Sessions, Logins, Lemmas

----------------------------------------------------------------------------
(* What a call is, and how a step changes it                               *)

\* Where a call goes after revokeRefreshToken: on to the row, or nowhere.
CallRecord == [at : Label, then : {"idle", "revoke"}, token : Second \cup {Null},
               row : Nat \cup {Null}, password : Nat, found : SUBSET Second]

\* What a call carries: nothing once it is over, a token at the steps that use one,
\* and the row it has found, which is there.
Proper(c, rows) ==
    /\ c.at = "idle" => c = Idle
    /\ c.at \in {"find", "unlink", "delete", "revoke", "revokeRow", "insert", "store", "index"}
          => c.token \in Second
    /\ c.row # Null => c.row \in rows
    /\ c.at = "revokeRow" => c.row # Null /\ c.then = "idle"

Typed ==
    /\ serial \in BOOLEAN /\ reliable \in BOOLEAN
    /\ session \in Seq(SessionRow)
    /\ members \in SUBSET Second
    /\ password \in Nat
    /\ second \in Second
    /\ call \in [Handlers -> CallRecord]
    /\ \A h \in Handlers : Proper(call[h], DOMAIN session)
    /\ serial => \A g, h \in Handlers : call[g] # Idle /\ call[h] # Idle => g = h

\* Handler h, at this step, goes on with the call as c.
Does(h, at, c) ==
    /\ call[h].at = at
    /\ call' \in [Handlers -> CallRecord] /\ call'[h] = c
    /\ \A g \in Handlers : g # h => call'[g] = call[g]
    /\ serial' = serial /\ reliable' = reliable
    /\ serial => \A g \in Handlers : g # h => call[g] = Idle /\ call'[g] = Idle

IdleCall == [at |-> "idle", then |-> "idle", token |-> Null, row |-> Null,
             password |-> 0, found |-> {}]

LEMMA IdleIs == Idle = IdleCall /\ Idle \in CallRecord /\ Idle.at = "idle"
  BY DEF Idle, IdleCall, CallRecord, Label

\* A call is the record of its fields, and is over where it says so.
LEMMA CallIs ==
  ASSUME Typed, NEW h \in Handlers
  PROVE  /\ call[h] \in CallRecord /\ Proper(call[h], DOMAIN session)
         /\ call[h] = Idle <=> call[h].at = "idle"
         /\ call[h] = [at |-> call[h].at, then |-> call[h].then, token |-> call[h].token,
                       row |-> call[h].row, password |-> call[h].password,
                       found |-> call[h].found]
  <1>1. call[h] \in CallRecord /\ Proper(call[h], DOMAIN session)
    BY DEF Typed
  <1> QED
    BY <1>1, IdleIs DEF Proper, CallRecord

\* A call begins alone, if calls do not overlap.
LEMMA BeginGives ==
  ASSUME Typed, NEW h \in Handlers, NEW c \in CallRecord, Begin(h, c)
  PROVE  /\ Does(h, "idle", c)
         /\ UNCHANGED <<session, refresh, members, memory, online, password, second>>
  <1>1. call[h] = Idle /\ call' = [call EXCEPT ![h] = c]
    BY DEF Begin
  <1>2. call' \in [Handlers -> CallRecord] /\ call'[h] = c
        /\ \A g \in Handlers : g # h => call'[g] = call[g]
    BY <1>1 DEF Typed
  <1>3. serial => \A g \in Handlers : call[g] = Idle
    BY DEF Begin, Quiet
  <1> QED
    BY <1>1, <1>2, <1>3, IdleIs DEF Does, Begin, mode, cache

\* A step changes its own call only.
LEMMA ProceedGives ==
  ASSUME Typed, NEW h \in Handlers, NEW at, at # "idle", NEW c \in CallRecord, Proceed(h, at, c)
  PROVE  Does(h, at, c) /\ UNCHANGED second
  <1>1. call[h].at = at /\ call' = [call EXCEPT ![h] = c] /\ call[h] # Idle
    BY IdleIs DEF Proceed
  <1>2. call' \in [Handlers -> CallRecord] /\ call'[h] = c
        /\ \A g \in Handlers : g # h => call'[g] = call[g]
    BY <1>1 DEF Typed
  <1>3. serial => \A g \in Handlers : g # h => call[g] = Idle
    BY <1>1 DEF Typed
  <1> QED
    BY <1>1, <1>2, <1>3 DEF Does, Proceed, mode

\* A call that goes on is what it was but for the step, or it is over.
LEMMA GotoGives ==
  ASSUME Typed, NEW h \in Handlers, NEW at \in Label
  PROVE  /\ Goto(h, at) \in CallRecord
         /\ at = "idle" => Goto(h, at) = Idle
         /\ at # "idle" => Goto(h, at) = [at |-> at, then |-> call[h].then, token |-> call[h].token,
                                          row |-> call[h].row, password |-> call[h].password,
                                          found |-> call[h].found]
  <1>1. call[h] \in CallRecord
    BY DEF Typed
  <1> QED
    BY <1>1, IdleIs DEF Goto, CallRecord

\* Rows that end keep all that they are.
LEMMA RevokedGives ==
  ASSUME Typed, NEW S, session' = Revoked(S)
  PROVE  /\ session' \in Seq(SessionRow) /\ DOMAIN session' = DOMAIN session
         /\ \A i \in DOMAIN session :
               /\ session'[i].token = session[i].token
               /\ session'[i].password = session[i].password
               /\ session'[i].pairs = session[i].pairs
               /\ session'[i].live <=> session[i].live /\ i \notin S
         /\ Live' = Live \ S
  <1>1. session' = [i \in DOMAIN session |-> [session[i] EXCEPT !.live = @ /\ i \notin S]]
    BY DEF Revoked
  <1>2. Len(session) \in Nat /\ DOMAIN session = 1..Len(session)
        /\ \A i \in DOMAIN session : session[i] \in SessionRow
    BY DEF Typed
  <1>3. DOMAIN session' = DOMAIN session
    BY <1>1
  <1>4. ASSUME NEW i \in DOMAIN session
        PROVE  /\ session'[i] \in SessionRow
               /\ session'[i].token = session[i].token
               /\ session'[i].password = session[i].password
               /\ session'[i].pairs = session[i].pairs
               /\ session'[i].live <=> session[i].live /\ i \notin S
    <2>1. session'[i] = [session[i] EXCEPT !.live = session[i].live /\ i \notin S]
      BY <1>1
    <2>2. session[i] \in SessionRow
      BY <1>2
    <2> QED
      BY <2>1, <2>2 DEF SessionRow
  <1>5. session' \in Seq(SessionRow)
    <2>1. session' = [i \in 1..Len(session) |-> session'[i]]
      BY <1>1, <1>2
    <2> QED
      BY <1>2, <1>4, <2>1
  <1>6. Live' = Live \ S
    BY <1>3, <1>4 DEF Live
  <1> QED
    BY <1>3, <1>4, <1>5, <1>6

\* Row n is new, with the call's token and password, and row r has one pair more.
Inserted(n, r, token, typed) ==
    /\ session' \in Seq(SessionRow) /\ DOMAIN session' = DOMAIN session \cup {n}
    /\ n \notin DOMAIN session
    /\ session'[n].token = token /\ session'[n].live
    /\ session'[n].password = typed /\ session'[n].pairs = 0
    /\ \A i \in DOMAIN session :
          /\ session'[i].token = session[i].token
          /\ session'[i].password = session[i].password
          /\ session'[i].live <=> session[i].live
          /\ i = r => session'[i].pairs = session[i].pairs + 1
          /\ i # r => session'[i].pairs = session[i].pairs
    /\ Live' = Live \cup {n}

\* The row that an insertion adds is live, the last, and its session's next pair.
LEMMA InsertGives ==
  ASSUME Typed, NEW h \in Handlers, InsertRow(h), NEW n, n = Len(session) + 1,
         NEW r, r = call[h].row
  PROVE  Inserted(n, r, call[h].token, call[h].password)
  <1> DEFINE new == [token |-> call[h].token, live |-> TRUE, password |-> call[h].password,
                     pairs |-> 0]
             counted == IF r = Null THEN session ELSE [session EXCEPT ![r].pairs = @ + 1]
  <1>1. /\ Len(session) \in Nat /\ DOMAIN session = 1..Len(session)
        /\ \A i \in DOMAIN session : session[i] \in SessionRow
        /\ n \notin DOMAIN session
    BY DEF Typed
  <1>2. session' = Append(counted, new)
    BY DEF InsertRow
  <1>3. new \in SessionRow
    <2>1. call[h] \in CallRecord /\ call[h].token \in Second
      BY CallIs DEF InsertRow, Proceed, Proper
    <2> QED
      BY <2>1 DEF CallRecord, SessionRow
  <1>4. r = Null => \A i \in DOMAIN session : i # r
    BY <1>1, SessionsAssumption DEF SessionsAssumption
  <1>5. /\ counted \in Seq(SessionRow) /\ Len(counted) = Len(session)
        /\ \A i \in DOMAIN session :
               /\ counted[i].token = session[i].token
               /\ counted[i].password = session[i].password
               /\ counted[i].live = session[i].live
               /\ counted[i].pairs = session[i].pairs + IF i = r THEN 1 ELSE 0
    <2>1. CASE r = Null
      BY <1>1, <1>4, <2>1 DEF Typed, SessionRow
    <2>2. CASE r # Null
      <3> DEFINE raised == [session[r] EXCEPT !.pairs = session[r].pairs + 1]
      <3>1. counted = [i \in 1..Len(session) |-> IF i = r THEN raised ELSE session[i]]
        BY <1>1, <2>2 DEF Typed
      <3>2. r \in DOMAIN session
        BY <2>2, CallIs DEF Proper
      <3>3. /\ raised \in SessionRow
            /\ raised.token = session[r].token /\ raised.password = session[r].password
            /\ raised.live = session[r].live /\ raised.pairs = session[r].pairs + 1
        <4>1. session[r] \in SessionRow
          BY <1>1, <3>2
        <4> QED
          BY <4>1 DEF SessionRow
      <3> HIDE DEF raised, counted
      <3>4. counted \in Seq(SessionRow) /\ Len(counted) = Len(session)
        BY <1>1, <3>1, <3>3
      <3>5. \A i \in DOMAIN session : counted[i] = IF i = r THEN raised ELSE session[i]
        BY <1>1, <3>1
      <3>6. ASSUME NEW i \in DOMAIN session
            PROVE  /\ counted[i].token = session[i].token
                   /\ counted[i].password = session[i].password
                   /\ counted[i].live = session[i].live
                   /\ counted[i].pairs = session[i].pairs + IF i = r THEN 1 ELSE 0
        <4>1. session[i].pairs \in Nat
          BY <1>1 DEF SessionRow
        <4>2. CASE i = r
          BY <3>3, <3>5, <4>1, <4>2
        <4>3. CASE i # r
          BY <3>5, <4>1, <4>3
        <4> QED
          BY <4>2, <4>3
      <3> QED
        BY <3>4, <3>6
    <2> QED
      BY <2>1, <2>2
  <1>6. /\ new.token = call[h].token /\ new.live
        /\ new.password = call[h].password /\ new.pairs = 0
    OBVIOUS
  <1> HIDE DEF new, counted
  <1>7. /\ session' \in Seq(SessionRow) /\ DOMAIN session' = DOMAIN session \cup {n}
        /\ session'[n] = new /\ \A i \in DOMAIN session : session'[i] = counted[i]
    BY <1>1, <1>2, <1>3, <1>5
  <1>8. Live' = Live \cup {n}
    BY <1>1, <1>5, <1>6, <1>7 DEF Live
  <1>9. \A i \in DOMAIN session : session[i].pairs \in Nat
    BY <1>1 DEF SessionRow
  <1> QED
    BY <1>1, <1>5, <1>6, <1>7, <1>8, <1>9 DEF Inserted

\* A step that changes nothing of the call but where it is.
Onward(h, at, next) ==
    /\ Does(h, at, call'[h])
    /\ call'[h] = [at |-> next, then |-> call[h].then, token |-> call[h].token,
                   row |-> call[h].row, password |-> call[h].password, found |-> call[h].found]

LEMMA OnwardGives ==
  ASSUME Typed, NEW h \in Handlers, NEW at, at # "idle", NEW next \in Label, next # "idle",
         Proceed(h, at, Goto(h, next))
  PROVE  Onward(h, at, next) /\ UNCHANGED second
  <1> PICK c : c = Goto(h, next)
    OBVIOUS
  <1>1. c \in CallRecord
        /\ c = [at |-> next, then |-> call[h].then, token |-> call[h].token,
                row |-> call[h].row, password |-> call[h].password, found |-> call[h].found]
    BY GotoGives
  <1>2. Does(h, at, c) /\ UNCHANGED second
    BY <1>1, ProceedGives
  <1>3. call'[h] = c
    BY <1>2 DEF Does
  <1> QED
    BY <1>1, <1>2, <1>3 DEF Onward

\* The end of revokeRefreshToken: on to the row, or over.
LEMMA ThenGives ==
  ASSUME Typed, NEW h \in Handlers, NEW at, at # "idle", Proceed(h, at, Goto(h, call[h].then))
  PROVE  /\ call[h].then = "revoke" => Onward(h, at, "revoke")
         /\ call[h].then # "revoke" => Does(h, at, Idle)
         /\ UNCHANGED second
  <1>1. call[h].then \in {"idle", "revoke"}
    BY CallIs DEF CallRecord
  <1>2. CASE call[h].then = "revoke"
    BY <1>2, OnwardGives DEF Label
  <1>3. CASE call[h].then = "idle"
    <2>1. Goto(h, call[h].then) = Idle
      BY <1>3, GotoGives DEF Label
    <2> QED
      BY <1>3, <2>1, IdleIs, ProceedGives
  <1> QED
    BY <1>1, <1>2, <1>3

\* The last step of a call.
LEMMA OverGives ==
  ASSUME Typed, NEW h \in Handlers, NEW at, at # "idle", Proceed(h, at, Idle)
  PROVE  Does(h, at, Idle) /\ UNCHANGED second
  BY IdleIs, ProceedGives

\* How a call begins.
LEMMA ArrivalGives ==
  ASSUME Typed, NEW h \in Handlers, Arrival(h)
  PROVE  LET c == call'[h] IN
         /\ Does(h, "idle", c)
         /\ UNCHANGED <<session, refresh, members, memory, online, password, second>>
         /\ c.at \in {"insert", "find", "unlink", "revokeRow", "revokeAll", "setPassword"}
         /\ c.at \in {"insert", "find", "unlink", "revokeRow"} => c.token \in Second
         /\ c.at = "insert" => c.password = password
         /\ c.at # "revokeRow" => c.row = Null
         /\ c.at \in {"find", "unlink"} => c.then = "revoke"
         /\ c.at = "revokeRow" => /\ c.row \in DOMAIN session /\ c.then = "idle" /\ c.row # Null
                                  /\ c.token = session[c.row].token
  <1> DEFINE Good(c) ==
        /\ c \in CallRecord
        /\ c.at \in {"insert", "find", "unlink", "revokeRow", "revokeAll", "setPassword"}
        /\ c.at \in {"insert", "find", "unlink", "revokeRow"} => c.token \in Second
        /\ c.at = "insert" => c.password = password
        /\ c.at # "revokeRow" => c.row = Null
        /\ c.at \in {"find", "unlink"} => c.then = "revoke"
        /\ c.at = "revokeRow" => /\ c.row \in DOMAIN session /\ c.then = "idle" /\ c.row # Null
                                 /\ c.token = session[c.row].token
  <1>1. ASSUME NEW c, Good(c), Begin(h, c)
        PROVE  /\ Does(h, "idle", c) /\ call'[h] = c /\ Good(call'[h])
               /\ UNCHANGED <<session, refresh, members, memory, online, password, second>>
    <2>1. /\ Does(h, "idle", c)
          /\ UNCHANGED <<session, refresh, members, memory, online, password, second>>
      BY <1>1, BeginGives
    <2>2. call'[h] = c
      BY <2>1 DEF Does
    <2> QED
      BY <1>1, <2>1, <2>2
  <1>2. /\ second \in Second /\ password \in Nat
        /\ Null \notin Nat
        /\ \A i \in DOMAIN session : i \in Nat /\ session[i].token \in Second
    <2>1. \A i \in DOMAIN session : i \in Nat /\ session[i] \in SessionRow
      BY DEF Typed
    <2> QED
      BY <2>1, SessionsAssumption DEF SessionsAssumption, Typed, SessionRow
  <1>3. \E c : Good(c) /\ Begin(h, c)
    <2>1. CASE Login(h)
      <3> DEFINE c == [Idle EXCEPT !.at = "insert", !.token = second, !.password = password]
      <3>1. Good(c)
        BY <1>2 DEF Idle, CallRecord, Label
      <3> QED
        BY <2>1, <3>1 DEF Login
    <2>2. CASE LogoutAll(h)
      <3> DEFINE c == [Idle EXCEPT !.at = "revokeAll"]
      <3>1. Good(c)
        BY <1>2 DEF Idle, CallRecord, Label
      <3> QED
        BY <2>2, <3>1 DEF LogoutAll
    <2>3. CASE ChangePassword(h)
      <3> DEFINE c == [Idle EXCEPT !.at = "setPassword"]
      <3>1. Good(c)
        BY <1>2 DEF Idle, CallRecord, Label
      <3> QED
        BY <2>3, <3>1 DEF ChangePassword
    <2>4. ASSUME NEW t \in 1..second, Refresh(h, t) PROVE \E c : Good(c) /\ Begin(h, c)
      <3> DEFINE c == [Idle EXCEPT !.at = "find", !.then = "revoke", !.token = t]
      <3>1. t \in Second
        BY <1>2, SessionsAssumption DEF SessionsAssumption, Second
      <3>2. Good(c)
        BY <1>2, <3>1 DEF Idle, CallRecord, Label
      <3> QED
        BY <2>4, <3>2 DEF Refresh
    <2>5. ASSUME NEW t \in {session[i].token : i \in DOMAIN session} \cup {Null}, Logout(h, t)
          PROVE  \E c : Good(c) /\ Begin(h, c)
      <3> DEFINE c == [Idle EXCEPT !.at = "unlink", !.then = "revoke", !.token = t]
      <3>1. t \in Second
        BY <1>2, <2>5 DEF Logout
      <3>2. Good(c)
        BY <1>2, <3>1 DEF Idle, CallRecord, Label
      <3> QED
        BY <2>5, <3>2 DEF Logout
    <2>6. ASSUME NEW i \in DOMAIN session, EndSession(h, i) PROVE \E c : Good(c) /\ Begin(h, c)
      <3> DEFINE c == [Idle EXCEPT !.at = "revokeRow", !.token = session[i].token, !.row = i]
      <3>1. i \in Nat /\ session[i].token \in Second /\ i # Null
        BY <1>2
      <3>2. Good(c)
        BY <1>2, <3>1 DEF Idle, CallRecord, Label
      <3> QED
        BY <2>6, <3>2 DEF EndSession
    <2> QED
      BY <2>1, <2>2, <2>3, <2>4, <2>5, <2>6 DEF Arrival
  <1> QED
    BY <1>1, <1>3

----------------------------------------------------------------------------
(* What each step of a call does                                           *)

\* A step at which only the call changes, or the list of its tokens, or its token.
Kept == UNCHANGED <<session, password, second>>

LEMMA InsertRowGives ==
  ASSUME Typed, NEW h \in Handlers, InsertRow(h)
  PROVE  Onward(h, "insert", "store") /\ UNCHANGED <<refresh, members, online, password, second>>
  BY OnwardGives DEF InsertRow, Label, cache

LEMMA InsertFailsGives ==
  ASSUME Typed, NEW h \in Handlers, InsertFails(h)
  PROVE  /\ Onward(h, "insert", "store") /\ Kept /\ UNCHANGED <<refresh, members, online>>
         /\ ~reliable
  BY OnwardGives DEF InsertFails, Label, cache, Kept

LEMMA StoreTokenGives ==
  ASSUME Typed, NEW h \in Handlers, StoreToken(h)
  PROVE  /\ Kept /\ UNCHANGED <<members, online>>
         /\ Online(h) => Onward(h, "store", "index") /\ refresh' = refresh \cup {call[h].token}
         /\ ~Online(h) => Does(h, "store", Idle) /\ refresh' = refresh
  BY OnwardGives, OverGives DEF StoreToken, Label, Kept

LEMMA IndexTokenGives ==
  ASSUME Typed, NEW h \in Handlers, IndexToken(h)
  PROVE  /\ Does(h, "index", Idle) /\ Kept /\ UNCHANGED <<refresh, online>>
         /\ members' = IF Online(h) THEN members \cup {call[h].token} ELSE members
  BY OverGives DEF IndexToken, Kept

LEMMA FindRowGives ==
  ASSUME Typed, NEW h \in Handlers, NEW i \in DOMAIN session, FindRow(h, i)
  PROVE  /\ i \in Live /\ session[i].token = call[h].token
         /\ Does(h, "find", call'[h]) /\ Kept /\ UNCHANGED <<refresh, members, online>>
         /\ call'[h] = [at |-> "unlink", then |-> call[h].then, token |-> call[h].token, row |-> i,
                        password |-> session[i].password, found |-> call[h].found]
  <1> PICK b : b = Goto(h, "unlink")
    OBVIOUS
  <1>1. /\ i \in Nat /\ session[i] \in SessionRow
        /\ b \in CallRecord
        /\ b = [at |-> "unlink", then |-> call[h].then, token |-> call[h].token,
                row |-> call[h].row, password |-> call[h].password, found |-> call[h].found]
    <2>1. i \in Nat /\ session[i] \in SessionRow
      BY DEF Typed
    <2> QED
      BY <2>1, GotoGives DEF Label
  <1> PICK w \in Nat : w = session[i].password
    BY <1>1 DEF SessionRow
  <1> PICK c : c = [at |-> "unlink", then |-> call[h].then, token |-> call[h].token, row |-> i,
                    password |-> w, found |-> call[h].found]
    OBVIOUS
  <1>2. c \in CallRecord /\ c = [b EXCEPT !.row = i, !.password = w]
    <2> DEFINE d == [b EXCEPT !.row = i]
    <2>1. d = [at |-> "unlink", then |-> call[h].then, token |-> call[h].token, row |-> i,
               password |-> call[h].password, found |-> call[h].found]
      BY <1>1 DEF CallRecord
    <2>2. c = [d EXCEPT !.password = w]
      <3> HIDE DEF d
      <3> QED BY <2>1
    <2>3. c \in CallRecord
      BY <1>1, CallIs DEF CallRecord, Label
    <2> QED
      BY <2>2, <2>3
  <1>3. /\ i \in Live /\ session[i].token = call[h].token
        /\ Proceed(h, "find", c) /\ UNCHANGED <<session, cache, password>>
    BY <1>2 DEF FindRow
  <1>4. Does(h, "find", c) /\ UNCHANGED second
    BY <1>2, <1>3, ProceedGives
  <1>5. call'[h] = c
    BY <1>4 DEF Does
  <1> QED
    BY <1>3, <1>4, <1>5 DEF Kept, cache

LEMMA UnlinkTokenGives ==
  ASSUME Typed, NEW h \in Handlers, UnlinkToken(h)
  PROVE  /\ Kept /\ UNCHANGED <<refresh, online>>
         /\ members' = IF Online(h) /\ call[h].token \in refresh
                       THEN members \ {call[h].token} ELSE members
         /\ Online(h) => Onward(h, "unlink", "delete")
         /\ ~Online(h) /\ call[h].then = "revoke" => Onward(h, "unlink", "revoke")
         /\ ~Online(h) /\ call[h].then # "revoke" => Does(h, "unlink", Idle)
  <1>1. CASE Online(h)
    <2>1. Proceed(h, "unlink", Goto(h, "delete"))
      BY <1>1 DEF UnlinkToken
    <2> QED
      BY <1>1, <2>1, OnwardGives DEF UnlinkToken, Label, Kept
  <1>2. CASE ~Online(h)
    <2>1. Proceed(h, "unlink", Goto(h, call[h].then))
      BY <1>2 DEF UnlinkToken
    <2> QED
      BY <1>2, <2>1, ThenGives DEF UnlinkToken, Kept
  <1> QED
    BY <1>1, <1>2

LEMMA DeleteTokenGives ==
  ASSUME Typed, NEW h \in Handlers, DeleteToken(h)
  PROVE  /\ Kept /\ UNCHANGED <<members, online>>
         /\ refresh' = IF Online(h) THEN refresh \ {call[h].token} ELSE refresh
         /\ call[h].then = "revoke" => Onward(h, "delete", "revoke")
         /\ call[h].then # "revoke" => Does(h, "delete", Idle)
  BY ThenGives DEF DeleteToken, Kept

LEMMA RevokeTokenGives ==
  ASSUME Typed, NEW h \in Handlers, RevokeToken(h)
  PROVE  /\ session' = Revoked({i \in Live : session[i].token = call[h].token})
         /\ Does(h, "revoke", call'[h])
         /\ UNCHANGED <<refresh, members, online, password, second>>
         /\ call[h].row = Null => call'[h] = Idle
         /\ call[h].row # Null =>
               call'[h] = [at |-> "insert", then |-> call[h].then, token |-> second,
                           row |-> call[h].row, password |-> call[h].password,
                           found |-> call[h].found]
  <1> PICK b : b = Goto(h, "insert")
    OBVIOUS
  <1>1. /\ b \in CallRecord
        /\ b = [at |-> "insert", then |-> call[h].then, token |-> call[h].token,
                row |-> call[h].row, password |-> call[h].password, found |-> call[h].found]
    BY GotoGives DEF Label
  <1> DEFINE c == IF call[h].row = Null THEN Idle ELSE [b EXCEPT !.token = second]
  <1>2. /\ c \in CallRecord
        /\ call[h].row = Null => c = Idle
        /\ call[h].row # Null =>
               c = [at |-> "insert", then |-> call[h].then, token |-> second, row |-> call[h].row,
                    password |-> call[h].password, found |-> call[h].found]
    <2>1. second \in Second
      BY DEF Typed
    <2> QED
      BY <1>1, <2>1, IdleIs DEF CallRecord
  <1>3. /\ Proceed(h, "revoke", c) /\ UNCHANGED <<cache, password>>
        /\ session' = Revoked({i \in Live : session[i].token = call[h].token})
    BY DEF RevokeToken
  <1> HIDE DEF c
  <1>4. Does(h, "revoke", c) /\ UNCHANGED second
    BY <1>2, <1>3, ProceedGives
  <1>5. call'[h] = c
    BY <1>4 DEF Does
  <1> QED
    BY <1>2, <1>3, <1>4, <1>5 DEF cache

LEMMA RevokeRowGives ==
  ASSUME Typed, NEW h \in Handlers, RevokeRow(h)
  PROVE  /\ Onward(h, "revokeRow", "unlink") /\ session' = Revoked({call[h].row})
         /\ UNCHANGED <<refresh, members, online, password, second>>
  BY OnwardGives DEF RevokeRow, Label, cache

LEMMA SetPasswordGives ==
  ASSUME Typed, NEW h \in Handlers, SetPassword(h)
  PROVE  /\ Onward(h, "setPassword", "revokeAll") /\ password' = password + 1
         /\ UNCHANGED <<session, refresh, members, online, second>>
  BY OnwardGives DEF SetPassword, Label, cache

LEMMA RevokeRowsGives ==
  ASSUME Typed, NEW h \in Handlers, RevokeRows(h)
  PROVE  /\ Onward(h, "revokeAll", "list") /\ session' = Revoked(Live)
         /\ UNCHANGED <<refresh, members, online, password, second>>
  BY OnwardGives DEF RevokeRows, Label, cache

LEMMA ListTokensGives ==
  ASSUME Typed, NEW h \in Handlers, ListTokens(h)
  PROVE  /\ Kept /\ UNCHANGED <<refresh, members, online>>
         /\ Does(h, "list", call'[h])
         /\ ~(Online(h) /\ members # {}) => call'[h] = Idle
         /\ Online(h) /\ members # {} =>
               call'[h] = [at |-> "drop", then |-> call[h].then, token |-> call[h].token,
                           row |-> call[h].row, password |-> call[h].password, found |-> members]
  <1> PICK b : b = Goto(h, "drop")
    OBVIOUS
  <1>1. /\ b \in CallRecord
        /\ b = [at |-> "drop", then |-> call[h].then, token |-> call[h].token,
                row |-> call[h].row, password |-> call[h].password, found |-> call[h].found]
    BY GotoGives DEF Label
  <1> DEFINE c == IF Online(h) /\ members # {} THEN [b EXCEPT !.found = members] ELSE Idle
  <1>2. /\ c \in CallRecord
        /\ ~(Online(h) /\ members # {}) => c = Idle
        /\ Online(h) /\ members # {} =>
               c = [at |-> "drop", then |-> call[h].then, token |-> call[h].token,
                    row |-> call[h].row, password |-> call[h].password, found |-> members]
    <2>1. members \in SUBSET Second
      BY DEF Typed
    <2> QED
      BY <1>1, <2>1, IdleIs DEF CallRecord
  <1>3. Proceed(h, "list", c) /\ UNCHANGED <<session, refresh, members, online, password>>
    BY DEF ListTokens
  <1> HIDE DEF c
  <1>4. Does(h, "list", c) /\ UNCHANGED second
    BY <1>2, <1>3, ProceedGives
  <1>5. call'[h] = c
    BY <1>4 DEF Does
  <1> QED
    BY <1>2, <1>3, <1>4, <1>5 DEF Kept

LEMMA DropTokensGives ==
  ASSUME Typed, NEW h \in Handlers, DropTokens(h)
  PROVE  /\ Does(h, "drop", Idle) /\ Kept /\ UNCHANGED online
         /\ Online(h) => refresh' = refresh \ call[h].found /\ members' = {}
         /\ ~Online(h) => UNCHANGED <<refresh, members>>
  BY OverGives DEF DropTokens, Kept

\* A call that finds no row, or is cut short.
LEMMA AbortGives ==
  ASSUME Typed, NEW h \in Handlers, Abort(h)
  PROVE  /\ Does(h, call[h].at, Idle) /\ call[h].at # "idle"
         /\ reliable => call[h].at = "find"
         /\ Kept /\ UNCHANGED <<refresh, members, online>>
  <1>1. call[h] # Idle /\ call[h].at # "idle" /\ call' = [call EXCEPT ![h] = Idle]
    BY CallIs DEF Abort
  <1>2. call' \in [Handlers -> CallRecord] /\ call'[h] = Idle
        /\ \A g \in Handlers : g # h => call'[g] = call[g]
    BY <1>1, IdleIs DEF Typed
  <1>3. serial => \A g \in Handlers : g # h => call[g] = Idle
    BY <1>1 DEF Typed
  <1> QED
    BY <1>1, <1>2, <1>3 DEF Does, Abort, mode, cache, Kept

\* Whatever a step writes, it changes its own call only.
LEMMA StepDoes ==
  ASSUME Typed, NEW h \in Handlers, Step(h)
  PROVE  Does(h, call[h].at, call'[h])
  <1>1. ASSUME NEW at, NEW c, Does(h, at, c) PROVE Does(h, call[h].at, call'[h])
    <2>1. call[h].at = at /\ call'[h] = c
      BY <1>1 DEF Does
    <2> QED
      BY <1>1, <2>1
  <1>2. ASSUME NEW at, NEW next, Onward(h, at, next) PROVE Does(h, call[h].at, call'[h])
    <2> PICK c : c = call'[h]
      OBVIOUS
    <2> QED
      BY <1>1, <1>2 DEF Onward
  <1>3. CASE InsertRow(h) \/ InsertFails(h)
    BY <1>2, <1>3, InsertRowGives, InsertFailsGives
  <1>4. CASE StoreToken(h) \/ IndexToken(h)
    BY <1>1, <1>2, <1>4, StoreTokenGives, IndexTokenGives
  <1>5. ASSUME NEW i \in DOMAIN session, FindRow(h, i) PROVE Does(h, call[h].at, call'[h])
    <2> PICK c : c = call'[h]
      OBVIOUS
    <2>1. Does(h, "find", c)
      BY <1>5, FindRowGives
    <2> QED
      BY <1>1, <2>1
  <1>6. CASE UnlinkToken(h) \/ DeleteToken(h)
    BY <1>1, <1>2, <1>6, UnlinkTokenGives, DeleteTokenGives
  <1>7. CASE RevokeToken(h) \/ ListTokens(h)
    <2> PICK c : c = call'[h]
      OBVIOUS
    <2>1. Does(h, "revoke", c) \/ Does(h, "list", c)
      BY <1>7, RevokeTokenGives, ListTokensGives
    <2> QED
      BY <1>1, <2>1
  <1>8. CASE RevokeRow(h) \/ SetPassword(h) \/ RevokeRows(h) \/ DropTokens(h)
    BY <1>1, <1>2, <1>8, RevokeRowGives, SetPasswordGives, RevokeRowsGives, DropTokensGives
  <1> QED
    BY <1>3, <1>4, <1>5, <1>6, <1>7, <1>8 DEF Step

\* No step of a call loses Redis or finds it again.
LEMMA StepKeepsRedis ==
  ASSUME NEW h \in Handlers, Step(h)
  PROVE  online' = online
  <1>1. CASE InsertRow(h) \/ InsertFails(h) \/ RevokeToken(h) \/ RevokeRow(h)
             \/ SetPassword(h) \/ RevokeRows(h)
    BY <1>1 DEF InsertRow, InsertFails, RevokeToken, RevokeRow, SetPassword, RevokeRows, cache
  <1>2. ASSUME NEW i \in DOMAIN session, FindRow(h, i) PROVE online' = online
    BY <1>2 DEF FindRow, cache
  <1>3. CASE StoreToken(h)
    BY <1>3 DEF StoreToken
  <1>4. CASE IndexToken(h) \/ UnlinkToken(h) \/ DeleteToken(h) \/ ListTokens(h) \/ DropTokens(h)
    BY <1>4 DEF IndexToken, UnlinkToken, DeleteToken, ListTokens, DropTokens
  <1> QED
    BY <1>1, <1>2, <1>3, <1>4 DEF Step

----------------------------------------------------------------------------
(* The shape of the state                                                  *)

LEMMA TypedInit == Init => Typed
  <1> SUFFICES ASSUME Init PROVE Typed
    OBVIOUS
  <1>1. session \in Seq(SessionRow) /\ members \in SUBSET Second /\ password \in Nat
        /\ serial \in BOOLEAN /\ reliable \in BOOLEAN
    BY DEF Init
  <1>2. second \in Second
    BY SessionsAssumption DEF SessionsAssumption, Init, Second
  <1>3. call \in [Handlers -> CallRecord] /\ \A h \in Handlers : call[h] = Idle
    BY IdleIs DEF Init
  <1>4. Proper(Idle, DOMAIN session)
    BY DEF Proper, Idle
  <1> QED
    BY <1>1, <1>2, <1>3, <1>4 DEF Typed

LEMMA TypedKept ==
  ASSUME Typed, NEW h \in Handlers, NEW at, NEW c, Does(h, at, c), Proper(c, DOMAIN session'),
         session' \in Seq(SessionRow), DOMAIN session \subseteq DOMAIN session',
         members' \in SUBSET Second, password' \in Nat, second' \in Second
  PROVE  Typed'
  <1>1. \A g \in Handlers : Proper(call'[g], DOMAIN session')
    <2> SUFFICES ASSUME NEW g \in Handlers, g # h PROVE Proper(call[g], DOMAIN session')
      BY DEF Does
    <2>1. Proper(call[g], DOMAIN session)
      BY DEF Typed
    <2> QED
      BY <2>1 DEF Proper
  <1>2. serial' => \A f, g \in Handlers : call'[f] # Idle /\ call'[g] # Idle => f = g
    BY DEF Does
  <1>3. serial' \in BOOLEAN /\ reliable' \in BOOLEAN /\ call' \in [Handlers -> CallRecord]
    BY DEF Does, Typed
  <1> QED
    BY <1>1, <1>2, <1>3 DEF Typed, Idle

LEMMA OnwardProper ==
  ASSUME Typed, NEW h \in Handlers, NEW at, NEW next, at # "idle", next # "idle",
         next # "revokeRow", Onward(h, at, next), NEW rows, DOMAIN session \subseteq rows,
         next \in {"find", "unlink", "delete", "revoke", "insert", "store", "index"}
             => at \in {"find", "unlink", "delete", "revoke", "revokeRow",
                        "insert", "store", "index"}
  PROVE  Proper(call'[h], rows)
  <1>1. Proper(call[h], DOMAIN session) /\ call[h].at = at
    BY CallIs DEF Onward, Does
  <1>2. call'[h].at = next /\ call'[h].token = call[h].token /\ call'[h].row = call[h].row
    BY DEF Onward
  <1> QED
    BY <1>1, <1>2 DEF Proper

LEMMA TypedStep == Typed /\ [Next]_vars => Typed'
  <1> SUFFICES ASSUME Typed, [Next]_vars PROVE Typed'
    OBVIOUS
  <1>1. /\ session \in Seq(SessionRow) /\ members \in SUBSET Second
        /\ password \in Nat /\ second \in Second
        /\ \A h \in Handlers : Proper(call[h], DOMAIN session)
        /\ \A D : Proper(Idle, D)
    BY DEF Typed, Proper, Idle
  <1>2. ASSUME NEW h \in Handlers, Arrival(h) PROVE Typed'
    <2>1. Does(h, "idle", call'[h])
          /\ UNCHANGED <<session, refresh, members, memory, online, password, second>>
      BY <1>2, ArrivalGives
    <2>2. Proper(call'[h], DOMAIN session)
      BY <1>2, ArrivalGives DEF Proper
    <2> QED
      BY <1>1, <2>1, <2>2, TypedKept
  <1>3. ASSUME NEW h \in Handlers, NEW at, NEW next, at # "idle", next # "idle",
               next # "revokeRow", Onward(h, at, next),
               next \in {"find", "unlink", "delete", "revoke", "insert", "store", "index"}
                  => at \in {"find", "unlink", "delete", "revoke", "revokeRow", "insert",
                             "store", "index"},
               session' \in Seq(SessionRow), DOMAIN session \subseteq DOMAIN session',
               members' \in SUBSET Second, password' \in Nat, second' \in Second
        PROVE  Typed'
    <2>1. Proper(call'[h], DOMAIN session')
      BY <1>3, OnwardProper
    <2> QED
      BY <1>3, <2>1, TypedKept DEF Onward
  <1>4. ASSUME NEW h \in Handlers, Step(h) PROVE Typed'
    <2>1. CASE InsertRow(h)
      <3>1. Onward(h, "insert", "store") /\ UNCHANGED <<refresh, members, online, password, second>>
        BY <2>1, InsertRowGives
      <3>2. session' \in Seq(SessionRow) /\ DOMAIN session \subseteq DOMAIN session'
        <4> PICK n, r : n = Len(session) + 1 /\ r = call[h].row
          OBVIOUS
        <4> QED
          BY <2>1, InsertGives DEF Inserted
      <3> QED
        BY <1>1, <1>3, <3>1, <3>2
    <2>2. CASE InsertFails(h)
      BY <1>1, <1>3, <2>2, InsertFailsGives DEF Kept
    <2>3. CASE StoreToken(h)
      <3>1. Kept /\ members' = members
        BY <2>3, StoreTokenGives
      <3>2. CASE Online(h)
        <4>1. Onward(h, "store", "index")
          BY <2>3, <3>2, StoreTokenGives
        <4> QED
          BY <1>1, <1>3, <3>1, <4>1 DEF Kept
      <3>3. CASE ~Online(h)
        <4>1. Does(h, "store", Idle)
          BY <2>3, <3>3, StoreTokenGives
        <4> QED
          BY <1>1, <3>1, <4>1, TypedKept DEF Kept
      <3> QED
        BY <3>2, <3>3
    <2>4. CASE IndexToken(h)
      <3>1. Does(h, "index", Idle) /\ Kept
            /\ members' = IF Online(h) THEN members \cup {call[h].token} ELSE members
        BY <2>4, IndexTokenGives
      <3>2. call[h].token \in Second
        BY <1>1, <3>1 DEF Does, Proper
      <3> QED
        BY <1>1, <3>1, <3>2, TypedKept DEF Kept
    <2>5. ASSUME NEW i \in DOMAIN session, FindRow(h, i) PROVE Typed'
      <3>1. /\ Does(h, "find", call'[h]) /\ Kept /\ members' = members
            /\ call'[h] = [at |-> "unlink", then |-> call[h].then, token |-> call[h].token,
                           row |-> i, password |-> session[i].password, found |-> call[h].found]
        BY <2>5, FindRowGives
      <3>2. call'[h].at = "unlink" /\ call'[h].token = call[h].token /\ call'[h].row = i
        BY <3>1
      <3>3. Proper(call'[h], DOMAIN session)
        BY <1>1, <3>1, <3>2 DEF Proper, Does
      <3> QED
        BY <1>1, <3>1, <3>3, TypedKept DEF Kept
    <2>6. CASE UnlinkToken(h)
      <3>1. Kept /\ members' \in SUBSET Second
        BY <1>1, <2>6, UnlinkTokenGives
      <3>2. \/ Onward(h, "unlink", "delete") \/ Onward(h, "unlink", "revoke")
            \/ Does(h, "unlink", Idle)
        BY <2>6, UnlinkTokenGives
      <3> QED
        BY <1>1, <1>3, <3>1, <3>2, TypedKept DEF Kept
    <2>7. CASE DeleteToken(h)
      <3>1. Kept /\ members' = members
            /\ (Onward(h, "delete", "revoke") \/ Does(h, "delete", Idle))
        BY <2>7, DeleteTokenGives
      <3> QED
        BY <1>1, <1>3, <3>1, TypedKept DEF Kept
    <2>8. CASE RevokeToken(h)
      <3>1. /\ session' = Revoked({i \in Live : session[i].token = call[h].token})
            /\ Does(h, "revoke", call'[h])
            /\ UNCHANGED <<members, password, second>>
        BY <2>8, RevokeTokenGives
      <3>2. session' \in Seq(SessionRow) /\ DOMAIN session' = DOMAIN session
        BY <3>1, RevokedGives
      <3>3. Proper(call'[h], DOMAIN session)
        <4>1. CASE call[h].row = Null
          BY <1>1, <2>8, <4>1, RevokeTokenGives
        <4>2. CASE call[h].row # Null
          <5>1. call'[h] = [at |-> "insert", then |-> call[h].then, token |-> second,
                            row |-> call[h].row, password |-> call[h].password,
                            found |-> call[h].found]
            BY <2>8, <4>2, RevokeTokenGives
          <5>2. call'[h].at = "insert" /\ call'[h].token = second /\ call'[h].row = call[h].row
            BY <5>1
          <5> QED
            BY <1>1, <5>2 DEF Proper
        <4> QED
          BY <4>1, <4>2
      <3> QED
        BY <1>1, <3>1, <3>2, <3>3, TypedKept
    <2>9. CASE RevokeRow(h)
      <3>1. /\ Onward(h, "revokeRow", "unlink") /\ session' = Revoked({call[h].row})
            /\ UNCHANGED <<members, password, second>>
        BY <2>9, RevokeRowGives
      <3>2. session' \in Seq(SessionRow) /\ DOMAIN session' = DOMAIN session
        BY <3>1, RevokedGives
      <3> QED
        BY <1>1, <1>3, <3>1, <3>2
    <2>10. CASE SetPassword(h)
      BY <1>1, <1>3, <2>10, SetPasswordGives
    <2>11. CASE RevokeRows(h)
      <3>1. /\ Onward(h, "revokeAll", "list") /\ session' = Revoked(Live)
            /\ UNCHANGED <<members, password, second>>
        BY <2>11, RevokeRowsGives
      <3>2. session' \in Seq(SessionRow) /\ DOMAIN session' = DOMAIN session
        BY <3>1, RevokedGives
      <3> QED
        BY <1>1, <1>3, <3>1, <3>2
    <2>12. CASE ListTokens(h)
      <3>1. Kept /\ members' = members /\ Does(h, "list", call'[h])
        BY <2>12, ListTokensGives
      <3>2. Proper(call'[h], DOMAIN session)
        <4>1. CASE ~(Online(h) /\ members # {})
          BY <1>1, <2>12, <4>1, ListTokensGives
        <4>2. CASE Online(h) /\ members # {}
          <5>1. call'[h] = [at |-> "drop", then |-> call[h].then, token |-> call[h].token,
                            row |-> call[h].row, password |-> call[h].password,
                            found |-> members]
            BY <2>12, <4>2, ListTokensGives
          <5>2. call'[h].at = "drop" /\ call'[h].row = call[h].row
            BY <5>1
          <5> QED
            BY <1>1, <5>2 DEF Proper
        <4> QED
          BY <4>1, <4>2
      <3> QED
        BY <1>1, <3>1, <3>2, TypedKept DEF Kept
    <2>13. CASE DropTokens(h)
      <3>1. Kept /\ members' \in SUBSET Second /\ Does(h, "drop", Idle)
        BY <1>1, <2>13, DropTokensGives
      <3> QED
        BY <1>1, <3>1, TypedKept DEF Kept
    <2> QED
      BY <1>4, <2>1, <2>2, <2>3, <2>4, <2>5, <2>6, <2>7, <2>8, <2>9, <2>10, <2>11, <2>12, <2>13
         DEF Step
  <1>5. ASSUME NEW h \in Handlers, Abort(h) PROVE Typed'
    <2>1. Does(h, call[h].at, Idle) /\ Kept /\ members' = members
      BY <1>5, AbortGives
    <2> QED
      BY <1>1, <2>1, TypedKept DEF Kept
  <1>6. ASSUME NEW p \in Processes, LoseRedis(p) PROVE Typed'
    BY <1>6 DEF LoseRedis, mode, Typed, Idle
  <1>7. ASSUME NEW p \in Processes, Restart(p) PROVE Typed'
    <2>1. /\ call' = [h \in Handlers |-> IF ProcessOf[h] = p THEN Idle ELSE call[h]]
          /\ UNCHANGED <<serial, reliable, session, members, password, second>>
      BY <1>7 DEF Restart, mode
    <2>2. call' \in [Handlers -> CallRecord]
          /\ \A h \in Handlers : call'[h] = Idle \/ call'[h] = call[h]
      BY <2>1, IdleIs DEF Typed
    <2>3. \A h \in Handlers : Proper(call'[h], DOMAIN session')
      BY <1>1, <2>1, <2>2
    <2>4. serial => \A g, h \in Handlers : call'[g] # Idle /\ call'[h] # Idle => g = h
      BY <2>2 DEF Typed
    <2> QED
      BY <2>1, <2>2, <2>3, <2>4 DEF Typed, Idle
  <1>8. CASE Tick
    <2>1. second' \in Second
      BY <1>1, <1>8, SessionsAssumption DEF SessionsAssumption, Tick, Second
    <2>2. UNCHANGED <<serial, reliable, session, members, password, call>>
      BY <1>8 DEF Tick, mode, cache
    <2> QED
      BY <2>1, <2>2 DEF Typed, Idle
  <1>9. CASE UNCHANGED vars
    BY <1>9 DEF vars, Typed, Idle
  <1> QED
    BY <1>2, <1>4, <1>5, <1>6, <1>7, <1>8, <1>9 DEF Next

----------------------------------------------------------------------------
(* One pair of tokens for a session                                        *)

\* The bound of ExchangedOnce.
Passes == IF serial THEN 1 ELSE Cardinality(Handlers)

\* Calls that have found row i and have yet to issue its pair.
Claiming == {"unlink", "delete", "revoke", "insert"}

Claims(i) ==
    {h \in Handlers : call[h].row = i /\ call[h].then = "revoke" /\ call[h].at \in Claiming}

\* What a call has found is a row of its token, and is ended before its pair is issued.
Issuing(c) ==
    /\ c.at = "revoke" \/ (c.at = "insert" /\ c.row # Null) => c.then = "revoke"
    /\ c.at = "insert" /\ c.row # Null => ~session[c.row].live
    /\ c.row # Null /\ c.at \in {"unlink", "delete", "revoke", "revokeRow"} =>
          c.token = session[c.row].token

\* No pair was issued for a row that is live, and those that were and those that will
\* be are no more than the calls at a time.
Exchanged ==
    /\ \A h \in Handlers : Issuing(call[h])
    /\ \A i \in DOMAIN session :
          /\ session[i].live => session[i].pairs = 0
          /\ session[i].pairs + Cardinality(Claims(i)) <= Passes

\* There are no more claims than calls at a time.
LEMMA ClaimsBounded ==
  Typed => /\ Passes \in Nat
           /\ \A i : /\ IsFiniteSet(Claims(i)) /\ Cardinality(Claims(i)) \in Nat
                     /\ Cardinality(Claims(i)) <= Passes
  <1> SUFFICES ASSUME Typed
               PROVE  /\ Passes \in Nat
                      /\ \A i : /\ IsFiniteSet(Claims(i)) /\ Cardinality(Claims(i)) \in Nat
                                /\ Cardinality(Claims(i)) <= Passes
    OBVIOUS
  <1>1. IsFiniteSet(Handlers) /\ Cardinality(Handlers) \in Nat /\ Passes \in Nat
    BY SessionsAssumption, FS_CardinalityType DEF SessionsAssumption, Passes
  <1>2. ASSUME NEW i
        PROVE  /\ IsFiniteSet(Claims(i)) /\ Cardinality(Claims(i)) \in Nat
               /\ Cardinality(Claims(i)) <= Passes
    <2>1. /\ IsFiniteSet(Claims(i)) /\ Cardinality(Claims(i)) \in Nat
          /\ Cardinality(Claims(i)) <= Cardinality(Handlers)
      BY <1>1, FS_Subset, FS_CardinalityType DEF Claims
    <2>2. CASE ~serial
      BY <2>1, <2>2 DEF Passes
    <2>3. CASE serial /\ Claims(i) = {}
      BY <2>1, <2>3, FS_EmptySet DEF Passes
    <2>4. CASE serial /\ Claims(i) # {}
      <3>1. PICK h \in Handlers : h \in Claims(i)
        BY <2>4 DEF Claims
      <3>2. \A g \in Claims(i) : g \in Handlers /\ call[g] # Idle
        BY IdleIs DEF Claims, Claiming
      <3>3. Claims(i) = {h}
        BY <2>4, <3>1, <3>2 DEF Typed
      <3>4. Cardinality(Claims(i)) = 1
        BY <3>3, FS_Singleton
      <3> QED
        BY <2>1, <2>4, <3>4 DEF Passes
    <2> QED
      BY <2>2, <2>3, <2>4
  <1> QED
    BY <1>1, <1>2

LEMMA ClaimsBoundedNext ==
  (Typed => /\ Passes \in Nat
            /\ \A i : /\ IsFiniteSet(Claims(i)) /\ Cardinality(Claims(i)) \in Nat
                      /\ Cardinality(Claims(i)) <= Passes)'
  BY ClaimsBounded, PTL

LEMMA ExchangedInit == Init => Exchanged
  <1> SUFFICES ASSUME Init PROVE Exchanged
    OBVIOUS
  <1>1. session = <<>> /\ \A h \in Handlers : call[h] = Idle
    BY DEF Init
  <1> QED
    BY <1>1, IdleIs DEF Exchanged, Issuing, IdleCall

\* A step that adds no row and issues no pair.
LEMMA ExchangedKept ==
  ASSUME Typed, Typed', Exchanged, NEW h \in Handlers, NEW at, NEW c, Does(h, at, c),
         DOMAIN session' = DOMAIN session,
         \A i \in DOMAIN session :
            /\ session'[i].token = session[i].token
            /\ session'[i].pairs = session[i].pairs
            /\ session'[i].live => session[i].live,
         c.at = "revoke" \/ (c.at = "insert" /\ c.row # Null) => c.then = "revoke",
         c.at = "insert" /\ c.row # Null => ~session'[c.row].live,
         c.row # Null /\ c.at \in {"unlink", "delete", "revoke", "revokeRow"} =>
            c.token = session[c.row].token,
         c.row \in DOMAIN session /\ c.then = "revoke" /\ c.at \in Claiming =>
            \/ session'[c.row].live
            \/ call[h].row = c.row /\ call[h].then = "revoke" /\ call[h].at \in Claiming
  PROVE  Exchanged'
  <1>1. call'[h] = c /\ (\A g \in Handlers : g # h => call'[g] = call[g]) /\ serial' = serial
    BY DEF Does
  <1>2. ASSUME NEW g \in Handlers PROVE Issuing(call[g])'
    <2>1. CASE g = h
      <3>1. c.row # Null => c.row \in DOMAIN session
        BY <1>1, CallIs DEF Typed, Proper
      <3> QED
        BY <1>1, <2>1, <3>1 DEF Issuing
    <2>2. CASE g # h
      <3>1. call'[g] = call[g] /\ Issuing(call[g])
        BY <1>1, <2>2 DEF Exchanged
      <3>2. call[g].row # Null => call[g].row \in DOMAIN session
        BY CallIs DEF Proper
      <3> QED
        BY <3>1, <3>2 DEF Issuing
    <2> QED
      BY <2>1, <2>2
  <1>3. ASSUME NEW i \in DOMAIN session
        PROVE  /\ session'[i].live => session'[i].pairs = 0
               /\ session'[i].pairs + Cardinality(Claims(i)') <= Passes'
    <2>1. Passes' = Passes /\ Passes \in Nat
          /\ Cardinality(Claims(i)') \in Nat /\ Cardinality(Claims(i)') <= Passes
      BY <1>1, ClaimsBounded, ClaimsBoundedNext DEF Passes
    <2>2. session[i].pairs \in Nat
      <3>1. session[i] \in SessionRow
        BY DEF Typed
      <3> QED
        BY <3>1 DEF SessionRow
    <2>3. session'[i].live => session'[i].pairs = 0
      BY DEF Exchanged
    <2>4. CASE session'[i].live
      BY <2>1, <2>3, <2>4
    <2>5. CASE ~session'[i].live
      <3>1. Claims(i)' \subseteq Claims(i)
        BY <1>1, <2>5 DEF Claims
      <3>2. IsFiniteSet(Claims(i)) /\ Cardinality(Claims(i)) \in Nat
        BY ClaimsBounded
      <3>3. Cardinality(Claims(i)') <= Cardinality(Claims(i))
        BY <3>1, <3>2, FS_Subset
      <3>4. session[i].pairs + Cardinality(Claims(i)) <= Passes
        BY DEF Exchanged
      <3> QED
        BY <2>1, <2>2, <2>3, <3>2, <3>3, <3>4
    <2> QED
      BY <2>4, <2>5
  <1> QED
    BY <1>2, <1>3 DEF Exchanged

\* The next pair: counted for the row it was issued for, which was ended before.
LEMMA PairIssued ==
  ASSUME Typed, Typed', Exchanged, NEW h \in Handlers, InsertRow(h)
  PROVE  Exchanged'
  <1> PICK n : n = Len(session) + 1
    OBVIOUS
  <1> PICK r : r = call[h].row
    OBVIOUS
  <1>1. /\ call[h].at = "insert" /\ call'[h].at = "store" /\ serial' = serial
        /\ \A g \in Handlers : g # h => call'[g] = call[g]
    <2>1. Onward(h, "insert", "store")
      BY InsertRowGives
    <2> QED
      BY <2>1 DEF Onward, Does
  <1>2. /\ DOMAIN session' = DOMAIN session \cup {n} /\ n \notin DOMAIN session
        /\ session'[n].pairs = 0
        /\ \A i \in DOMAIN session :
               /\ session'[i].token = session[i].token
               /\ session'[i].live <=> session[i].live
               /\ i = r => session'[i].pairs = session[i].pairs + 1
               /\ i # r => session'[i].pairs = session[i].pairs
    <2>1. Inserted(n, r, call[h].token, call[h].password)
      BY InsertGives
    <2> QED
      BY <2>1 DEF Inserted
  <1>3. r # Null => r \in DOMAIN session /\ ~session[r].live /\ call[h].then = "revoke"
    BY <1>1, CallIs DEF Proper, Exchanged, Issuing
  <1>4. \A i \in DOMAIN session : i # Null
    BY SessionsAssumption DEF SessionsAssumption, Typed
  <1>5. ASSUME NEW g \in Handlers PROVE Issuing(call[g])'
    <2>1. CASE g = h
      BY <1>1, <2>1 DEF Issuing
    <2>2. CASE g # h
      <3>1. call'[g] = call[g] /\ Issuing(call[g])
        BY <1>1, <2>2 DEF Exchanged
      <3>2. call[g].row # Null => call[g].row \in DOMAIN session
        BY CallIs DEF Proper
      <3> QED
        BY <1>2, <3>1, <3>2 DEF Issuing
    <2> QED
      BY <2>1, <2>2
  <1>6. Passes' = Passes /\ Passes \in Nat
        /\ \A i : Cardinality(Claims(i)') \in Nat /\ Cardinality(Claims(i)') <= Passes
    BY <1>1, ClaimsBounded, ClaimsBoundedNext DEF Passes
  <1>7. Claims(n)' = {}
    <2>1. \A g \in Handlers : call[g].row # n
      BY <1>2, <1>4, CallIs, SessionsAssumption DEF Proper, SessionsAssumption, Typed
    <2> QED
      BY <1>1, <2>1 DEF Claims, Claiming
  <1>8. session'[n].pairs + Cardinality(Claims(n)') <= Passes'
    <2>1. Cardinality(Claims(n)') = 0
      BY <1>7, FS_EmptySet
    <2> QED
      BY <1>2, <1>6, <2>1
  <1>9. ASSUME NEW i \in DOMAIN session
        PROVE  /\ session'[i].live => session'[i].pairs = 0
               /\ session'[i].pairs + Cardinality(Claims(i)') <= Passes'
    <2>1. session[i].pairs \in Nat
      <3>1. session[i] \in SessionRow
        BY DEF Typed
      <3> QED
        BY <3>1 DEF SessionRow
    <2>2. /\ session[i].live => session[i].pairs = 0
          /\ session[i].pairs + Cardinality(Claims(i)) <= Passes
      BY DEF Exchanged
    <2>3. IsFiniteSet(Claims(i)) /\ Cardinality(Claims(i)) \in Nat
      BY ClaimsBounded
    <2>4. CASE i = r
      <3>1. h \in Claims(i) /\ Claims(i)' = Claims(i) \ {h}
        BY <1>1, <1>3, <1>4, <2>4 DEF Claims, Claiming
      <3>2. Cardinality(Claims(i)') = Cardinality(Claims(i)) - 1
        BY <2>3, <3>1, FS_RemoveElement
      <3> QED
        BY <1>2, <1>3, <1>4, <1>6, <2>1, <2>2, <2>3, <2>4, <3>2
    <2>5. CASE i # r
      <3>1. Claims(i)' = Claims(i)
        BY <1>1, <2>5 DEF Claims, Claiming
      <3>2. session'[i].pairs = session[i].pairs /\ (session'[i].live => session[i].live)
        BY <1>2, <2>5
      <3>3. session'[i].live => session'[i].pairs = 0
        BY <2>2, <3>2
      <3>4. session'[i].pairs + Cardinality(Claims(i)') <= Passes'
        BY <1>6, <2>2, <3>1, <3>2
      <3> QED
        BY <3>3, <3>4
    <2> QED
      BY <2>4, <2>5
  <1> QED
    BY <1>2, <1>5, <1>8, <1>9 DEF Exchanged

\* A call that goes on with the row it has.
LEMMA ExchangedOnward ==
  ASSUME Typed, Typed', Exchanged, NEW h \in Handlers, NEW at, NEW next, Onward(h, at, next),
         DOMAIN session' = DOMAIN session,
         \A i \in DOMAIN session :
            /\ session'[i].token = session[i].token
            /\ session'[i].pairs = session[i].pairs
            /\ session'[i].live => session[i].live,
         next # "insert", next # "revokeRow",
         next = "revoke" => call[h].then = "revoke",
         next \in {"unlink", "delete", "revoke"} => at \in {"unlink", "delete", "revokeRow"}
  PROVE  Exchanged'
  <1> PICK c : c = call'[h]
    OBVIOUS
  <1>1. /\ Does(h, at, c) /\ call[h].at = at
        /\ c = [at |-> next, then |-> call[h].then, token |-> call[h].token,
                row |-> call[h].row, password |-> call[h].password, found |-> call[h].found]
    BY DEF Onward, Does
  <1>2. c.at = next /\ c.then = call[h].then /\ c.token = call[h].token /\ c.row = call[h].row
    BY <1>1
  <1>3. c.row # Null /\ c.at \in {"unlink", "delete", "revoke", "revokeRow"} =>
           c.token = session[c.row].token
    BY <1>1, <1>2 DEF Exchanged, Issuing
  <1>4. c.row \in DOMAIN session /\ c.then = "revoke" /\ c.at \in Claiming =>
           call[h].row = c.row /\ call[h].then = "revoke" /\ call[h].at \in Claiming
    BY <1>1, <1>2, CallIs DEF Claiming, Proper
  <1> QED
    BY <1>1, <1>2, <1>3, <1>4, ExchangedKept

\* A call that is over.
LEMMA ExchangedOver ==
  ASSUME Typed, Typed', Exchanged, NEW h \in Handlers, NEW at, Does(h, at, Idle),
         UNCHANGED session
  PROVE  Exchanged'
  <1> PICK c : c = Idle
    OBVIOUS
  <1>1. Does(h, at, c) /\ c.at = "idle"
    BY IdleIs
  <1> QED
    BY <1>1, ExchangedKept DEF Claiming

LEMMA ExchangedStep == Typed /\ Typed' /\ Exchanged /\ [Next]_vars => Exchanged'
  <1> SUFFICES ASSUME Typed, Typed', Exchanged, [Next]_vars PROVE Exchanged'
    OBVIOUS
  <1>1. \A i \in DOMAIN session : i # Null
    BY SessionsAssumption DEF SessionsAssumption, Typed
  <1>2. ASSUME NEW h \in Handlers, Arrival(h) PROVE Exchanged'
    <2> PICK c : c = call'[h]
      OBVIOUS
    <2>1. /\ Does(h, "idle", c) /\ session' = session
          /\ c.at \in {"insert", "find", "unlink", "revokeRow", "revokeAll", "setPassword"}
          /\ c.at # "revokeRow" => c.row = Null
          /\ c.at = "revokeRow" => /\ c.row \in DOMAIN session /\ c.then = "idle"
                                   /\ c.token = session[c.row].token
      BY <1>2, ArrivalGives
    <2>2. ~(c.row \in DOMAIN session /\ c.then = "revoke" /\ c.at \in Claiming)
      BY <1>1, <2>1 DEF Claiming
    <2> QED
      BY <2>1, <2>2, ExchangedKept
  <1>3. ASSUME NEW h \in Handlers, Step(h) PROVE Exchanged'
    <2>1. CASE InsertRow(h)
      BY <2>1, PairIssued
    <2>2. CASE InsertFails(h)
      <3>1. Onward(h, "insert", "store") /\ session' = session
        BY <2>2, InsertFailsGives DEF Kept
      <3> QED
        BY <3>1, ExchangedOnward
    <2>3. CASE StoreToken(h)
      <3>1. session' = session /\ (Onward(h, "store", "index") \/ Does(h, "store", Idle))
        BY <2>3, StoreTokenGives DEF Kept
      <3> QED
        BY <3>1, ExchangedOnward, ExchangedOver
    <2>4. CASE IndexToken(h)
      BY <2>4, IndexTokenGives, ExchangedOver DEF Kept
    <2>5. ASSUME NEW i \in DOMAIN session, FindRow(h, i) PROVE Exchanged'
      <3> PICK c : c = call'[h]
        OBVIOUS
      <3>1. /\ i \in Live /\ session[i].token = call[h].token
            /\ Does(h, "find", c) /\ session' = session
            /\ c = [at |-> "unlink", then |-> call[h].then, token |-> call[h].token, row |-> i,
                    password |-> session[i].password, found |-> call[h].found]
        BY <2>5, FindRowGives DEF Kept
      <3>2. c.at = "unlink" /\ c.token = call[h].token /\ c.row = i /\ session'[i].live
        BY <3>1 DEF Live
      <3> QED
        BY <3>1, <3>2, ExchangedKept
    <2>6. CASE UnlinkToken(h)
      <3>1. session' = session
            /\ \/ Onward(h, "unlink", "delete")
               \/ Onward(h, "unlink", "revoke") /\ call[h].then = "revoke"
               \/ Does(h, "unlink", Idle)
        BY <2>6, UnlinkTokenGives DEF Kept
      <3> QED
        BY <3>1, ExchangedOnward, ExchangedOver
    <2>7. CASE DeleteToken(h)
      <3>1. session' = session
            /\ \/ Onward(h, "delete", "revoke") /\ call[h].then = "revoke"
               \/ Does(h, "delete", Idle)
        BY <2>7, DeleteTokenGives DEF Kept
      <3> QED
        BY <3>1, ExchangedOnward, ExchangedOver
    <2>8. CASE RevokeToken(h)
      <3> PICK c : c = call'[h]
        OBVIOUS
      <3> PICK S : S = {i \in Live : session[i].token = call[h].token}
        OBVIOUS
      <3>1. session' = Revoked(S) /\ Does(h, "revoke", c) /\ call[h].at = "revoke"
        BY <2>8, RevokeTokenGives DEF Does
      <3>2. /\ DOMAIN session' = DOMAIN session
            /\ \A i \in DOMAIN session :
                  /\ session'[i].token = session[i].token
                  /\ session'[i].pairs = session[i].pairs
                  /\ session'[i].live <=> session[i].live /\ i \notin S
        BY <3>1, RevokedGives
      <3>3. call[h].then = "revoke" /\ (call[h].row # Null => call[h].row \in DOMAIN session
                                           /\ call[h].token = session[call[h].row].token)
        BY <3>1, CallIs DEF Exchanged, Issuing, Proper
      <3>4. CASE call[h].row = Null
        <4>1. c = Idle
          BY <2>8, <3>4, RevokeTokenGives
        <4>2. c.at = "idle"
          BY <4>1, IdleIs
        <4> QED
          BY <3>1, <3>2, <4>2, ExchangedKept DEF Claiming
      <3>5. CASE call[h].row # Null
        <4>1. c = [at |-> "insert", then |-> call[h].then, token |-> second,
                   row |-> call[h].row, password |-> call[h].password, found |-> call[h].found]
          BY <2>8, <3>5, RevokeTokenGives
        <4>2. c.at = "insert" /\ c.then = "revoke" /\ c.row = call[h].row
          BY <3>3, <4>1
        <4>3. ~session'[c.row].live
          BY <3>2, <3>3, <3>5, <4>2 DEF Live
        <4> QED
          BY <3>1, <3>2, <3>3, <4>2, <4>3, ExchangedKept DEF Claiming
      <3> QED
        BY <3>4, <3>5
    <2>9. CASE RevokeRow(h)
      <3> PICK S : S = {call[h].row}
        OBVIOUS
      <3>1. Onward(h, "revokeRow", "unlink") /\ session' = Revoked(S)
        BY <2>9, RevokeRowGives
      <3>2. /\ DOMAIN session' = DOMAIN session
            /\ \A i \in DOMAIN session :
                  /\ session'[i].token = session[i].token
                  /\ session'[i].pairs = session[i].pairs
                  /\ session'[i].live <=> session[i].live /\ i \notin S
        BY <3>1, RevokedGives
      <3> QED
        BY <3>1, <3>2, ExchangedOnward
    <2>10. CASE SetPassword(h)
      <3>1. Onward(h, "setPassword", "revokeAll") /\ session' = session
        BY <2>10, SetPasswordGives
      <3> QED
        BY <3>1, ExchangedOnward
    <2>11. CASE RevokeRows(h)
      <3> PICK S : S = Live
        OBVIOUS
      <3>1. Onward(h, "revokeAll", "list") /\ session' = Revoked(S)
        BY <2>11, RevokeRowsGives
      <3>2. /\ DOMAIN session' = DOMAIN session
            /\ \A i \in DOMAIN session :
                  /\ session'[i].token = session[i].token
                  /\ session'[i].pairs = session[i].pairs
                  /\ session'[i].live <=> session[i].live /\ i \notin S
        BY <3>1, RevokedGives
      <3> QED
        BY <3>1, <3>2, ExchangedOnward
    <2>12. CASE ListTokens(h)
      <3> PICK c : c = call'[h]
        OBVIOUS
      <3>1. session' = session /\ Does(h, "list", c)
        BY <2>12, ListTokensGives DEF Kept
      <3>2. c.at \in {"idle", "drop"}
        <4>1. CASE ~(Online(h) /\ members # {})
          BY <2>12, <4>1, ListTokensGives, IdleIs
        <4>2. CASE Online(h) /\ members # {}
          <5>1. c = [at |-> "drop", then |-> call[h].then, token |-> call[h].token,
                     row |-> call[h].row, password |-> call[h].password, found |-> members]
            BY <2>12, <4>2, ListTokensGives
          <5> QED
            BY <5>1
        <4> QED
          BY <4>1, <4>2
      <3> QED
        BY <3>1, <3>2, ExchangedKept DEF Claiming
    <2>13. CASE DropTokens(h)
      BY <2>13, DropTokensGives, ExchangedOver DEF Kept
    <2> QED
      BY <1>3, <2>1, <2>2, <2>3, <2>4, <2>5, <2>6, <2>7, <2>8, <2>9, <2>10, <2>11, <2>12, <2>13
         DEF Step
  <1>4. ASSUME NEW h \in Handlers, Abort(h) PROVE Exchanged'
    BY <1>4, AbortGives, ExchangedOver DEF Kept
  <1>5. ASSUME UNCHANGED <<serial, session>>,
               \A h \in Handlers : call'[h] = Idle \/ call'[h] = call[h]
        PROVE  Exchanged'
    <2>1. \A h \in Handlers : Issuing(call[h])'
      BY <1>5, IdleIs DEF Exchanged, Issuing, IdleCall
    <2>2. ASSUME NEW i \in DOMAIN session
          PROVE  session'[i].pairs + Cardinality(Claims(i)') <= Passes'
      <3>1. Claims(i)' \subseteq Claims(i)
        BY <1>5, IdleIs DEF Claims, Claiming
      <3>2. IsFiniteSet(Claims(i)) /\ Cardinality(Claims(i)) \in Nat
            /\ Cardinality(Claims(i)') \in Nat /\ Passes \in Nat
        BY ClaimsBounded, ClaimsBoundedNext
      <3>3. Cardinality(Claims(i)') <= Cardinality(Claims(i))
        BY <3>1, <3>2, FS_Subset
      <3>4. Passes' = Passes /\ session[i].pairs \in Nat
        <4>1. session[i] \in SessionRow
          BY DEF Typed
        <4> QED
          BY <1>5, <4>1 DEF SessionRow, Passes
      <3>5. session[i].pairs + Cardinality(Claims(i)) <= Passes
        BY DEF Exchanged
      <3> QED
        BY <1>5, <3>2, <3>3, <3>4, <3>5
    <2> QED
      BY <1>5, <2>1, <2>2 DEF Exchanged
  <1>6. ASSUME NEW p \in Processes, LoseRedis(p) PROVE Exchanged'
    BY <1>5, <1>6 DEF LoseRedis, mode
  <1>7. ASSUME NEW p \in Processes, Restart(p) PROVE Exchanged'
    BY <1>5, <1>7 DEF Restart, mode
  <1>8. CASE Tick
    BY <1>5, <1>8 DEF Tick, mode
  <1>9. CASE UNCHANGED vars
    BY <1>5, <1>9 DEF vars
  <1> QED
    BY <1>2, <1>3, <1>4, <1>6, <1>7, <1>8, <1>9 DEF Next

\* A session is exchanged for one pair of tokens only, or for as many as there are calls
\* at a time: for any replicas, calls and length of the clock, when calls are cut short,
\* replicas restart and lose Redis.
THEOREM SessionsExchangedOnce == Spec => []ExchangedOnce
  <1>1. Spec => []Typed
    BY TypedInit, TypedStep, PTL DEF Spec
  <1>2. Spec /\ []Typed => []Exchanged
    BY ExchangedInit, ExchangedStep, PTL DEF Spec
  <1>3. Typed /\ Exchanged => ExchangedOnce
    <2> SUFFICES ASSUME Typed, Exchanged, NEW i \in DOMAIN session
                 PROVE  session[i].pairs <= Passes
      BY DEF ExchangedOnce, Passes
    <2>1. session[i].pairs \in Nat
      <3>1. session[i] \in SessionRow
        BY DEF Typed
      <3> QED
        BY <3>1 DEF SessionRow
    <2>2. session[i].pairs + Cardinality(Claims(i)) <= Passes
      BY DEF Exchanged
    <2> QED
      BY <2>1, <2>2, ClaimsBounded
  <1> QED
    BY <1>1, <1>2, <1>3, PTL

----------------------------------------------------------------------------
(* The call that is served, where calls do not overlap                     *)

\* That call, or what a handler holds that has none.
Current == IF Quiet THEN {Idle} ELSE {call[h] : h \in {g \in Handlers : call[g] # Idle}}

\* The call that takes a step is the one that is served.
LEMMA OneAtATime ==
  ASSUME Typed, serial, NEW h \in Handlers, NEW at, NEW c, Does(h, at, c)
  PROVE  call[h] \in Current /\ Current' \subseteq {c}
  <1>1. \A g \in Handlers : g # h => call[g] = Idle /\ call'[g] = Idle
    BY DEF Does
  <1>2. call[h] \in Current
    BY <1>1 DEF Current, Quiet
  <1>3. CASE Quiet'
    <2>1. c = Idle /\ Current' = {Idle}
      BY <1>3 DEF Quiet, Current, Does, Idle
    <2> QED
      BY <1>2, <2>1
  <1>4. CASE ~Quiet'
    <2>1. \A g \in Handlers : call'[g] # Idle => g = h
      BY <1>1
    <2>2. Current' = {call'[g] : g \in {f \in Handlers : call'[f] # Idle}}
      BY <1>4 DEF Current, Idle
    <2> QED
      BY <1>2, <2>1, <2>2 DEF Does
  <1> QED
    BY <1>3, <1>4

----------------------------------------------------------------------------
(* No session outlives its password                                        *)

\* But for a call that has changed the password and is about to end the sessions, those
\* that are live began with the password there is, and so will the next.
Renewed(c) ==
    /\ c.at # "revokeAll" => \A i \in Live : session[i].password = password
    /\ c.at = "insert" \/ (c.at \in Claiming /\ c.row # Null /\ c.then = "revoke")
          => c.password = password

PasswordKept == serial /\ reliable => \A c \in Current : Renewed(c)

LEMMA PasswordInit == Init => PasswordKept
  <1> SUFFICES ASSUME Init PROVE PasswordKept
    OBVIOUS
  <1>1. session = <<>> /\ Current = {Idle}
    BY DEF Init, Current, Quiet
  <1>2. Live = {}
    BY <1>1 DEF Live
  <1> QED
    BY <1>1, <1>2, IdleIs DEF PasswordKept, Renewed, Claiming

LEMMA RenewedKept ==
  ASSUME NEW b, b.at # "revokeAll", Renewed(b), NEW c, password' = password,
         Live' \subseteq Live, \A i \in Live' : session'[i].password = session[i].password,
         c.at = "insert" \/ (c.at \in Claiming /\ c.row # Null /\ c.then = "revoke")
             => c.password = password
  PROVE  Renewed(c)'
  BY DEF Renewed

LEMMA RenewedOnward ==
  ASSUME NEW h \in Handlers, NEW at, NEW next, Onward(h, at, next), at # "revokeAll",
         next # "insert", next \in Claiming => at \in Claiming \/ call[h].then # "revoke",
         NEW b, b = call[h], Renewed(b), NEW c, c = call'[h], password' = password,
         Live' \subseteq Live, \A i \in Live' : session'[i].password = session[i].password
  PROVE  Renewed(c)'
  <1>1. c = [at |-> next, then |-> call[h].then, token |-> call[h].token,
             row |-> call[h].row, password |-> call[h].password, found |-> call[h].found]
        /\ b.at = at
    BY DEF Onward, Does
  <1>2. c.at = next /\ c.then = b.then /\ c.row = b.row /\ c.password = b.password
    BY <1>1
  <1>3. c.at = "insert" \/ (c.at \in Claiming /\ c.row # Null /\ c.then = "revoke")
             => c.password = password
    BY <1>1, <1>2 DEF Renewed
  <1> QED
    BY <1>1, <1>3, RenewedKept

\* Each step of the one call keeps old passwords out.
LEMMA StepRenews ==
  ASSUME Typed, Exchanged, reliable, NEW h \in Handlers, Step(h),
         NEW b, b = call[h], Renewed(b), NEW c, c = call'[h]
  PROVE  Renewed(c)'
  <1>1. ASSUME UNCHANGED session
        PROVE  Live' \subseteq Live /\ \A i \in Live' : session'[i].password = session[i].password
    BY <1>1 DEF Live
  <1>2. ASSUME NEW S, session' = Revoked(S)
        PROVE  Live' = Live \ S /\ \A i \in Live' : session'[i].password = session[i].password
    BY <1>2, RevokedGives DEF Live
  <1>3. ASSUME NEW at, Does(h, at, Idle), at # "revokeAll", Kept PROVE Renewed(c)'
    <2>1. c = Idle /\ b.at # "revokeAll" /\ c.at = "idle"
      BY <1>3, IdleIs DEF Does
    <2> QED
      BY <1>1, <1>3, <2>1, RenewedKept DEF Kept, Claiming
  <1>4. CASE InsertRow(h)
    <2> PICK n, r : n = Len(session) + 1 /\ r = call[h].row
      OBVIOUS
    <2>1. Inserted(n, r, call[h].token, call[h].password)
      BY <1>4, InsertGives
    <2>2. b.at = "insert" /\ Onward(h, "insert", "store") /\ password' = password
      BY <1>4, InsertRowGives DEF Onward, Does
    <2>3. c.at = "store"
      BY <2>2 DEF Onward
    <2>4. Live' = Live \cup {n} /\ session'[n].password = b.password
          /\ \A i \in Live : session'[i].password = session[i].password
      BY <2>1 DEF Inserted, Live
    <2> QED
      BY <2>2, <2>3, <2>4 DEF Renewed, Claiming
  <1>5. CASE InsertFails(h)
    BY <1>5, InsertFailsGives
  <1>6. CASE StoreToken(h)
    <2>1. Kept /\ (Onward(h, "store", "index") \/ Does(h, "store", Idle))
      BY <1>6, StoreTokenGives
    <2> QED
      BY <1>1, <1>3, <2>1, RenewedOnward DEF Kept, Claiming
  <1>7. CASE IndexToken(h)
    BY <1>3, <1>7, IndexTokenGives
  <1>8. ASSUME NEW i \in DOMAIN session, FindRow(h, i) PROVE Renewed(c)'
    <2>1. /\ i \in Live /\ b.at = "find" /\ Kept
          /\ c = [at |-> "unlink", then |-> call[h].then, token |-> call[h].token, row |-> i,
                  password |-> session[i].password, found |-> call[h].found]
      BY <1>8, FindRowGives DEF Does
    <2>2. c.at = "unlink" /\ c.password = session[i].password
      BY <2>1
    <2>3. c.password = password
      BY <2>1, <2>2 DEF Renewed
    <2> QED
      BY <1>1, <2>1, <2>3, RenewedKept DEF Kept
  <1>9. CASE UnlinkToken(h)
    <2>1. Kept /\ (Onward(h, "unlink", "delete") \/ Onward(h, "unlink", "revoke")
                      \/ Does(h, "unlink", Idle))
      BY <1>9, UnlinkTokenGives
    <2> QED
      BY <1>1, <1>3, <2>1, RenewedOnward DEF Kept, Claiming
  <1>10. CASE DeleteToken(h)
    <2>1. Kept /\ (Onward(h, "delete", "revoke") \/ Does(h, "delete", Idle))
      BY <1>10, DeleteTokenGives
    <2> QED
      BY <1>1, <1>3, <2>1, RenewedOnward DEF Kept, Claiming
  <1>11. CASE RevokeToken(h)
    <2> PICK S : S = {i \in Live : session[i].token = call[h].token}
      OBVIOUS
    <2>1. session' = Revoked(S) /\ password' = password /\ b.at = "revoke"
      BY <1>11, RevokeTokenGives DEF Does
    <2>2. b.row # Null => b.password = password
      BY <2>1 DEF Exchanged, Issuing, Renewed, Claiming
    <2>3. CASE b.row = Null
      <3>1. c = Idle /\ c.at = "idle"
        BY <1>11, <2>3, RevokeTokenGives, IdleIs
      <3> QED
        BY <1>2, <2>1, <3>1, RenewedKept DEF Claiming
    <2>4. CASE b.row # Null
      <3>1. c = [at |-> "insert", then |-> call[h].then, token |-> second,
                 row |-> call[h].row, password |-> call[h].password, found |-> call[h].found]
        BY <1>11, <2>4, RevokeTokenGives
      <3>2. c.password = password
        BY <2>2, <2>4, <3>1
      <3> QED
        BY <1>2, <2>1, <3>2, RenewedKept
    <2> QED
      BY <2>3, <2>4
  <1>12. CASE RevokeRow(h)
    <2> PICK S : S = {call[h].row}
      OBVIOUS
    <2>1. Onward(h, "revokeRow", "unlink") /\ session' = Revoked(S) /\ password' = password
      BY <1>12, RevokeRowGives
    <2>2. call[h].then # "revoke"
      BY <2>1, CallIs DEF Onward, Does, Proper
    <2> QED
      BY <1>2, <2>1, <2>2, RenewedOnward
  <1>13. CASE SetPassword(h)
    <2>1. Onward(h, "setPassword", "revokeAll")
      BY <1>13, SetPasswordGives
    <2>2. c.at = "revokeAll"
      BY <2>1 DEF Onward
    <2> QED
      BY <2>2 DEF Renewed, Claiming
  <1>14. CASE RevokeRows(h)
    <2> PICK S : S = Live
      OBVIOUS
    <2>1. Onward(h, "revokeAll", "list") /\ session' = Revoked(S)
      BY <1>14, RevokeRowsGives
    <2>2. c.at = "list" /\ Live' = {}
      BY <1>2, <2>1 DEF Onward
    <2> QED
      BY <2>2 DEF Renewed, Claiming
  <1>15. CASE ListTokens(h)
    <2>1. Kept /\ b.at = "list"
      BY <1>15, ListTokensGives DEF Does
    <2>2. c.at \in {"idle", "drop"}
      <3>1. CASE ~(Online(h) /\ members # {})
        BY <1>15, <3>1, ListTokensGives, IdleIs
      <3>2. CASE Online(h) /\ members # {}
        <4>1. c = [at |-> "drop", then |-> call[h].then, token |-> call[h].token,
                   row |-> call[h].row, password |-> call[h].password, found |-> members]
          BY <1>15, <3>2, ListTokensGives
        <4> QED
          BY <4>1
      <3> QED
        BY <3>1, <3>2
    <2> QED
      BY <1>1, <2>1, <2>2, RenewedKept DEF Kept, Claiming
  <1>16. CASE DropTokens(h)
    BY <1>3, <1>16, DropTokensGives
  <1> QED
    BY <1>4, <1>5, <1>6, <1>7, <1>8, <1>9, <1>10, <1>11, <1>12, <1>13, <1>14, <1>15, <1>16
       DEF Step

LEMMA PasswordStep == Typed /\ Exchanged /\ PasswordKept /\ [Next]_vars => PasswordKept'
  <1> SUFFICES ASSUME Typed, Exchanged, PasswordKept, [Next]_vars PROVE PasswordKept'
    OBVIOUS
  <1>1. ASSUME NEW h \in Handlers, NEW at, NEW b, b = call[h], NEW c, c = call'[h],
               Does(h, at, c), serial /\ reliable /\ Renewed(b) => Renewed(c)'
        PROVE  PasswordKept'
    <2>1. serial => b \in Current /\ Current' \subseteq {c}
      BY <1>1, OneAtATime
    <2>2. serial' = serial /\ reliable' = reliable
      BY <1>1 DEF Does
    <2> QED
      BY <1>1, <2>1, <2>2 DEF PasswordKept
  <1>2. ASSUME NEW h \in Handlers, Arrival(h) PROVE PasswordKept'
    <2> PICK b, c : b = call[h] /\ c = call'[h]
      OBVIOUS
    <2>1. /\ Does(h, "idle", c) /\ UNCHANGED <<session, password>>
          /\ c.at = "insert" => c.password = password
          /\ c.at # "revokeRow" => c.row = Null
      BY <1>2, ArrivalGives
    <2>2. b.at = "idle"
      BY <2>1 DEF Does
    <2>3. Live' = Live /\ \A i \in Live' : session'[i].password = session[i].password
      BY <2>1 DEF Live
    <2>4. c.at = "insert" \/ (c.at \in Claiming /\ c.row # Null /\ c.then = "revoke")
             => c.password = password
      BY <2>1 DEF Claiming
    <2>5. Renewed(b) => Renewed(c)'
      BY <2>1, <2>2, <2>3, <2>4, RenewedKept
    <2> QED
      BY <1>1, <2>1, <2>5
  <1>3. ASSUME NEW h \in Handlers, Step(h) PROVE PasswordKept'
    <2> PICK b, c : b = call[h] /\ c = call'[h]
      OBVIOUS
    <2>1. Does(h, call[h].at, c)
      BY <1>3, StepDoes
    <2>2. reliable /\ Renewed(b) => Renewed(c)'
      BY <1>3, StepRenews
    <2> QED
      BY <1>1, <2>1, <2>2
  <1>4. ASSUME NEW h \in Handlers, Abort(h) PROVE PasswordKept'
    <2> PICK b, c : b = call[h] /\ c = Idle
      OBVIOUS
    <2>1. /\ Does(h, call[h].at, c) /\ UNCHANGED <<session, password>>
          /\ reliable => b.at = "find"
      BY <1>4, AbortGives DEF Kept
    <2>2. c = call'[h] /\ c.at = "idle"
      BY <2>1, IdleIs DEF Does
    <2>3. Live' = Live /\ \A i \in Live' : session'[i].password = session[i].password
      BY <2>1 DEF Live
    <2>4. reliable /\ Renewed(b) => Renewed(c)'
      BY <2>1, <2>2, <2>3, RenewedKept DEF Claiming
    <2> QED
      BY <1>1, <2>1, <2>2, <2>4
  <1>5. ASSUME UNCHANGED <<serial, reliable, session, password, call>> PROVE PasswordKept'
    <2>1. Live' = Live /\ Current' = Current
      BY <1>5 DEF Live, Current, Quiet, Idle
    <2> QED
      BY <1>5, <2>1 DEF PasswordKept, Renewed
  <1>6. ASSUME NEW p \in Processes, LoseRedis(p) PROVE PasswordKept'
    BY <1>5, <1>6 DEF LoseRedis, mode
  <1>7. ASSUME NEW p \in Processes, Restart(p) PROVE PasswordKept'
    BY <1>7 DEF Restart, mode, PasswordKept
  <1>8. CASE Tick
    BY <1>5, <1>8 DEF Tick, mode
  <1>9. CASE UNCHANGED vars
    BY <1>5, <1>9 DEF vars
  <1> QED
    BY <1>2, <1>3, <1>4, <1>6, <1>7, <1>8, <1>9 DEF Next

\* When calls do not overlap and none is cut short, no session that began with an
\* earlier password is left once the password was changed, whichever replicas have
\* lost Redis.
THEOREM OldPasswordIsGone == Spec => []OldPasswordGone
  <1>1. Spec => []Typed
    BY TypedInit, TypedStep, PTL DEF Spec
  <1>2. Spec /\ []Typed => []Exchanged
    BY ExchangedInit, ExchangedStep, PTL DEF Spec
  <1>3. Spec /\ []Typed /\ []Exchanged => []PasswordKept
    BY PasswordInit, PasswordStep, PTL DEF Spec
  <1>4. PasswordKept => OldPasswordGone
    <2> SUFFICES ASSUME PasswordKept, serial, reliable, Quiet
                 PROVE  \A i \in Live : session[i].password = password
      BY DEF OldPasswordGone
    <2>1. Idle \in Current
      BY DEF Current
    <2> QED
      BY <2>1, IdleIs DEF PasswordKept, Renewed
  <1> QED
    BY <1>1, <1>2, <1>3, <1>4, PTL

----------------------------------------------------------------------------
(* The two stores                                                          *)

\* The user's set lists the tokens there are, but for the one that is being stored or
\* deleted.
Listed(c) ==
    /\ c.at = "index" => members \cup {c.token} = refresh
    /\ c.at = "delete" => members = refresh \ {c.token}
    /\ c.at \notin {"index", "delete"} => members = refresh
    /\ c.at = "drop" => c.found = members

\* Each has a live row, unless it is being deleted, or all rows have been ended.
Backed(c) ==
    /\ c.at \in {"unlink", "delete"} => refresh \ {c.token} \subseteq LiveTokens
    /\ c.at \notin {"unlink", "delete", "list", "drop"} => refresh \subseteq LiveTokens
    /\ c.at \in {"list", "drop"} => Live = {}
    /\ c.at = "store" => c.token \in LiveTokens

\* A live row that has its token for itself can be refreshed, unless its token is yet to
\* be stored, or the row to be ended.
Reachable(c) ==
    /\ \A i \in Live : Alone(i) /\ session[i].token \notin refresh =>
          c.at \in {"store", "revoke"} /\ session[i].token = c.token
    /\ c.at = "revoke" => c.token \notin refresh
    /\ c.at = "find" => c.then = "revoke"
    /\ c.at \in {"unlink", "delete"} /\ c.then # "revoke" =>
          /\ c.row \in DOMAIN session /\ session[c.row].token = c.token
          /\ ~session[c.row].live

Told(c) == Listed(c) /\ Backed(c) /\ Reachable(c)

WithRedis == \A p \in Processes : online[p]

StoresKept == serial /\ reliable /\ WithRedis => \A c \in Current : Told(c)

\* Steps between which the stores agree.
Plain == {"idle", "find", "insert", "revokeRow", "setPassword", "revokeAll"}

LEMMA StoresInit == Init => StoresKept
  <1> SUFFICES ASSUME Init PROVE StoresKept
    OBVIOUS
  <1>1. session = <<>> /\ Current = {Idle} /\ refresh = {} /\ members = {}
    BY DEF Init, Current, Quiet
  <1>2. Live = {}
    BY <1>1 DEF Live
  <1>3. Idle.at = "idle"
    BY IdleIs
  <1>4. Told(Idle)
    BY <1>1, <1>2, <1>3 DEF Told, Listed, Backed, Reachable
  <1> QED
    BY <1>1, <1>4 DEF StoresKept

\* While the stores agree, they do at each step that changes neither.
LEMMA ToldPlain ==
  ASSUME UNCHANGED <<session, refresh, members>>,
         NEW b, b.at \in Plain, Told(b), NEW c, c.at \in Plain \cup {"unlink"},
         c.at \in {"find", "unlink"} => c.then = "revoke"
  PROVE  Told(c)'
  <1>1. Live' = Live /\ LiveTokens' = LiveTokens /\ \A i \in Live : Alone(i)' <=> Alone(i)
    BY DEF Live, LiveTokens, Alone
  <1>2. members = refresh /\ refresh \subseteq LiveTokens
        /\ \A i \in Live : Alone(i) => session[i].token \in refresh
    BY DEF Plain, Told, Listed, Backed, Reachable
  <1>3. Listed(c)'
    BY <1>2 DEF Listed, Plain
  <1>4. Backed(c)'
    BY <1>1, <1>2 DEF Backed, Plain
  <1>5. Reachable(c)'
    BY <1>1, <1>2 DEF Reachable, Plain
  <1> QED
    BY <1>3, <1>4, <1>5 DEF Told

\* The rows that are left once those of S have ended.
LEMMA LessRows ==
  ASSUME Typed, NEW S, session' = Revoked(S)
  PROVE  /\ Live' = Live \ S
         /\ \A i \in DOMAIN session : session'[i].token = session[i].token
         /\ \A i \in DOMAIN session : ~session'[i].live <=> ~session[i].live \/ i \in S
         /\ LiveTokens' = {session[i].token : i \in Live \ S}
         /\ DOMAIN session' = DOMAIN session
         /\ \A i \in DOMAIN session : Alone(i)' <=> Alone(i)
  <1>1. /\ DOMAIN session' = DOMAIN session /\ Live' = Live \ S
        /\ \A i \in DOMAIN session : /\ session'[i].token = session[i].token
                                     /\ session'[i].live <=> session[i].live /\ i \notin S
    BY RevokedGives
  <1>2. LiveTokens' = {session[i].token : i \in Live \ S}
    BY <1>1 DEF LiveTokens, Live
  <1>3. \A i \in DOMAIN session : Alone(i)' <=> Alone(i)
    BY <1>1 DEF Alone
  <1> QED
    BY <1>1, <1>2, <1>3

\* Each step of the one call leaves the stores as its next step expects them.
LEMMA StepTells ==
  ASSUME Typed, Exchanged, reliable, NEW h \in Handlers, Step(h), Online(h),
         NEW b, b = call[h], Told(b), NEW c, c = call'[h]
  PROVE  Told(c)'
  <1>1. ASSUME NEW at, NEW next, Onward(h, at, next)
        PROVE  /\ b.at = at /\ c.at = next /\ c.then = b.then /\ c.token = b.token
               /\ c.row = b.row /\ c.found = b.found
    <2>1. c = [at |-> next, then |-> call[h].then, token |-> call[h].token,
               row |-> call[h].row, password |-> call[h].password, found |-> call[h].found]
          /\ b.at = at
      BY <1>1 DEF Onward, Does
    <2> QED
      BY <2>1
  <1>2. ASSUME NEW at, Does(h, at, Idle) PROVE b.at = at /\ c.at = "idle"
    BY <1>2, IdleIs DEF Does
  <1>3. ASSUME UNCHANGED session
        PROVE  /\ Live' = Live /\ LiveTokens' = LiveTokens
               /\ \A i \in DOMAIN session : Alone(i)' <=> Alone(i)
    BY <1>3 DEF Live, LiveTokens, Alone
  <1>4. CASE InsertRow(h)
    <2> PICK n, r : n = Len(session) + 1 /\ r = call[h].row
      OBVIOUS
    <2>1. Inserted(n, r, call[h].token, call[h].password)
      BY <1>4, InsertGives
    <2>2. Onward(h, "insert", "store") /\ UNCHANGED <<refresh, members>>
      BY <1>4, InsertRowGives
    <2>3. b.at = "insert" /\ c.at = "store" /\ c.token = b.token
      BY <1>1, <2>2
    <2>4. /\ Live' = Live \cup {n} /\ session'[n].token = c.token
          /\ n \notin DOMAIN session /\ DOMAIN session' = DOMAIN session \cup {n}
          /\ \A i \in DOMAIN session : session'[i].token = session[i].token
      BY <2>1, <2>3 DEF Inserted
    <2>5. LiveTokens \subseteq LiveTokens' /\ c.token \in LiveTokens'
      BY <2>4 DEF LiveTokens, Live
    <2>6. \A i \in Live : Alone(i)' => Alone(i)
      BY <2>4 DEF Alone, Live
    <2>7. Listed(c)'
      BY <2>2, <2>3 DEF Told, Listed
    <2>8. Backed(c)'
      BY <2>2, <2>3, <2>5 DEF Told, Backed
    <2>9. Reachable(c)'
      <3> SUFFICES ASSUME NEW i \in Live', Alone(i)', session'[i].token \notin refresh'
                   PROVE  session'[i].token = c.token
        BY <2>3 DEF Reachable
      <3>1. i \in Live => FALSE
        BY <2>2, <2>3, <2>4, <2>6 DEF Told, Reachable, Live
      <3> QED
        BY <2>4, <3>1
    <2> QED
      BY <2>7, <2>8, <2>9 DEF Told
  <1>5. CASE InsertFails(h)
    BY <1>5, InsertFailsGives
  <1>6. CASE StoreToken(h)
    <2>1. /\ Onward(h, "store", "index") /\ refresh' = refresh \cup {b.token}
          /\ UNCHANGED <<session, members>>
      BY <1>6, StoreTokenGives DEF Kept
    <2>2. b.at = "store" /\ c.at = "index" /\ c.token = b.token
      BY <1>1, <2>1
    <2>3. Listed(c)'
      BY <2>1, <2>2 DEF Told, Listed
    <2>4. Backed(c)'
      BY <1>3, <2>1, <2>2 DEF Told, Backed
    <2>5. Reachable(c)'
      BY <1>3, <2>1, <2>2 DEF Told, Reachable, Live
    <2> QED
      BY <2>3, <2>4, <2>5 DEF Told
  <1>7. CASE IndexToken(h)
    <2>1. /\ Does(h, "index", Idle) /\ members' = members \cup {b.token}
          /\ UNCHANGED <<session, refresh>>
      BY <1>7, IndexTokenGives DEF Kept
    <2>2. b.at = "index" /\ c.at = "idle"
      BY <1>2, <2>1
    <2>3. Listed(c)'
      BY <2>1, <2>2 DEF Told, Listed
    <2>4. Backed(c)'
      BY <1>3, <2>1, <2>2 DEF Told, Backed
    <2>5. Reachable(c)'
      BY <1>3, <2>1, <2>2 DEF Told, Reachable, Live
    <2> QED
      BY <2>3, <2>4, <2>5 DEF Told
  <1>8. ASSUME NEW i \in DOMAIN session, FindRow(h, i) PROVE Told(c)'
    <2>1. /\ b.at = "find" /\ UNCHANGED <<session, refresh, members>>
          /\ c = [at |-> "unlink", then |-> call[h].then, token |-> call[h].token, row |-> i,
                  password |-> session[i].password, found |-> call[h].found]
      BY <1>8, FindRowGives DEF Does, Kept
    <2>2. c.at = "unlink" /\ c.then = b.then
      BY <2>1
    <2>3. b.then = "revoke"
      BY <2>1 DEF Told, Reachable
    <2> QED
      BY <2>1, <2>2, <2>3, ToldPlain DEF Plain
  <1>9. CASE UnlinkToken(h)
    <2>1. /\ Onward(h, "unlink", "delete") /\ UNCHANGED <<session, refresh>>
          /\ members' = IF b.token \in refresh THEN members \ {b.token} ELSE members
      BY <1>9, UnlinkTokenGives DEF Kept
    <2>2. /\ b.at = "unlink" /\ c.at = "delete" /\ c.token = b.token /\ c.row = b.row
          /\ c.then = b.then
      BY <1>1, <2>1
    <2>3. Listed(c)'
      BY <2>1, <2>2 DEF Told, Listed
    <2>4. Backed(c)'
      BY <1>3, <2>1, <2>2 DEF Told, Backed
    <2>5. Reachable(c)'
      BY <1>3, <2>1, <2>2 DEF Told, Reachable, Live
    <2> QED
      BY <2>3, <2>4, <2>5 DEF Told
  <1>10. CASE DeleteToken(h)
    <2>1. refresh' = refresh \ {b.token} /\ UNCHANGED <<session, members>> /\ b.at = "delete"
      BY <1>10, DeleteTokenGives DEF Kept, DeleteToken, Proceed
    <2>2. members' = refresh' /\ refresh' \subseteq LiveTokens'
      BY <1>3, <2>1 DEF Told, Listed, Backed
    <2>3. \A i \in Live : Alone(i) /\ session[i].token \notin refresh' => session[i].token = b.token
      BY <2>1 DEF Told, Reachable
    <2>4. CASE b.then = "revoke"
      <3>1. c.at = "revoke" /\ c.token = b.token
        <4>1. Onward(h, "delete", "revoke")
          BY <1>10, <2>4, DeleteTokenGives
        <4> QED
          BY <1>1, <4>1
      <3>2. Listed(c)' /\ Backed(c)'
        BY <2>2, <3>1 DEF Listed, Backed
      <3>3. Reachable(c)'
        BY <1>3, <2>1, <2>3, <3>1 DEF Reachable, Live
      <3> QED
        BY <3>2, <3>3 DEF Told
    <2>5. CASE b.then # "revoke"
      <3>1. c.at = "idle"
        <4>1. Does(h, "delete", Idle)
          BY <1>10, <2>5, DeleteTokenGives
        <4> QED
          BY <1>2, <4>1
      <3>2. Listed(c)' /\ Backed(c)'
        BY <2>2, <3>1 DEF Listed, Backed
      <3>3. b.row \in DOMAIN session /\ session[b.row].token = b.token /\ ~session[b.row].live
        BY <2>1, <2>5 DEF Told, Reachable
      <3>4. \A i \in Live : session[i].token = b.token => ~Alone(i)
        BY <3>3 DEF Alone, Live
      <3>5. Reachable(c)'
        BY <1>3, <2>1, <2>3, <3>1, <3>4 DEF Reachable, Live
      <3> QED
        BY <3>2, <3>5 DEF Told
    <2> QED
      BY <2>4, <2>5
  <1>11. CASE RevokeToken(h)
    <2> PICK S : S = {i \in Live : session[i].token = b.token}
      OBVIOUS
    <2>1. session' = Revoked(S) /\ UNCHANGED <<refresh, members>> /\ b.at = "revoke"
      BY <1>11, RevokeTokenGives DEF Does
    <2>2. c.at \in {"idle", "insert"}
      <3>1. CASE b.row = Null
        BY <1>11, <3>1, RevokeTokenGives, IdleIs
      <3>2. CASE b.row # Null
        <4>1. c = [at |-> "insert", then |-> call[h].then, token |-> second,
                   row |-> call[h].row, password |-> call[h].password, found |-> call[h].found]
          BY <1>11, <3>2, RevokeTokenGives
        <4> QED
          BY <4>1
      <3> QED
        BY <3>1, <3>2
    <2>3. /\ Live' = Live \ S /\ LiveTokens' = {session[i].token : i \in Live \ S}
          /\ \A i \in DOMAIN session : session'[i].token = session[i].token
          /\ \A i \in DOMAIN session : Alone(i)' <=> Alone(i)
      BY <2>1, LessRows
    <2>4. members = refresh /\ refresh \subseteq LiveTokens /\ b.token \notin refresh
      BY <2>1 DEF Told, Listed, Backed, Reachable
    <2>5. Listed(c)'
      BY <2>1, <2>2, <2>4 DEF Listed
    <2>6. Backed(c)'
      <3>1. refresh \subseteq LiveTokens'
        BY <2>3, <2>4 DEF LiveTokens
      <3> QED
        BY <2>1, <2>2, <3>1 DEF Backed
    <2>7. Reachable(c)'
      BY <2>1, <2>2, <2>3 DEF Told, Reachable, Live
    <2> QED
      BY <2>5, <2>6, <2>7 DEF Told
  <1>12. CASE RevokeRow(h)
    <2> PICK S : S = {b.row}
      OBVIOUS
    <2>1. /\ Onward(h, "revokeRow", "unlink") /\ session' = Revoked(S)
          /\ UNCHANGED <<refresh, members>>
      BY <1>12, RevokeRowGives
    <2>2. b.at = "revokeRow" /\ c.at = "unlink" /\ c.token = b.token /\ c.row = b.row
      BY <1>1, <2>1
    <2>3. b.row \in DOMAIN session /\ session[b.row].token = b.token
      BY <2>2, CallIs DEF Proper, Exchanged, Issuing
    <2>4. /\ Live' = Live \ S /\ LiveTokens' = {session[i].token : i \in Live \ S}
          /\ DOMAIN session' = DOMAIN session
          /\ \A i \in DOMAIN session : session'[i].token = session[i].token
          /\ \A i \in DOMAIN session : ~session'[i].live <=> ~session[i].live \/ i \in S
          /\ \A i \in DOMAIN session : Alone(i)' <=> Alone(i)
      BY <2>1, LessRows
    <2>5. Listed(c)'
      BY <2>1, <2>2 DEF Told, Listed
    <2>6. Backed(c)'
      <3>1. refresh \subseteq LiveTokens
        BY <2>2 DEF Told, Backed
      <3>2. refresh \ {c.token} \subseteq LiveTokens'
        BY <2>2, <2>3, <2>4, <3>1 DEF LiveTokens
      <3> QED
        BY <2>1, <2>2, <3>2 DEF Backed
    <2>7. Reachable(c)'
      <3>1. c.row \in DOMAIN session' /\ session'[c.row].token = c.token /\ ~session'[c.row].live
        BY <2>2, <2>3, <2>4
      <3>2. \A i \in Live' : Alone(i)' => session'[i].token \in refresh'
        BY <2>1, <2>2, <2>4 DEF Told, Reachable, Live
      <3> QED
        BY <2>2, <3>1, <3>2 DEF Reachable
    <2> QED
      BY <2>5, <2>6, <2>7 DEF Told
  <1>13. CASE SetPassword(h)
    <2>1. Onward(h, "setPassword", "revokeAll") /\ UNCHANGED <<session, refresh, members>>
      BY <1>13, SetPasswordGives
    <2>2. b.at = "setPassword" /\ c.at = "revokeAll"
      BY <1>1, <2>1
    <2> QED
      BY <2>1, <2>2, ToldPlain DEF Plain
  <1>14. CASE RevokeRows(h)
    <2> PICK S : S = Live
      OBVIOUS
    <2>1. Onward(h, "revokeAll", "list") /\ session' = Revoked(S) /\ UNCHANGED <<refresh, members>>
      BY <1>14, RevokeRowsGives
    <2>2. b.at = "revokeAll" /\ c.at = "list"
      BY <1>1, <2>1
    <2>3. Live' = {}
      BY <2>1, LessRows
    <2> QED
      BY <2>1, <2>2, <2>3 DEF Told, Listed, Backed, Reachable
  <1>15. CASE ListTokens(h)
    <2>1. UNCHANGED <<session, refresh, members>> /\ b.at = "list"
      BY <1>15, ListTokensGives DEF Kept, Does
    <2>2. members = refresh /\ Live' = {}
      BY <1>3, <2>1 DEF Told, Listed, Backed
    <2>3. CASE members = {}
      <3>1. c.at = "idle"
        BY <1>15, <2>3, ListTokensGives, IdleIs
      <3> QED
        BY <2>1, <2>2, <2>3, <3>1 DEF Told, Listed, Backed, Reachable
    <2>4. CASE members # {}
      <3>1. c = [at |-> "drop", then |-> call[h].then, token |-> call[h].token,
                 row |-> call[h].row, password |-> call[h].password, found |-> members]
        BY <1>15, <2>4, ListTokensGives
      <3>2. c.at = "drop" /\ c.found = members
        BY <3>1
      <3> QED
        BY <2>1, <2>2, <3>2 DEF Told, Listed, Backed, Reachable
    <2> QED
      BY <2>3, <2>4
  <1>16. CASE DropTokens(h)
    <2>1. /\ Does(h, "drop", Idle) /\ UNCHANGED session
          /\ refresh' = refresh \ b.found /\ members' = {}
      BY <1>16, DropTokensGives DEF Kept
    <2>2. b.at = "drop" /\ c.at = "idle"
      BY <1>2, <2>1
    <2>3. refresh' = {} /\ Live' = {}
      BY <1>3, <2>1, <2>2 DEF Told, Listed, Backed
    <2> QED
      BY <2>1, <2>2, <2>3 DEF Told, Listed, Backed, Reachable
  <1> QED
    BY <1>4, <1>5, <1>6, <1>7, <1>8, <1>9, <1>10, <1>11, <1>12, <1>13, <1>14, <1>15, <1>16
       DEF Step

LEMMA StoresStep == Typed /\ Exchanged /\ StoresKept /\ [Next]_vars => StoresKept'
  <1> SUFFICES ASSUME Typed, Exchanged, StoresKept, [Next]_vars PROVE StoresKept'
    OBVIOUS
  <1>1. ASSUME NEW h \in Handlers, NEW at, NEW b, b = call[h], NEW c, c = call'[h],
               Does(h, at, c), online' = online,
               serial /\ reliable /\ Online(h) /\ Told(b) => Told(c)'
        PROVE  StoresKept'
    <2>1. serial => b \in Current /\ Current' \subseteq {c}
      BY <1>1, OneAtATime
    <2>2. serial' = serial /\ reliable' = reliable /\ WithRedis' = WithRedis
      BY <1>1 DEF Does, WithRedis
    <2>3. WithRedis => Online(h)
      BY SessionsAssumption DEF SessionsAssumption, WithRedis, Online
    <2> QED
      BY <1>1, <2>1, <2>2, <2>3 DEF StoresKept
  <1>2. ASSUME NEW h \in Handlers, Arrival(h) PROVE StoresKept'
    <2> PICK b, c : b = call[h] /\ c = call'[h]
      OBVIOUS
    <2>1. /\ Does(h, "idle", c) /\ UNCHANGED <<session, refresh, members, online>>
          /\ c.at \in {"insert", "find", "unlink", "revokeRow", "revokeAll", "setPassword"}
          /\ c.at \in {"find", "unlink"} => c.then = "revoke"
      BY <1>2, ArrivalGives
    <2>2. b.at = "idle"
      BY <2>1 DEF Does
    <2>3. Told(b) => Told(c)'
      BY <2>1, <2>2, ToldPlain DEF Plain
    <2> QED
      BY <1>1, <2>1, <2>3
  <1>3. ASSUME NEW h \in Handlers, Step(h) PROVE StoresKept'
    <2> PICK b, c : b = call[h] /\ c = call'[h]
      OBVIOUS
    <2>1. Does(h, call[h].at, c) /\ online' = online
      BY <1>3, StepDoes, StepKeepsRedis
    <2>2. reliable /\ Online(h) /\ Told(b) => Told(c)'
      BY <1>3, StepTells
    <2> QED
      BY <1>1, <2>1, <2>2
  <1>4. ASSUME NEW h \in Handlers, Abort(h) PROVE StoresKept'
    <2> PICK b, c : b = call[h] /\ c = Idle
      OBVIOUS
    <2>1. /\ Does(h, call[h].at, c) /\ UNCHANGED <<session, refresh, members, online>>
          /\ reliable => b.at = "find"
      BY <1>4, AbortGives DEF Kept
    <2>2. c = call'[h] /\ c.at = "idle"
      BY <2>1, IdleIs DEF Does
    <2>3. reliable /\ Told(b) => Told(c)'
      BY <2>1, <2>2, ToldPlain DEF Plain
    <2> QED
      BY <1>1, <2>1, <2>2, <2>3
  <1>5. ASSUME UNCHANGED <<serial, reliable, session, refresh, members, call>>,
               WithRedis' => WithRedis
        PROVE  StoresKept'
    <2>1. /\ Live' = Live /\ LiveTokens' = LiveTokens /\ Current' = Current
          /\ \A i \in Live : Alone(i)' <=> Alone(i)
      BY <1>5 DEF Live, LiveTokens, Current, Quiet, Idle, Alone
    <2>2. \A c : Told(c) => Told(c)'
      BY <1>5, <2>1 DEF Told, Listed, Backed, Reachable
    <2> QED
      BY <1>5, <2>1, <2>2 DEF StoresKept
  <1>6. ASSUME NEW p \in Processes, LoseRedis(p) PROVE StoresKept'
    <2>1. WithRedis' => WithRedis
      BY <1>6 DEF LoseRedis, WithRedis
    <2> QED
      BY <1>5, <1>6, <2>1 DEF LoseRedis, mode
  <1>7. ASSUME NEW p \in Processes, Restart(p) PROVE StoresKept'
    BY <1>7 DEF Restart, mode, StoresKept
  <1>8. CASE Tick
    BY <1>5, <1>8 DEF Tick, mode, cache, WithRedis
  <1>9. CASE UNCHANGED vars
    BY <1>5, <1>9 DEF vars, WithRedis
  <1> QED
    BY <1>2, <1>3, <1>4, <1>6, <1>7, <1>8, <1>9 DEF Next

\* When calls do not overlap, none is cut short and no replica has lost Redis, the two
\* stores tell one story between calls.
THEOREM StoresAlwaysAgree == Spec => []StoresAgree
  <1>1. Spec => []Typed
    BY TypedInit, TypedStep, PTL DEF Spec
  <1>2. Spec /\ []Typed => []Exchanged
    BY ExchangedInit, ExchangedStep, PTL DEF Spec
  <1>3. Spec /\ []Typed /\ []Exchanged => []StoresKept
    BY StoresInit, StoresStep, PTL DEF Spec
  <1>4. StoresKept => StoresAgree
    <2> SUFFICES ASSUME StoresKept, serial, reliable, Quiet, WithRedis
                 PROVE  /\ members = refresh
                        /\ refresh \subseteq LiveTokens
                        /\ \A i \in Live : Alone(i) => session[i].token \in refresh
      BY DEF StoresAgree, WithRedis
    <2>1. Idle \in Current
      BY DEF Current
    <2>2. Told(Idle)
      BY <2>1 DEF StoresKept
    <2> QED
      BY <2>2, IdleIs DEF Told, Listed, Backed, Reachable
  <1> QED
    BY <1>1, <1>2, <1>3, <1>4, PTL

----------------------------------------------------------------------------
(* The exact types of the sessions: the stores hold tokens, and a password is *)
(* changed no more often than there were calls.                               *)

Setting == {h \in Handlers : call[h].at = "setPassword"}

Exact ==
    /\ refresh \in SUBSET Second
    /\ memory \in [Processes -> SUBSET Second]
    /\ online \in [Processes -> BOOLEAN]
    /\ calls \in 0..MaxCalls
    /\ password + Cardinality(Setting) <= calls

LEMMA SettingCounts ==
    /\ IsFiniteSet(Setting) /\ Cardinality(Setting) \in Nat
    /\ \A S \in SUBSET Setting : IsFiniteSet(S) /\ Cardinality(S) \in Nat
                                 /\ Cardinality(S) <= Cardinality(Setting)
    /\ \A h \in Setting : Cardinality(Setting \ {h}) = Cardinality(Setting) - 1
    /\ \A h \in Handlers \ Setting : Cardinality(Setting \cup {h}) = Cardinality(Setting) + 1
  <1>1. IsFiniteSet(Setting)
    BY SessionsAssumption, FS_Subset DEF SessionsAssumption, Setting
  <1>2. Cardinality(Setting) \in Nat
    BY <1>1, FS_CardinalityType
  <1>3. ASSUME NEW S \in SUBSET Setting
        PROVE  IsFiniteSet(S) /\ Cardinality(S) \in Nat /\ Cardinality(S) <= Cardinality(Setting)
    BY <1>1, FS_Subset, FS_CardinalityType
  <1>4. ASSUME NEW h \in Setting PROVE Cardinality(Setting \ {h}) = Cardinality(Setting) - 1
    BY <1>1, FS_RemoveElement
  <1>5. ASSUME NEW h \in Handlers \ Setting
        PROVE  Cardinality(Setting \cup {h}) = Cardinality(Setting) + 1
    BY <1>1, FS_AddElement
  <1> QED BY <1>1, <1>2, <1>3, <1>4, <1>5

\* No call comes to the write of a password but from its beginning, and no step but
\* the beginning of a call counts one.
LEMMA StepCounts ==
  ASSUME Typed, NEW h \in Handlers, Step(h)
  PROVE  /\ call'[h].at # "setPassword" /\ calls' = calls
         /\ \/ password' = password
            \/ password' = password + 1 /\ call[h].at = "setPassword"
  <1>1. call \in [Handlers -> CallRecord] /\ call[h].then \in {"idle", "revoke"}
    BY DEF Typed, CallRecord
  <1>2. ASSUME NEW at, NEW c, Proceed(h, at, c), c.at # "setPassword"
        PROVE  call'[h].at # "setPassword" /\ calls' = calls /\ call[h].at = at
    BY <1>1, <1>2 DEF Proceed
  <1>3. ASSUME NEW next \in Label, next # "setPassword"
        PROVE  Goto(h, next).at # "setPassword"
    BY <1>1, <1>3, GotoGives, IdleIs
  <1>4. Idle.at # "setPassword" /\ Goto(h, call[h].then).at # "setPassword"
    BY <1>1, <1>3, IdleIs DEF Label
  <1>5. CASE InsertRow(h) \/ InsertFails(h) \/ IndexToken(h) \/ DeleteToken(h) \/ RevokeRow(h)
                \/ RevokeRows(h) \/ DropTokens(h)
    BY <1>2, <1>3, <1>4, <1>5
       DEF InsertRow, InsertFails, IndexToken, DeleteToken, RevokeRow, RevokeRows, DropTokens, Label
  <1>6. CASE StoreToken(h)
    BY <1>2, <1>3, <1>4, <1>6 DEF StoreToken, Label
  <1>7. ASSUME NEW i \in DOMAIN session, FindRow(h, i)
        PROVE  call'[h].at # "setPassword" /\ calls' = calls /\ password' = password
    <2> PICK c : c = call'[h]
      OBVIOUS
    <2>1. c = [at |-> "unlink", then |-> call[h].then, token |-> call[h].token, row |-> i,
               password |-> session[i].password, found |-> call[h].found]
      BY <1>7, FindRowGives
    <2>2. c.at = "unlink"
      BY <2>1
    <2>3. calls' = calls /\ password' = password
      BY <1>7 DEF FindRow, Proceed
    <2> QED BY <2>2, <2>3
  <1>8. CASE UnlinkToken(h)
    BY <1>2, <1>3, <1>4, <1>8 DEF UnlinkToken, Label
  <1>9. CASE RevokeToken(h)
    <2> PICK c : c = call'[h]
      OBVIOUS
    <2>1. \/ c = Idle
          \/ c = [at |-> "insert", then |-> call[h].then, token |-> second, row |-> call[h].row,
                  password |-> call[h].password, found |-> call[h].found]
      BY <1>9, RevokeTokenGives
    <2>2. c.at \in {"idle", "insert"}
      BY <2>1, IdleIs
    <2>3. calls' = calls /\ password' = password
      BY <1>9 DEF RevokeToken, Proceed
    <2> QED BY <2>2, <2>3
  <1>10. CASE ListTokens(h)
    <2> PICK c : c = call'[h]
      OBVIOUS
    <2>1. \/ c = Idle
          \/ c = [at |-> "drop", then |-> call[h].then, token |-> call[h].token,
                  row |-> call[h].row, password |-> call[h].password, found |-> members]
      BY <1>10, ListTokensGives
    <2>2. c.at \in {"idle", "drop"}
      BY <2>1, IdleIs
    <2>3. calls' = calls /\ password' = password
      BY <1>10 DEF ListTokens, Proceed
    <2> QED BY <2>2, <2>3
  <1>11. CASE SetPassword(h)
    BY <1>2, <1>3, <1>11 DEF SetPassword, Label
  <1> QED BY <1>5, <1>6, <1>7, <1>8, <1>9, <1>10, <1>11 DEF Step

\* What a step of a call writes to the stores is a token.
LEMMA StepStores ==
  ASSUME Typed, Exact, NEW h \in Handlers, Step(h)
  PROVE  refresh' \in SUBSET Second /\ memory' \in [Processes -> SUBSET Second]
  <1>1. /\ refresh \in SUBSET Second /\ memory \in [Processes -> SUBSET Second]
        /\ Proper(call[h], DOMAIN session)
    BY DEF Exact, Typed
  <1>2. CASE InsertRow(h) \/ InsertFails(h) \/ RevokeToken(h) \/ RevokeRow(h) \/ SetPassword(h)
                \/ RevokeRows(h) \/ \E i \in DOMAIN session : FindRow(h, i)
    BY <1>1, <1>2 DEF InsertRow, InsertFails, RevokeToken, RevokeRow, SetPassword, RevokeRows,
                      FindRow, cache
  <1>3. CASE StoreToken(h) \/ IndexToken(h)
    <2>1. call[h].token \in Second
      BY <1>1, <1>3 DEF StoreToken, IndexToken, Proceed, Proper
    <2>2. \A t \in Second : \A p : [memory EXCEPT ![p] = memory[p] \cup {t}]
                                      \in [Processes -> SUBSET Second]
      BY <1>1
    <2> QED BY <1>1, <1>3, <2>1, <2>2 DEF StoreToken, IndexToken
  <1>4. CASE UnlinkToken(h) \/ DeleteToken(h)
    <2>1. \A t : \A p : [memory EXCEPT ![p] = memory[p] \ {t}] \in [Processes -> SUBSET Second]
      BY <1>1
    <2> QED BY <1>1, <1>4, <2>1 DEF UnlinkToken, DeleteToken
  <1>5. CASE ListTokens(h) \/ DropTokens(h)
    <2>1. \A p : [memory EXCEPT ![p] = {}] \in [Processes -> SUBSET Second]
      BY <1>1
    <2> QED BY <1>1, <1>5, <2>1 DEF ListTokens, DropTokens
  <1> QED BY <1>2, <1>3, <1>4, <1>5 DEF Step

LEMMA ExactStep == Typed /\ Exact /\ [Next]_vars => Exact'
  <1> SUFFICES ASSUME Typed, Exact, [Next]_vars PROVE Exact'
    OBVIOUS
  <1>1. /\ refresh \in SUBSET Second /\ memory \in [Processes -> SUBSET Second]
        /\ online \in [Processes -> BOOLEAN] /\ calls \in 0..MaxCalls /\ MaxCalls \in Nat
        /\ password \in Nat /\ Cardinality(Setting) \in Nat
        /\ password + Cardinality(Setting) <= calls
    BY SettingCounts, SessionsAssumption DEF Exact, Typed, SessionsAssumption
  <1>2. ASSUME Setting' \in SUBSET Setting, password' = password, calls' = calls
        PROVE  calls' \in 0..MaxCalls /\ password' + Cardinality(Setting') <= calls'
    <2>1. Cardinality(Setting') \in Nat /\ Cardinality(Setting') <= Cardinality(Setting)
      BY <1>2, SettingCounts
    <2> QED BY <1>1, <1>2, <2>1
  <1>3. ASSUME NEW h \in Handlers, Arrival(h) PROVE Exact'
    <2>1. UNCHANGED <<refresh, memory, online, password>> /\ Does(h, "idle", call'[h])
      BY <1>3, ArrivalGives
    <2>2. calls < MaxCalls /\ calls' = calls + 1
      BY <1>3 DEF Arrival, Login, LogoutAll, ChangePassword, Refresh, Logout, EndSession, Begin
    <2>3. h \in Handlers \ Setting /\ Setting' \in {Setting, Setting \cup {h}}
      BY <2>1 DEF Does, Setting
    <2>4. Cardinality(Setting') <= Cardinality(Setting) + 1 /\ Cardinality(Setting') \in Nat
      BY <1>1, <2>3, SettingCounts
    <2>5. calls' \in 0..MaxCalls /\ password' + Cardinality(Setting') <= calls'
      BY <1>1, <2>1, <2>2, <2>4
    <2> QED BY <1>1, <2>1, <2>5 DEF Exact
  <1>4. ASSUME NEW h \in Handlers, Step(h) PROVE Exact'
    <2>1. /\ call'[h].at # "setPassword" /\ calls' = calls
          /\ \/ password' = password
             \/ password' = password + 1 /\ call[h].at = "setPassword"
      BY <1>4, StepCounts
    <2>2. \A g \in Handlers : g # h => call'[g] = call[g]
      BY <1>4, StepDoes DEF Does
    <2>3. Setting' = Setting \ {h}
      BY <2>1, <2>2 DEF Setting
    <2>4. calls' \in 0..MaxCalls /\ password' + Cardinality(Setting') <= calls'
      <3>1. CASE password' = password
        BY <1>2, <2>1, <2>3, <3>1
      <3>2. CASE password' = password + 1 /\ call[h].at = "setPassword"
        <4>1. Cardinality(Setting') = Cardinality(Setting) - 1
          BY <2>3, <3>2, SettingCounts DEF Setting
        <4> QED BY <1>1, <2>1, <3>2, <4>1
      <3> QED BY <2>1, <3>1, <3>2
    <2>5. refresh' \in SUBSET Second /\ memory' \in [Processes -> SUBSET Second]
          /\ online' = online
      BY <1>4, StepStores, StepKeepsRedis
    <2> QED BY <1>1, <2>4, <2>5 DEF Exact
  <1>5. ASSUME NEW h \in Handlers, Abort(h) PROVE Exact'
    <2>1. UNCHANGED <<refresh, memory, online, password, calls>>
      BY <1>5 DEF Abort, cache
    <2>2. Setting' \in SUBSET Setting
      BY <1>5, AbortGives, IdleIs DEF Does, Setting
    <2> QED BY <1>1, <1>2, <2>1, <2>2 DEF Exact
  <1>6. ASSUME NEW p \in Processes, LoseRedis(p) PROVE Exact'
    <2>1. /\ UNCHANGED <<refresh, memory, password, calls, call>>
          /\ online' = [online EXCEPT ![p] = FALSE]
      BY <1>6 DEF LoseRedis
    <2>2. Setting' = Setting /\ online' \in [Processes -> BOOLEAN]
      BY <1>1, <2>1 DEF Setting
    <2> QED BY <1>1, <1>2, <2>1, <2>2 DEF Exact
  <1>7. ASSUME NEW p \in Processes, Restart(p) PROVE Exact'
    <2>1. /\ UNCHANGED <<refresh, password, calls>>
          /\ online' = [online EXCEPT ![p] = TRUE] /\ memory' = [memory EXCEPT ![p] = {}]
          /\ call' = [h \in Handlers |-> IF ProcessOf[h] = p THEN Idle ELSE call[h]]
      BY <1>7 DEF Restart
    <2>2. Setting' \in SUBSET Setting
      BY <2>1, IdleIs DEF Setting
    <2>3. online' \in [Processes -> BOOLEAN] /\ memory' \in [Processes -> SUBSET Second]
      BY <1>1, <2>1
    <2> QED BY <1>1, <1>2, <2>1, <2>2, <2>3 DEF Exact
  <1>8. CASE Tick \/ UNCHANGED vars
    <2>1. UNCHANGED <<refresh, memory, online, password, calls, call>>
      BY <1>8 DEF Tick, vars, cache
    <2>2. Setting' = Setting
      BY <2>1 DEF Setting
    <2> QED BY <1>1, <1>2, <2>1, <2>2 DEF Exact
  <1> QED BY <1>3, <1>4, <1>5, <1>6, <1>7, <1>8 DEF Next

\* Every variable of Sessions keeps its type: the stores hold tokens of seconds that
\* have been, a call names a row that is there, and carries a token where it uses one.
THEOREM SessionsTypeCorrect == Spec => []TypeOK
  <1>1. Init => Exact
    <2> SUFFICES ASSUME Init PROVE Exact
      OBVIOUS
    <2>1. Setting = {}
      BY IdleIs DEF Init, Setting
    <2>2. Cardinality(Setting) = 0
      BY <2>1, FS_EmptySet
    <2> QED BY <2>2, SessionsAssumption DEF Init, Exact, SessionsAssumption
  <1>2. Typed /\ Exact => TypeOK
    <2> SUFFICES ASSUME Typed, Exact PROVE TypeOK
      OBVIOUS
    <2>1. /\ {serial, reliable} \subseteq BOOLEAN /\ session \in Seq(SessionRow)
          /\ {refresh, members} \subseteq SUBSET Second
          /\ memory \in [Processes -> SUBSET Second] /\ online \in [Processes -> BOOLEAN]
          /\ second \in Second
      BY DEF Typed, Exact
    <2>2. {password, calls} \subseteq 0..MaxCalls
      BY SettingCounts, SessionsAssumption DEF Typed, Exact, SessionsAssumption
    <2>3. call \in [Handlers -> [at : Label, then : Label, token : Second \cup {Null},
                                 row : Nat \cup {Null}, password : Nat, found : SUBSET Second]]
      BY DEF Typed, CallRecord, Label
    <2>4. ASSUME NEW h \in Handlers
          PROVE  /\ call[h].at \in {"find", "unlink", "delete", "revoke", "insert", "store", "index"}
                      => call[h].token \in Second
                 /\ call[h].row # Null => call[h].row \in DOMAIN session
      BY DEF Typed, Proper
    <2> QED BY <2>1, <2>2, <2>3, <2>4 DEF TypeOK
  <1> QED BY <1>1, <1>2, TypedInit, TypedStep, ExactStep, PTL DEF Spec

----------------------------------------------------------------------------
(* The lock that a login asks first: another specification, LoginsSpec, of *)
(* the same replicas and handlers.  What serial, call and calls are there  *)
(* has nothing to do with Sessions.                                        *)

\* Failures that are at most a window older than now.
WindowOf(now) == {t \in Time : t + Window >= now}

Tries(f, now) == SumFunctionOnSet(f, WindowOf(now))

Failures == [Time -> Nat]

LEMMA Limits ==
  /\ IsFiniteSet(Processes) /\ IsFiniteSet(Handlers)
  /\ ProcessOf \in [Handlers -> Processes] /\ Redis \notin Processes
  /\ MaxFailed \in Nat /\ MaxFailed > 1 /\ MaxCalls \in Nat
  /\ Window \in Nat /\ Window >= 1 /\ Lockout \in Nat /\ Window < Lockout
  /\ MaxTime \in Nat /\ MaxTime >= 1
  /\ Time = 1..MaxTime /\ IsFiniteSet(Time)
  <1>1. /\ MaxFailed \in Nat \ {0} /\ Window \in Nat \ {0} /\ Lockout \in Nat \ {0}
        /\ MaxTime \in Nat \ {0}
    BY LoginsAssumption
  <1>2. IsFiniteSet(1..MaxTime)
    BY <1>1, FS_Interval
  <1>3. /\ ProcessOf \in [Handlers -> Processes] /\ MaxFailed > 1 /\ Window < Lockout
        /\ MaxCalls \in Nat /\ Redis \notin Processes
    BY LoginsAssumption
  <1>4. Time = 1..MaxTime
    BY DEF Time
  <1>5. Window >= 1 /\ MaxTime >= 1
    BY <1>1
  <1>6. IsFiniteSet(Processes) /\ IsFiniteSet(Handlers)
    BY LoginsAssumption
  <1> QED
    BY <1>1, <1>2, <1>3, <1>4, <1>5, <1>6

LEMMA TriesType ==
  ASSUME NEW f \in Failures, NEW now
  PROVE  IsFiniteSet(WindowOf(now)) /\ Tries(f, now) \in Nat
  <1>1. IsFiniteSet(WindowOf(now))
    BY Limits, FS_Subset DEF WindowOf
  <1>2. \A t \in WindowOf(now) : f[t] \in Nat
    BY DEF WindowOf, Failures
  <1> QED
    BY <1>1, <1>2, SumNat DEF Tries

\* A window that ends later has no more of them.
LEMMA TriesFall ==
  ASSUME NEW f \in Failures, NEW a \in Nat, NEW b \in Nat, a <= b
  PROVE  Tries(f, b) <= Tries(f, a)
  <1>1. WindowOf(b) \in SUBSET WindowOf(a)
    BY Limits DEF WindowOf
  <1>2. \A t \in WindowOf(a) : f[t] \in Nat
    BY DEF WindowOf, Failures
  <1> QED
    BY <1>1, <1>2, TriesType, SumOfPart DEF Tries

LEMMA TriesChange ==
  ASSUME NEW f \in Failures, NEW now \in Time,
         NEW g \in Failures, \A t \in Time \ {now} : g[t] = f[t]
  PROVE  Tries(g, now) = Tries(f, now) + g[now] - f[now]
  <1>1. PICK w : w = WindowOf(now)
    OBVIOUS
  <1>2. now \in Nat /\ now \in w /\ w \subseteq Time
    BY <1>1, Limits DEF WindowOf
  <1>3. Ints(f, w) /\ g[now] \in Int /\ f[now] \in Int
    BY <1>2 DEF Ints, Failures
  <1>4. SumFunctionOnSet(g, w) = SumFunctionOnSet(f, w) + g[now] - f[now]
    <2>1. IsFiniteSet(w)
      BY <1>1, TriesType
    <2>2. \A t \in w \ {now} : g[t] = f[t]
      BY <1>2
    <2> QED BY <1>2, <1>3, <2>1, <2>2, SumChanges
  <1> QED
    BY <1>1, <1>4 DEF Tries

\* No failures within the window.
LEMMA TriesNone ==
  ASSUME NEW f \in Failures, NEW now, \A t \in WindowOf(now) : f[t] = 0
  PROVE  Tries(f, now) = 0
  BY TriesType, SumZero DEF Tries

----------------------------------------------------------------------------
(* What a record tells of the failures there were                          *)

\* A record that counts, and says when its lock ends.  A lock in Redis may stay when
\* the count has begun anew.
Marked(s, r) ==
    /\ r.last = 0 <=> r.count = 0
    /\ r.count >= MaxFailed => r.until = r.last + Lockout
    /\ s # Redis /\ r.count < MaxFailed => r.until = 0

\* The last failure a record knows of; with none, there is none up to now.
Mark(r, now) == IF r.last = 0 THEN now ELSE r.last

\* Record r has all that f tells: no window since the mark holds more failures than
\* it counts, and none is later than the mark.
Tells(f, r, now) ==
    /\ Mark(r, now) <= now
    /\ Tries(f, Mark(r, now)) <= r.count
    /\ \A t \in Time : t > Mark(r, now) => f[t] = 0

\* A lock ends when the failures before it are older than the lockout.
Past(f, r) == r.until # 0 => \A t \in Time : f[t] # 0 => t + Lockout <= r.until

\* The failures of a store that had reached its maximum, and the n calls it has let
\* in and not answered, are no more than one short of the maximum and the m calls
\* that it may let in at once.
Within(f, r, now, n, m) ==
    r.count < MaxFailed \/ Tries(f, Mark(r, now)) + n <= MaxFailed - 1 + m

KeptAt(s, r, f, now, n, m) ==
    Marked(s, r) /\ Tells(f, r, now) /\ Past(f, r) /\ Within(f, r, now, n, m)

LEMMA NoRecordIs ==
  /\ NoRecord \in RecordType
  /\ NoRecord.count = 0 /\ NoRecord.last = 0 /\ NoRecord.until = 0
  BY DEF NoRecord, RecordType

LEMMA RecordFields ==
  ASSUME NEW r \in RecordType
  PROVE  r.count \in Nat /\ r.last \in Nat /\ r.until \in Nat
  BY DEF RecordType

\* Time goes on and calls are answered.
LEMMA KeptLater ==
  ASSUME NEW s, NEW r \in RecordType, NEW f \in Failures, NEW a \in Nat, NEW b \in Nat,
         NEW n \in Nat, NEW k \in Nat, NEW m \in Nat, a <= b, k <= n, KeptAt(s, r, f, a, n, m)
  PROVE  KeptAt(s, r, f, b, k, m)
  <1>1. /\ Mark(r, a) \in Nat /\ Mark(r, b) \in Nat /\ Mark(r, a) <= Mark(r, b)
        /\ Mark(r, b) <= b /\ r.count \in Nat
    BY RecordFields DEF Mark, Tells, KeptAt
  <1>2. Tries(f, Mark(r, b)) <= Tries(f, Mark(r, a))
    BY <1>1, TriesFall
  <1>3. Tries(f, Mark(r, b)) \in Nat /\ Tries(f, Mark(r, a)) \in Nat
    BY TriesType
  <1>4. Tells(f, r, b)
    <2>1. Tries(f, Mark(r, b)) <= r.count
      BY <1>1, <1>2, <1>3 DEF KeptAt, Tells
    <2>2. ASSUME NEW t \in Time, t > Mark(r, b) PROVE f[t] = 0
      <3>1. t > Mark(r, a)
        BY <1>1, <2>2, Limits
      <3> QED BY <3>1 DEF KeptAt, Tells
    <2> QED BY <1>1, <2>1, <2>2 DEF Tells
  <1>5. Within(f, r, b, k, m)
    BY <1>1, <1>2, <1>3, Limits DEF KeptAt, Within
  <1> QED
    BY <1>4, <1>5 DEF KeptAt

\* Short of the maximum, any number of calls may be let in.
LEMMA KeptFree ==
  ASSUME NEW s, NEW r, NEW f, NEW now, NEW n, NEW m, NEW k, NEW l,
         KeptAt(s, r, f, now, n, m), r.count < MaxFailed
  PROVE  KeptAt(s, r, f, now, k, l)
  BY DEF KeptAt, Within

\* A record without failures tells of a window without failures.
LEMMA KeptQuiet ==
  ASSUME NEW s, NEW f \in Failures, NEW now \in Nat, NEW n, NEW m,
         \A t \in Time : t + Window >= now => f[t] = 0
  PROVE  KeptAt(s, NoRecord, f, now, n, m)
  <1>1. Mark(NoRecord, now) = now
    BY NoRecordIs DEF Mark
  <1>2. Tries(f, now) = 0
    BY TriesNone DEF WindowOf
  <1>3. ASSUME NEW t \in Time, t > now PROVE f[t] = 0
    <2>1. t + Window >= now
      BY <1>3, Limits
    <2> QED BY <2>1
  <1>4. Tells(f, NoRecord, now)
    BY <1>1, <1>2, <1>3, NoRecordIs DEF Tells
  <1>5. Marked(s, NoRecord) /\ Past(f, NoRecord) /\ Within(f, NoRecord, now, n, m)
    BY NoRecordIs, Limits DEF Marked, Past, Within
  <1> QED
    BY <1>4, <1>5 DEF KeptAt

\* When the lock is over, so is the window of the failures that led to it.
LEMMA KeptOver ==
  ASSUME NEW s, NEW r \in RecordType, NEW f \in Failures, NEW now \in Nat,
         Past(f, r), r.until # 0, r.until <= now, NEW n, NEW m
  PROVE  KeptAt(s, NoRecord, f, now, n, m)
  <1>1. ASSUME NEW t \in Time, t + Window >= now PROVE f[t] = 0
    <2>1. t + Lockout > r.until
      BY <1>1, Limits, RecordFields
    <2>2. r.until \in Nat /\ t + Lockout \in Nat
      BY Limits, RecordFields
    <2> QED BY <2>1, <2>2 DEF Past
  <1> QED
    BY <1>1, KeptQuiet

LEMMA CountIs ==
  ASSUME NEW r \in RecordType, NEW now \in Time
  PROVE  /\ now \in Nat /\ now >= 1
         /\ Count(r, now) \in Nat /\ Count(r, now) >= 1
         /\ r.last # 0 /\ now - r.last > Window => Count(r, now) = 1
         /\ ~(r.last # 0 /\ now - r.last > Window) => Count(r, now) = r.count + 1
         /\ Count(r, now) <= r.count + 1
  <1>1. now \in Nat /\ now >= 1
    BY Limits
  <1> QED
    BY <1>1, RecordFields, Limits DEF Count

LEMMA AfterIs ==
  ASSUME NEW r \in RecordType, NEW now \in Time
  PROVE  /\ After(r, now) \in RecordType
         /\ After(r, now).count = Count(r, now) /\ After(r, now).last = now
         /\ Count(r, now) >= MaxFailed => After(r, now).until = now + Lockout
         /\ Count(r, now) < MaxFailed => After(r, now).until = 0 \/ After(r, now).until = r.until
         /\ Count(r, now) = 1 => After(r, now).until = 0
  <1> DEFINE c == Count(r, now)
             u == CASE c >= MaxFailed -> now + Lockout [] c = 1 -> 0 [] OTHER -> r.until
  <1>1. now \in Nat /\ c \in Nat
    BY CountIs
  <1>2. r.until \in Nat /\ MaxFailed \in Nat /\ MaxFailed > 1 /\ Lockout \in Nat
    BY RecordFields, Limits
  <1>3. After(r, now) = [count |-> c, last |-> now, until |-> u]
    BY DEF After
  <1> HIDE DEF c
  <1>4. /\ c >= MaxFailed => u = now + Lockout /\ c # 1
        /\ c = 1 => u = 0
        /\ ~(c >= MaxFailed) /\ c # 1 => u = r.until
    <2>1. c >= MaxFailed => c # 1
      BY <1>1, <1>2
    <2> QED BY <2>1
  <1> HIDE DEF u
  <1>5. u \in Nat
    BY <1>1, <1>2, <1>4
  <1>6. c < MaxFailed => u = 0 \/ u = r.until
    BY <1>1, <1>2, <1>4
  <1> QED
    BY <1>1, <1>3, <1>4, <1>5, <1>6 DEF RecordType, c

\* A record written after one failure more.  d is 1 if the call it is counted for was
\* let in by this store, and 0 if by another; a lock in Redis that had ended then stays
\* as it was only in the second case.
Recorded(s, r, x, now) ==
    /\ x \in RecordType /\ x.count = Count(r, now) /\ x.last = now
    /\ x.count >= MaxFailed => x.until = now + Lockout
    /\ x.count < MaxFailed => x.until = IF s = Redis THEN r.until ELSE 0

LEMMA KeptCounted ==
  ASSUME NEW s, NEW r \in RecordType, NEW f \in Failures, NEW now \in Time,
         NEW n \in Nat, NEW m \in Nat, KeptAt(s, r, f, now, n, m), n <= m,
         NEW x, Recorded(s, r, x, now),
         NEW d \in {0, 1}, d <= n, d = 1 /\ s = Redis => r.until = 0,
         NEW g \in Failures, g[now] = f[now] + d, \A t \in Time \ {now} : g[t] = f[t]
  PROVE  KeptAt(s, x, g, now, n - d, m)
  <1>1. /\ now \in Nat /\ now >= 1 /\ r.count \in Nat /\ r.last \in Nat /\ r.until \in Nat
        /\ x.count = Count(r, now) /\ x.last = now /\ x.until \in Nat
        /\ x.count \in Nat /\ x.count >= 1 /\ x.count <= r.count + 1
    BY CountIs, RecordFields DEF Recorded
  <1>2. Mark(x, now) = now /\ Mark(r, now) \in Nat /\ Mark(r, now) <= now
    BY <1>1 DEF Mark, Tells, KeptAt
  <1>3. \A t \in Time : t > Mark(r, now) => f[t] = 0
    BY DEF KeptAt, Tells
  <1>4. /\ Tries(f, now) \in Nat /\ Tries(f, Mark(r, now)) \in Nat
        /\ Tries(f, now) <= Tries(f, Mark(r, now)) /\ Tries(f, Mark(r, now)) <= r.count
    BY <1>1, <1>2, TriesType, TriesFall DEF KeptAt, Tells
  <1>5. Tries(g, now) = Tries(f, now) + d
    <2>1. f[now] \in Nat
      BY DEF Failures
    <2>2. Tries(g, now) = Tries(f, now) + g[now] - f[now]
      BY TriesChange
    <2> QED BY <1>4, <2>1, <2>2
  <1>6. Tries(g, now) <= x.count
    <2>1. CASE r.last # 0 /\ now - r.last > Window
      <3>1. ASSUME NEW t \in WindowOf(now) PROVE f[t] = 0
        <4>1. t \in Time /\ t > Mark(r, now)
          BY <1>1, <2>1, Limits DEF WindowOf, Mark
        <4> QED BY <1>3, <4>1
      <3>2. Tries(f, now) = 0
        BY <3>1, TriesNone
      <3> QED BY <1>1, <1>5, <3>2
    <2>2. CASE ~(r.last # 0 /\ now - r.last > Window)
      <3>1. Count(r, now) = r.count + 1
        BY <2>2, CountIs
      <3> QED BY <1>1, <1>4, <1>5, <3>1
    <2> QED BY <2>1, <2>2
  <1>7. ASSUME NEW t \in Time, t > now PROVE g[t] = 0
    BY <1>1, <1>2, <1>3, <1>7, Limits
  <1>8. Tells(g, x, now)
    BY <1>1, <1>2, <1>6, <1>7 DEF Tells
  <1>9. Marked(s, x)
    BY <1>1 DEF Marked, Recorded
  <1>10. Past(g, x)
    <2>1. CASE x.count >= MaxFailed
      <3>1. x.until = now + Lockout
        BY <2>1 DEF Recorded
      <3>2. ASSUME NEW t \in Time, g[t] # 0 PROVE t + Lockout <= now + Lockout
        <4>1. ~(t > now)
          BY <1>7, <3>2
        <4> QED BY <1>1, <4>1, Limits
      <3> QED BY <3>1, <3>2 DEF Past
    <2>2. CASE x.count < MaxFailed
      <3>1. x.until # 0 => s = Redis /\ x.until = r.until /\ d = 0
        BY <2>2 DEF Recorded
      <3>2. d = 0 => \A t \in Time : g[t] = f[t]
        BY DEF Failures
      <3> QED BY <3>1, <3>2 DEF Past, KeptAt
    <2> QED BY <1>1, <2>1, <2>2, Limits
  <1>11. Within(g, x, now, n - d, m)
    <2> SUFFICES ASSUME ~(x.count < MaxFailed)
                 PROVE  Tries(g, now) + (n - d) <= MaxFailed - 1 + m
      BY <1>2 DEF Within
    <2>1. Tries(f, Mark(r, now)) + n <= MaxFailed - 1 + m
      <3>1. CASE r.count < MaxFailed
        BY <1>1, <1>4, <3>1, Limits
      <3>2. CASE ~(r.count < MaxFailed)
        BY <3>2 DEF KeptAt, Within
      <3> QED BY <3>1, <3>2
    <2> QED BY <1>4, <1>5, <2>1, Limits
  <1> QED
    BY <1>8, <1>9, <1>10, <1>11 DEF KeptAt

----------------------------------------------------------------------------
(* The inductive invariant of Logins, and what each of its steps does      *)

\* A call in progress began no longer than one unit of the clock ago.
Timed ==
    \A h \in Handlers :
        /\ call[h].at = "idle" => call[h] = NoLogin
        /\ call[h].at # "idle" =>
              /\ call[h].began \in Time
              /\ call[h].began <= clock /\ clock <= call[h].began + 1
        /\ call[h].store \in {Redis, ProcessOf[h]}
        /\ call[h].at = "unlock" => call[h].store = Redis

OneLogin ==
    serial => \A g, h \in Handlers : call[g] # NoLogin /\ call[h] # NoLogin => g = h

\* The calls a store has let in and not answered.
LetIn(s) == {h \in Handlers : call[h].at \in {"compare", "record"} /\ call[h].store = s}

\* A replica let them in before the failure that locked its record, if one did; Redis
\* has no lock while there are any.
Begun(s) ==
    \A h \in LetIn(s) :
        failedAttempts[s].until # 0 => s # Redis /\ call[h].began <= failedAttempts[s].last

\* What a call has read in Redis is what is there.
Reads(s) ==
    s = Redis => \A h \in Handlers :
        /\ call[h].at = "record" => call[h].seen = failedAttempts[s]
        /\ call[h].at = "unlock" => failedAttempts[s].until # 0 /\ failedAttempts[s].until <= clock

StoreAt(s) ==
    /\ KeptAt(s, failedAttempts[s], failed[s], clock, Cardinality(LetIn(s)), AtOnce(s))
    /\ Begun(s) /\ Reads(s)

\* Redis counts right while calls do not overlap, and a replica's memory always.
Counting(s) == serial \/ s # Redis

StoresTell == \A s \in Stores : Counting(s) => StoreAt(s)

LoginsInv == LoginsTypeOK /\ Timed /\ OneLogin /\ StoresTell

CallType == [at : {"idle", "unlock", "compare", "record"},
             began : Nat, store : Stores, seen : RecordType]

LEMMA LoginsTyped ==
  ASSUME LoginsTypeOK
  PROVE  /\ serial \in BOOLEAN
         /\ failedAttempts \in [Stores -> RecordType]
         /\ \A s \in Stores : failedAttempts[s] \in RecordType /\ failed[s] \in Failures
         /\ failed \in [Stores -> Failures]
         /\ clock \in Time /\ clock \in Nat /\ clock >= 1
         /\ call \in [Handlers -> CallType]
         /\ \A h \in Handlers :
               /\ ProcessOf[h] \in Processes /\ ProcessOf[h] \in Stores
               /\ call[h].seen \in RecordType /\ call[h].store \in Stores
               /\ call[h].began \in Nat
         /\ calls \in Nat /\ calls \in 0..MaxCalls
         /\ Redis \in Stores
  BY Limits DEF LoginsTypeOK, Failures, CallType, Stores

LEMMA IdleLogin ==
  /\ NoLogin.at = "idle" /\ NoLogin.began = 0 /\ NoLogin.store = Redis
  /\ NoLogin.seen = NoRecord /\ NoLogin \in CallType
  BY NoRecordIs DEF NoLogin, CallType, Stores

LEMMA TypedAgain ==
  ASSUME LoginsTypeOK, serial' = serial, connected' \in SUBSET Processes,
         failedAttempts' \in [Stores -> RecordType], failed' \in [Stores -> Failures],
         clock' \in Time, call' \in [Handlers -> CallType], calls' \in 0..MaxCalls
  PROVE  LoginsTypeOK'
  BY DEF LoginsTypeOK, Failures, CallType

\* A step of call h leaves the others alone.
Moves(h) ==
    /\ \A g \in Handlers \ {h} : call'[g] = call[g]
    /\ serial' = serial /\ clock' = clock

LEMMA LoginGoes ==
  ASSUME LoginsTypeOK, NEW h \in Handlers, NEW at \in {"idle", "compare"}, GoOn(h, at)
  PROVE  /\ \A g \in Handlers \ {h} : call'[g] = call[g]
         /\ at = "idle" => call'[h] = NoLogin
         /\ at = "compare" => /\ call'[h].at = "compare" /\ call'[h].began = call[h].began
                              /\ call'[h].store = call[h].store
         /\ call' \in [Handlers -> CallType]
  <1>1. call \in [Handlers -> CallType] /\ call[h] \in CallType
    BY LoginsTyped
  <1>2. CASE at = "idle"
    BY <1>1, <1>2, IdleLogin DEF GoOn
  <1>3. CASE at = "compare"
    <2>1. call' = [call EXCEPT ![h] = [call[h] EXCEPT !.at = "compare"]]
      BY <1>3 DEF GoOn
    <2>2. PICK c : c = [call[h] EXCEPT !.at = "compare"]
      OBVIOUS
    <2>3. c \in CallType /\ c.at = "compare" /\ c.began = call[h].began /\ c.store = call[h].store
      BY <1>1, <2>2 DEF CallType
    <2> QED BY <1>1, <1>3, <2>1, <2>2, <2>3
  <1> QED BY <1>2, <1>3

LEMMA WithoutIs ==
  ASSUME LoginsTypeOK, NEW S
  PROVE  /\ Without(S) \in [Stores -> RecordType]
         /\ \A s \in Stores : Without(S)[s] = IF s \in S THEN NoRecord ELSE failedAttempts[s]
  BY NoRecordIs, LoginsTyped DEF Without

LEMMA ClearIs ==
  ASSUME LoginsTypeOK, NEW S, Clear(S)
  PROVE  /\ failedAttempts' \in [Stores -> RecordType] /\ failed' \in [Stores -> Failures]
         /\ \A s \in S \cap Stores : failedAttempts'[s] = NoRecord /\ failed'[s] = NoFailures
         /\ \A s \in Stores \ S : failedAttempts'[s] = failedAttempts[s] /\ failed'[s] = failed[s]
  <1>1. NoFailures \in Failures
    BY DEF NoFailures, Failures
  <1>2. failed' = [s \in Stores |-> IF s \in S THEN NoFailures ELSE failed[s]]
        /\ failedAttempts' = Without(S)
    BY DEF Clear
  <1> QED
    BY <1>1, <1>2, WithoutIs, LoginsTyped

\* The record that counting leaves, when Redis was read as it still is.
LEMMA CountedIs ==
  ASSUME LoginsTypeOK, NEW h \in Handlers, NEW s \in Stores
  PROVE  /\ Counted(h, s) \in RecordType
         /\ Marked(s, failedAttempts[s]) /\ (s = Redis => call[h].seen = failedAttempts[s])
              => Recorded(s, failedAttempts[s], Counted(h, s), clock)
  <1>1. PICK r, e : r = failedAttempts[s] /\ e = call[h].seen
    OBVIOUS
  <1>2. /\ r \in RecordType /\ e \in RecordType /\ clock \in Time /\ clock \in Nat
        /\ MaxFailed \in Nat /\ MaxFailed > 1 /\ Lockout \in Nat
        /\ r.until \in Nat /\ r.count \in Nat
    BY <1>1, LoginsTyped, Limits, RecordFields
  <1>3. CASE s # Redis
    <2>1. PICK x : x = After(r, clock)
      OBVIOUS
    <2>2. Counted(h, s) = x
      BY <1>1, <1>3, <2>1 DEF Counted
    <2>3. /\ x \in RecordType /\ x.count = Count(r, clock) /\ x.last = clock
          /\ x.count >= MaxFailed => x.until = clock + Lockout
          /\ x.count < MaxFailed => x.until = 0 \/ x.until = r.until
          /\ x.count = 1 => x.until = 0
      BY <1>2, <2>1, AfterIs
    <2>4. x.count \in Nat /\ (x.count = 1 \/ x.count = r.count + 1)
      BY <1>2, <2>3, CountIs
    <2>5. ASSUME Marked(s, r), x.count < MaxFailed PROVE x.until = 0
      <3>1. x.count # 1 => r.count < MaxFailed
        BY <1>2, <2>4, <2>5
      <3> QED BY <1>3, <2>3, <2>5, <3>1 DEF Marked
    <2> QED BY <1>1, <1>3, <2>2, <2>3, <2>5 DEF Recorded
  <1>4. CASE s = Redis
    <2>1. PICK a : a = After(e, clock)
      OBVIOUS
    <2>2. PICK x : x = [a EXCEPT !.until = IF a.count >= MaxFailed THEN a.until ELSE r.until]
      OBVIOUS
    <2>3. Counted(h, s) = x
      BY <1>1, <1>4, <2>1, <2>2 DEF Counted
    <2>4. /\ a \in RecordType /\ a.count = Count(e, clock) /\ a.last = clock
          /\ a.count >= MaxFailed => a.until = clock + Lockout
      BY <1>2, <2>1, AfterIs
    <2>5. a.count \in Nat
      BY <2>4, RecordFields
    <2>6. /\ x \in RecordType /\ x.count = a.count /\ x.last = a.last
          /\ x.until = IF a.count >= MaxFailed THEN a.until ELSE r.until
      BY <1>2, <2>2, <2>4 DEF RecordType
    <2>7. a.count < MaxFailed => ~(a.count >= MaxFailed)
      BY <1>2, <2>5
    <2> QED BY <1>1, <1>4, <2>3, <2>4, <2>6, <2>7 DEF Recorded
  <1> QED BY <1>3, <1>4

\* The failure of call h is counted at the stores S, and for the one that let it in.
CountedBy(h, S) ==
    /\ call'[h] = NoLogin /\ Moves(h)
    /\ \A s \in Stores : failedAttempts'[s] = IF s \in S THEN Counted(h, s) ELSE failedAttempts[s]
    /\ \A s \in Stores : s # call[h].store \/ s \notin S => failed'[s] = failed[s]
    /\ call[h].store \in S =>
          /\ failed'[call[h].store][clock] = failed[call[h].store][clock] + 1
          /\ \A t \in Time \ {clock} : failed'[call[h].store][t] = failed[call[h].store][t]

LEMMA CountGives ==
  ASSUME LoginsTypeOK, NEW h \in Handlers, NEW S, CountAt(h, S),
         UNCHANGED <<serial, connected, clock, calls>>
  PROVE  CountedBy(h, S) /\ LoginsTypeOK'
  <1>1. PICK o : o = call[h].store
    OBVIOUS
  <1>2. o \in Stores /\ clock \in Time /\ failed \in [Stores -> Failures]
    BY <1>1, LoginsTyped
  <1>3. /\ failedAttempts' = [s \in Stores |-> IF s \in S THEN Counted(h, s) ELSE failedAttempts[s]]
        /\ failed' = IF o \in S THEN [failed EXCEPT ![o] = [failed[o] EXCEPT ![clock] = failed[o][clock] + 1]]
                     ELSE failed
        /\ GoOn(h, "idle")
    BY <1>1 DEF CountAt
  <1>4. PICK g : g = [failed[o] EXCEPT ![clock] = failed[o][clock] + 1]
    OBVIOUS
  <1>5. g \in Failures /\ g[clock] = failed[o][clock] + 1 /\ \A t \in Time \ {clock} : g[t] = failed[o][t]
    BY <1>2, <1>4 DEF Failures
  <1>6. /\ failed' \in [Stores -> Failures]
        /\ \A s \in Stores : s # o \/ s \notin S => failed'[s] = failed[s]
        /\ o \in S => failed'[o] = g
    BY <1>2, <1>3, <1>4, <1>5
  <1>7. failedAttempts' \in [Stores -> RecordType]
    BY <1>3, CountedIs, LoginsTyped
  <1>8. /\ \A f \in Handlers \ {h} : call'[f] = call[f]
        /\ call'[h] = NoLogin /\ call' \in [Handlers -> CallType]
    BY <1>3, LoginGoes
  <1>9. LoginsTypeOK'
    BY <1>6, <1>7, <1>8, LoginsTyped, TypedAgain DEF LoginsTypeOK
  <1>10. o \in S => /\ failed'[o][clock] = failed[o][clock] + 1
                    /\ \A t \in Time \ {clock} : failed'[o][t] = failed[o][t]
    BY <1>5, <1>6
  <1>11. \A s \in Stores : failedAttempts'[s] = IF s \in S THEN Counted(h, s) ELSE failedAttempts[s]
    BY <1>3
  <1> QED
    BY <1>1, <1>6, <1>8, <1>9, <1>10, <1>11 DEF CountedBy, Moves

LEMMA WrongGives ==
  ASSUME LoginsTypeOK, NEW h \in Handlers, Wrong(h)
  PROVE  /\ call[h].at = "compare" /\ CountedBy(h, {ProcessOf[h]})
         /\ LoginsTypeOK'
  BY CountGives DEF Wrong

LEMMA RecordGives ==
  ASSUME LoginsTypeOK, NEW h \in Handlers, RecordFailedAttempt(h)
  PROVE  /\ call[h].at = "record"
         /\ \E S \in SUBSET {Redis, ProcessOf[h]} : CountedBy(h, S)
         /\ LoginsTypeOK'
  <1>1. PICK S \in SUBSET {Redis, ProcessOf[h]} : CountAt(h, S)
    BY DEF RecordFailedAttempt
  <1> QED
    BY <1>1, CountGives DEF RecordFailedAttempt

\* Store s looks at a call that comes: it is not locked, and a lock that is over is
\* deleted, in memory at once.
LetInBy(h, s) ==
    /\ ~Locked(s) /\ call[h] = NoLogin /\ Moves(h)
    /\ serial => \A g \in Handlers : call[g] = NoLogin
    /\ call'[h].began = clock /\ call'[h].store = s
    /\ call'[h].at = IF s = Redis /\ LockOver(s) THEN "unlock" ELSE "compare"
    /\ failed' = failed
    /\ \A q \in Stores :
          failedAttempts'[q] = IF q = s /\ s # Redis /\ LockOver(s) THEN NoRecord ELSE failedAttempts[q]

LEMMA CheckGives ==
  ASSUME LoginsTypeOK, NEW h \in Handlers, CheckAccountLock(h)
  PROVE  (\E s \in {Redis, ProcessOf[h]} : LetInBy(h, s)) /\ LoginsTypeOK'
  <1>1. /\ call[h] = NoLogin /\ calls < MaxCalls /\ calls' = calls + 1
        /\ serial => \A g \in Handlers : call[g] = NoLogin
        /\ serial' = serial /\ connected' = connected /\ failed' = failed /\ clock' = clock
    BY DEF CheckAccountLock
  <1>2. PICK s \in Reach(ProcessOf[h]) :
          LET at == IF s = Redis /\ LockOver(s) THEN "unlock" ELSE "compare" IN
          /\ ~Locked(s)
          /\ failedAttempts' = Without({p \in {s} \ {Redis} : LockOver(p)})
          /\ call' = [call EXCEPT ![h] = [NoLogin EXCEPT !.at = at, !.began = clock, !.store = s]]
    BY DEF CheckAccountLock
  <1>3. s \in {Redis, ProcessOf[h]} /\ s \in Stores
    BY LoginsTyped DEF Reach
  <1>4. PICK c : c = [NoLogin EXCEPT !.at = IF s = Redis /\ LockOver(s) THEN "unlock" ELSE "compare",
                                     !.began = clock, !.store = s]
    OBVIOUS
  <1>5. /\ c \in CallType /\ c.began = clock /\ c.store = s
        /\ c.at = IF s = Redis /\ LockOver(s) THEN "unlock" ELSE "compare"
    <2>1. clock \in Nat
      BY LoginsTyped
    <2> QED BY <1>3, <1>4, <2>1, NoRecordIs DEF NoLogin, CallType
  <1>6. /\ call' \in [Handlers -> CallType] /\ call'[h] = c
        /\ \A g \in Handlers \ {h} : call'[g] = call[g]
    <2>1. call \in [Handlers -> CallType] /\ call' = [call EXCEPT ![h] = c]
      BY <1>2, <1>4, LoginsTyped
    <2> QED BY <1>5, <2>1
  <1>7. PICK D : D = {p \in {s} \ {Redis} : LockOver(p)}
    OBVIOUS
  <1>8. failedAttempts' = Without(D) /\ \A q \in Stores : q \in D <=> q = s /\ s # Redis /\ LockOver(s)
    BY <1>2, <1>7
  <1>9. /\ failedAttempts' \in [Stores -> RecordType]
        /\ \A q \in Stores :
          failedAttempts'[q] = IF q = s /\ s # Redis /\ LockOver(s) THEN NoRecord ELSE failedAttempts[q]
    BY <1>8, WithoutIs
  <1>10. calls' \in 0..MaxCalls
    BY <1>1, LoginsTyped, Limits
  <1>11. LoginsTypeOK'
    BY <1>1, <1>6, <1>9, <1>10, LoginsTyped, TypedAgain DEF LoginsTypeOK
  <1>12. LetInBy(h, s)
    BY <1>1, <1>2, <1>5, <1>6, <1>9 DEF LetInBy, Moves
  <1> QED
    BY <1>3, <1>11, <1>12

\* A lock that was over is deleted in Redis ...
UnlockedBy(h) ==
    /\ call[h].at = "unlock" /\ Moves(h) /\ failed' = failed
    /\ call'[h].at = "compare" /\ call'[h].began = call[h].began /\ call'[h].store = call[h].store
    /\ \A s \in Stores : failedAttempts'[s] = IF s = Redis THEN NoRecord ELSE failedAttempts[s]

LEMMA UnlockGives ==
  ASSUME LoginsTypeOK, NEW h \in Handlers, Unlock(h)
  PROVE  UnlockedBy(h) /\ LoginsTypeOK'
  <1>1. /\ call[h].at = "unlock" /\ failedAttempts' = Without({Redis}) /\ GoOn(h, "compare")
        /\ serial' = serial /\ connected' = connected /\ failed' = failed /\ clock' = clock
        /\ calls' = calls
    BY DEF Unlock
  <1>2. /\ failedAttempts' \in [Stores -> RecordType]
        /\ \A s \in Stores : failedAttempts'[s] = IF s = Redis THEN NoRecord ELSE failedAttempts[s]
    <2>1. \A s \in Stores : s \in {Redis} <=> s = Redis
      OBVIOUS
    <2> QED BY <1>1, <2>1, WithoutIs
  <1>3. /\ \A g \in Handlers \ {h} : call'[g] = call[g]
        /\ call'[h].at = "compare" /\ call'[h].began = call[h].began
        /\ call'[h].store = call[h].store /\ call' \in [Handlers -> CallType]
    BY <1>1, LoginGoes
  <1>4. LoginsTypeOK'
    BY <1>1, <1>2, <1>3, LoginsTyped, TypedAgain DEF LoginsTypeOK
  <1> QED
    BY <1>1, <1>2, <1>3, <1>4 DEF UnlockedBy, Moves

\* ... or, it seems, not, and the replica goes by its own record.
UnlockLost(h) ==
    LET p == ProcessOf[h] IN
    /\ call[h].at = "unlock" /\ Moves(h) /\ failed' = failed
    /\ IF Locked(p) THEN call'[h] = NoLogin
       ELSE call'[h].at = "compare" /\ call'[h].began = call[h].began /\ call'[h].store = p
    /\ failedAttempts'[Redis] \in {NoRecord, failedAttempts[Redis]}
    /\ \A s \in Processes :
          failedAttempts'[s] = IF s = p /\ LockOver(p) THEN NoRecord ELSE failedAttempts[s]

LEMMA UnlockFailsGives ==
  ASSUME LoginsTypeOK, NEW h \in Handlers, UnlockFails(h)
  PROVE  UnlockLost(h) /\ LoginsTypeOK'
  <1>1. PICK p \in Processes : p = ProcessOf[h]
    BY LoginsTyped
  <1>2. PICK taken \in SUBSET {Redis} :
          failedAttempts' = Without(taken \cup {s \in {p} : LockOver(s)})
    BY <1>1 DEF UnlockFails
  <1>3. /\ call[h].at = "unlock"
        /\ call' = [call EXCEPT ![h] = IF Locked(p) THEN NoLogin
                                       ELSE [call[h] EXCEPT !.at = "compare", !.store = p]]
        /\ serial' = serial /\ connected' = connected /\ failed' = failed /\ clock' = clock
        /\ calls' = calls
    BY <1>1 DEF UnlockFails
  <1>4. p \in Stores /\ p # Redis /\ Redis \in Stores /\ Processes \subseteq Stores
        /\ \A s \in Processes : s # Redis
    BY Limits DEF Stores
  <1>5. PICK D : D = taken \cup {s \in {p} : LockOver(s)}
    OBVIOUS
  <1>6. \A s \in Processes : s \in D <=> s = p /\ LockOver(p)
    BY <1>4, <1>5
  <1>7. /\ failedAttempts' \in [Stores -> RecordType]
        /\ failedAttempts'[Redis] \in {NoRecord, failedAttempts[Redis]}
        /\ \A s \in Processes :
              failedAttempts'[s] = IF s = p /\ LockOver(p) THEN NoRecord ELSE failedAttempts[s]
    <2>1. failedAttempts' = Without(D)
      BY <1>2, <1>5
    <2> QED BY <1>4, <1>6, <2>1, WithoutIs
  <1>8. PICK c : c = [call[h] EXCEPT !.at = "compare", !.store = p]
    OBVIOUS
  <1>9. c \in CallType /\ c.at = "compare" /\ c.began = call[h].began /\ c.store = p
    <2>1. call[h] \in CallType
      BY LoginsTyped
    <2> QED BY <1>4, <1>8, <2>1 DEF CallType
  <1>10. /\ \A g \in Handlers \ {h} : call'[g] = call[g]
         /\ call'[h] = IF Locked(p) THEN NoLogin ELSE c
         /\ call' \in [Handlers -> CallType]
    BY <1>3, <1>8, <1>9, IdleLogin, LoginsTyped
  <1>11. LoginsTypeOK'
    BY <1>3, <1>7, <1>10, LoginsTyped, TypedAgain DEF LoginsTypeOK
  <1> QED
    BY <1>1, <1>3, <1>7, <1>9, <1>10, <1>11 DEF UnlockLost, Moves

\* The record in Redis is read to count in.
ReadBy(h) ==
    /\ call[h].at = "compare" /\ Moves(h)
    /\ call'[h].at = "record" /\ call'[h].began = call[h].began /\ call'[h].store = call[h].store
    /\ call'[h].seen = failedAttempts[Redis]
    /\ failedAttempts' = failedAttempts /\ failed' = failed

LEMMA ReadGives ==
  ASSUME LoginsTypeOK, NEW h \in Handlers, ReadAttempts(h)
  PROVE  ReadBy(h) /\ LoginsTypeOK'
  <1>1. /\ call[h].at = "compare"
        /\ call' = [call EXCEPT ![h] = [call[h] EXCEPT !.at = "record", !.seen = failedAttempts[Redis]]]
        /\ serial' = serial /\ connected' = connected /\ failed' = failed /\ clock' = clock
        /\ failedAttempts' = failedAttempts /\ calls' = calls
    BY DEF ReadAttempts
  <1>2. PICK c : c = [call[h] EXCEPT !.at = "record", !.seen = failedAttempts[Redis]]
    OBVIOUS
  <1>3. /\ c \in CallType /\ c.at = "record" /\ c.began = call[h].began /\ c.store = call[h].store
        /\ c.seen = failedAttempts[Redis]
    <2>1. call[h] \in CallType /\ failedAttempts[Redis] \in RecordType
      BY LoginsTyped
    <2> QED BY <1>2, <2>1 DEF CallType
  <1>4. /\ \A g \in Handlers \ {h} : call'[g] = call[g]
        /\ call'[h] = c /\ call' \in [Handlers -> CallType]
    BY <1>1, <1>2, <1>3, LoginsTyped
  <1>5. LoginsTypeOK'
    BY <1>1, <1>4, LoginsTyped, TypedAgain DEF LoginsTypeOK
  <1> QED
    BY <1>1, <1>3, <1>4, <1>5 DEF ReadBy, Moves

\* Stores S forget what they counted.
Forgotten(S) ==
    /\ \A s \in S \cap Stores : failedAttempts'[s] = NoRecord /\ failed'[s] = NoFailures
    /\ \A s \in Stores \ S : failedAttempts'[s] = failedAttempts[s] /\ failed'[s] = failed[s]
    /\ serial' = serial /\ clock' = clock

LEMMA ClearGives ==
  ASSUME LoginsTypeOK, NEW h \in Handlers, ClearFailedAttempts(h)
  PROVE  /\ call[h].at = "compare" /\ call'[h] = NoLogin /\ Moves(h)
         /\ \E S : Forgotten(S)
         /\ LoginsTypeOK'
  <1>1. PICK S \in Deleted(ProcessOf[h]) : Clear(S)
    BY DEF ClearFailedAttempts
  <1>2. /\ call[h].at = "compare" /\ GoOn(h, "idle")
        /\ serial' = serial /\ connected' = connected /\ clock' = clock /\ calls' = calls
    BY DEF ClearFailedAttempts
  <1>3. /\ \A g \in Handlers \ {h} : call'[g] = call[g]
        /\ call'[h] = NoLogin /\ call' \in [Handlers -> CallType]
    BY <1>2, LoginGoes
  <1>4. LoginsTypeOK'
    BY <1>1, <1>2, <1>3, ClearIs, LoginsTyped, TypedAgain DEF LoginsTypeOK
  <1>5. Forgotten(S)
    BY <1>1, <1>2, ClearIs DEF Forgotten
  <1> QED
    BY <1>2, <1>3, <1>4, <1>5 DEF Moves

LEMMA RestartLoginGives ==
  ASSUME LoginsTypeOK, NEW p \in Processes, RestartReplica(p)
  PROVE  /\ \A h \in Handlers : call'[h] = IF ProcessOf[h] = p THEN NoLogin ELSE call[h]
         /\ Forgotten({p})
         /\ LoginsTypeOK'
  <1>1. /\ connected' \in {connected \cup {p}, connected \ {p}} /\ Clear({p})
        /\ call' = [h \in Handlers |-> IF ProcessOf[h] = p THEN NoLogin ELSE call[h]]
        /\ serial' = serial /\ clock' = clock /\ calls' = calls
    BY DEF RestartReplica
  <1>2. connected' \in SUBSET Processes
    BY <1>1 DEF LoginsTypeOK
  <1>3. call' \in [Handlers -> CallType]
    BY <1>1, IdleLogin, LoginsTyped
  <1>4. LoginsTypeOK'
    BY <1>1, <1>2, <1>3, ClearIs, LoginsTyped, TypedAgain
  <1>5. Forgotten({p})
    BY <1>1, ClearIs DEF Forgotten
  <1> QED
    BY <1>1, <1>4, <1>5

LEMMA TickGives ==
  ASSUME LoginsTypeOK, ClockTick
  PROVE  /\ clock' = clock + 1 /\ clock' \in Time
         /\ \A h \in Handlers : call[h] = NoLogin \/ call[h].began = clock
         /\ UNCHANGED <<serial, failedAttempts, failed, call>>
         /\ LoginsTypeOK'
  <1>1. /\ clock' = clock + 1 /\ clock < MaxTime
        /\ \A h \in Handlers : call[h] = NoLogin \/ call[h].began = clock
        /\ UNCHANGED <<serial, connected, failedAttempts, failed, call, calls>>
    BY DEF ClockTick
  <1>2. clock' \in Time
    BY <1>1, Limits, LoginsTyped
  <1>3. LoginsTypeOK'
    BY <1>1, <1>2, LoginsTyped, TypedAgain DEF LoginsTypeOK
  <1> QED
    BY <1>1, <1>2, <1>3

LEMMA AbortLoginGives ==
  ASSUME LoginsTypeOK, NEW h \in Handlers, AbortLogin(h)
  PROVE  /\ call[h] # NoLogin /\ call'[h] = NoLogin /\ Moves(h)
         /\ UNCHANGED <<failedAttempts, failed>>
         /\ LoginsTypeOK'
  <1>1. /\ call[h] # NoLogin /\ GoOn(h, "idle")
        /\ UNCHANGED <<serial, connected, failedAttempts, failed, clock, calls>>
    BY DEF AbortLogin
  <1>2. /\ \A g \in Handlers \ {h} : call'[g] = call[g]
        /\ call'[h] = NoLogin /\ call' \in [Handlers -> CallType]
    BY <1>1, LoginGoes
  <1>3. LoginsTypeOK'
    BY <1>1, <1>2, LoginsTyped, TypedAgain DEF LoginsTypeOK
  <1> QED
    BY <1>1, <1>2, <1>3 DEF Moves


LEMMA LoginsBegin ==
  ASSUME LoginsInit
  PROVE  LoginsInv
  <1>1. /\ clock = 1 /\ calls = 0
        /\ failedAttempts = [s \in Stores |-> NoRecord]
        /\ failed = [s \in Stores |-> NoFailures]
        /\ call = [h \in Handlers |-> NoLogin]
        /\ serial \in BOOLEAN /\ connected \in SUBSET Processes
    BY DEF LoginsInit
  <1>2. NoFailures \in Failures /\ 1 \in Time /\ 1 \in Nat /\ calls \in 0..MaxCalls
    BY <1>1, Limits DEF NoFailures, Failures
  <1>3. LoginsTypeOK
    BY <1>1, <1>2, NoRecordIs, IdleLogin DEF LoginsTypeOK, Failures, CallType
  <1>4. \A h \in Handlers : call[h] = NoLogin /\ call[h].at = "idle" /\ call[h].store = Redis
    BY <1>1, IdleLogin
  <1>5. Timed /\ OneLogin
    BY <1>4 DEF Timed, OneLogin
  <1>6. ASSUME NEW s \in Stores PROVE StoreAt(s)
    <2>1. failedAttempts[s] = NoRecord /\ failed[s] = NoFailures
      BY <1>1
    <2>2. \A t \in Time : NoFailures[t] = 0
      BY DEF NoFailures
    <2>3. KeptAt(s, NoRecord, NoFailures, 1, Cardinality(LetIn(s)), AtOnce(s))
      BY <1>2, <2>2, KeptQuiet
    <2>4. Begun(s) /\ Reads(s)
      BY <1>4 DEF Begun, Reads, LetIn
    <2> QED
      BY <1>1, <2>1, <2>3, <2>4 DEF StoreAt
  <1> QED
    BY <1>3, <1>5, <1>6 DEF LoginsInv, StoresTell

LEMMA LoginsStep ==
  ASSUME LoginsTypeOK, LoginsNext
  PROVE  LoginsTypeOK'
  <1>1. ASSUME NEW h \in Handlers, LoginStep(h) \/ AbortLogin(h) PROVE LoginsTypeOK'
    BY <1>1, CheckGives, UnlockGives, UnlockFailsGives, WrongGives, ReadGives, RecordGives,
       ClearGives, AbortLoginGives DEF LoginStep
  <1>2. ASSUME NEW p \in Processes, RestartReplica(p) PROVE LoginsTypeOK'
    BY <1>2, RestartLoginGives
  <1>3. ASSUME ClockTick PROVE LoginsTypeOK'
    BY <1>3, TickGives
  <1> QED
    BY <1>1, <1>2, <1>3 DEF LoginsNext

\* A handler's step begins a call only where no other is, and keeps its time and store.
MovesLogin(h) ==
    /\ Moves(h)
    /\ call[h] # NoLogin \/ (serial => \A g \in Handlers : call[g] = NoLogin)
    /\ \/ call'[h] = NoLogin
       \/ /\ call'[h].at \in {"unlock", "compare"} /\ call'[h].began = clock
          /\ call'[h].store \in {Redis, ProcessOf[h]}
          /\ call'[h].at = "unlock" => call'[h].store = Redis
       \/ /\ call[h].at # "idle" /\ call'[h].began = call[h].began
          /\ call'[h].at \in {"compare", "record"}
          /\ call'[h].store \in {call[h].store, ProcessOf[h]}

LEMMA LoginMoves ==
  ASSUME LoginsTypeOK, NEW h \in Handlers, LoginStep(h) \/ AbortLogin(h)
  PROVE  MovesLogin(h)
  <1>1. CASE CheckAccountLock(h)
    <2>1. PICK s \in {Redis, ProcessOf[h]} : LetInBy(h, s)
      BY <1>1, CheckGives
    <2>2. \/ call'[h].at = "unlock" /\ s = Redis
          \/ call'[h].at = "compare"
      BY <2>1 DEF LetInBy
    <2> QED BY <2>1, <2>2 DEF LetInBy, MovesLogin
  <1>2. CASE Unlock(h)
    BY <1>2, UnlockGives, IdleLogin DEF UnlockedBy, MovesLogin
  <1>3. CASE UnlockFails(h)
    BY <1>3, UnlockFailsGives, IdleLogin DEF UnlockLost, MovesLogin
  <1>4. CASE Wrong(h)
    BY <1>4, WrongGives, IdleLogin DEF CountedBy, MovesLogin
  <1>5. CASE ReadAttempts(h)
    BY <1>5, ReadGives, IdleLogin DEF ReadBy, MovesLogin
  <1>6. CASE RecordFailedAttempt(h)
    BY <1>6, RecordGives, IdleLogin DEF CountedBy, MovesLogin
  <1>7. CASE ClearFailedAttempts(h)
    BY <1>7, ClearGives, IdleLogin DEF MovesLogin
  <1>8. CASE AbortLogin(h)
    BY <1>8, AbortLoginGives DEF MovesLogin
  <1> QED
    BY <1>1, <1>2, <1>3, <1>4, <1>5, <1>6, <1>7, <1>8 DEF LoginStep

LEMMA TimedStep ==
  ASSUME LoginsTypeOK, Timed, LoginsNext
  PROVE  Timed'
  <1>1. ASSUME NEW h \in Handlers, LoginStep(h) \/ AbortLogin(h) PROVE Timed'
    <2>1. MovesLogin(h) /\ clock' = clock
      BY <1>1, LoginMoves DEF MovesLogin, Moves
    <2>2. clock \in Time /\ clock \in Nat
      BY LoginsTyped
    <2> SUFFICES ASSUME NEW g \in Handlers
                 PROVE  /\ call'[g].at = "idle" => call'[g] = NoLogin
                        /\ call'[g].at # "idle" =>
                              /\ call'[g].began \in Time
                              /\ call'[g].began <= clock /\ clock <= call'[g].began + 1
                        /\ call'[g].store \in {Redis, ProcessOf[g]}
                        /\ call'[g].at = "unlock" => call'[g].store = Redis
      BY <2>1 DEF Timed
    <2>3. CASE g # h
      BY <2>1, <2>3 DEF Timed, MovesLogin, Moves
    <2>4. CASE g = h
      BY <2>1, <2>2, <2>4, IdleLogin DEF Timed, MovesLogin
    <2> QED BY <2>3, <2>4
  <1>2. ASSUME NEW p \in Processes, RestartReplica(p) PROVE Timed'
    BY <1>2, RestartLoginGives, IdleLogin DEF Timed, Forgotten
  <1>3. ASSUME ClockTick PROVE Timed'
    <2>1. clock' = clock + 1 /\ call' = call
      BY <1>3, TickGives
    <2>2. \A h \in Handlers : call[h].at # "idle" => call[h].began = clock
      BY <1>3, TickGives, IdleLogin
    <2>3. clock \in Nat /\ \A t \in Time : t \in Nat
      BY LoginsTyped, Limits
    <2> QED
      BY <2>1, <2>2, <2>3 DEF Timed
  <1> QED
    BY <1>1, <1>2, <1>3 DEF LoginsNext

LEMMA OneLoginStep ==
  ASSUME LoginsTypeOK, OneLogin, LoginsNext
  PROVE  OneLogin'
  <1>1. ASSUME NEW h \in Handlers, LoginStep(h) \/ AbortLogin(h) PROVE OneLogin'
    BY <1>1, LoginMoves DEF OneLogin, MovesLogin, Moves
  <1>2. ASSUME NEW p \in Processes, RestartReplica(p) PROVE OneLogin'
    BY <1>2, RestartLoginGives DEF OneLogin, Forgotten
  <1>3. ASSUME ClockTick PROVE OneLogin'
    BY <1>3, TickGives DEF OneLogin
  <1> QED
    BY <1>1, <1>2, <1>3 DEF LoginsNext

\* While one call is served the others are idle.
LEMMA OthersIdle ==
  ASSUME OneLogin, serial, NEW h \in Handlers, MovesLogin(h)
  PROVE  \A g \in Handlers \ {h} : /\ call[g] = NoLogin /\ call'[g] = NoLogin
                                   /\ call[g].at = "idle" /\ call'[g].at = "idle"
  <1>1. \A g \in Handlers \ {h} : call[g] = NoLogin
    BY DEF OneLogin, MovesLogin
  <1> QED
    BY <1>1, IdleLogin DEF MovesLogin, Moves

LEMMA LetInIs ==
  ASSUME Timed, OneLogin, NEW s \in Stores, Counting(s)
  PROVE  /\ IsFiniteSet(LetIn(s)) /\ Cardinality(LetIn(s)) \in Nat /\ AtOnce(s) \in Nat
         /\ Cardinality(LetIn(s)) <= AtOnce(s)
  <1> DEFINE Served == {h \in Handlers : ProcessOf[h] = s}
  <1>1. IsFiniteSet(Served) /\ IsFiniteSet(LetIn(s))
    BY Limits, FS_Subset DEF LetIn
  <1>2. Cardinality(Served) \in Nat /\ Cardinality(LetIn(s)) \in Nat
    BY <1>1, FS_CardinalityType
  <1>3. CASE serial
    <2>1. \A g, h \in LetIn(s) : g = h
      BY <1>3, IdleLogin DEF LetIn, OneLogin
    <2>2. Cardinality(LetIn(s)) <= 1
      <3>1. CASE LetIn(s) = {}
        <4>1. Cardinality(LetIn(s)) = 0
          BY <3>1, FS_EmptySet, Zenon
        <4> QED BY <4>1
      <3>2. CASE LetIn(s) # {}
        <4>1. PICK h : LetIn(s) = {h}
          BY <2>1, <3>2
        <4>2. Cardinality(LetIn(s)) = 1
          BY <4>1, FS_Singleton, Zenon
        <4> QED BY <4>2
      <3> QED BY <3>1, <3>2
    <2> QED BY <1>1, <1>2, <1>3, <2>2 DEF AtOnce
  <1>4. CASE ~serial
    <2>1. LetIn(s) \subseteq Served
      BY <1>4 DEF LetIn, Timed, Counting
    <2>2. Cardinality(LetIn(s)) <= Cardinality(Served)
      BY <1>1, <2>1, FS_Subset
    <2>3. AtOnce(s) = Cardinality(Served)
      BY <1>4 DEF AtOnce
    <2> HIDE DEF Served
    <2> QED BY <1>1, <1>2, <2>2, <2>3
  <1> QED BY <1>3, <1>4

\* Nothing is counted at a store, and no call let in.
LEMMA StoreFrame ==
  ASSUME LoginsTypeOK, Timed, OneLogin, NEW s \in Stores, Counting(s), StoreAt(s),
         failedAttempts'[s] = failedAttempts[s], failed'[s] = failed[s],
         clock' \in Nat, clock <= clock', serial' = serial,
         \A h \in LetIn(s)' : h \in LetIn(s) /\ call'[h].began = call[h].began,
         s = Redis => \A h \in Handlers : call'[h].at \in {"record", "unlock"} => call'[h] = call[h]
  PROVE  StoreAt(s)'
  <1>1. PICK r, f, B, C : r = failedAttempts[s] /\ f = failed[s] /\ B = LetIn(s) /\ C = LetIn(s)'
    OBVIOUS
  <1>2. /\ r \in RecordType /\ f \in Failures /\ clock \in Nat /\ r.until \in Nat
        /\ IsFiniteSet(B) /\ Cardinality(B) \in Nat /\ AtOnce(s) \in Nat
    BY <1>1, LoginsTyped, RecordFields, LetInIs
  <1>3. C \in SUBSET B
    BY <1>1
  <1>4. Cardinality(C) \in Nat /\ Cardinality(C) <= Cardinality(B)
    BY <1>2, <1>3, FS_Subset, FS_CardinalityType
  <1>5. KeptAt(s, r, f, clock, Cardinality(B), AtOnce(s))
    BY <1>1 DEF StoreAt
  <1>6. KeptAt(s, r, f, clock', Cardinality(C), AtOnce(s))
    BY <1>2, <1>4, <1>5, KeptLater
  <1>7. AtOnce(s)' = AtOnce(s)
    BY DEF AtOnce
  <1>8. Begun(s)'
    BY <1>1, <1>3 DEF StoreAt, Begun
  <1>9. Reads(s)'
    BY <1>1, <1>2 DEF StoreAt, Reads
  <1> QED
    BY <1>1, <1>6, <1>7, <1>8, <1>9 DEF StoreAt

\* A store has forgotten what it counted, and had nothing to remember.
LEMMA StoreEmpty ==
  ASSUME NEW s \in Stores, failedAttempts'[s] = NoRecord, failed'[s] \in Failures,
         clock' \in Nat, \A t \in Time : t + Window >= clock' => failed'[s][t] = 0,
         s = Redis => \A h \in Handlers : call'[h].at \notin {"record", "unlock"}
  PROVE  StoreAt(s)'
  <1>1. KeptAt(s, NoRecord, failed'[s], clock', Cardinality(LetIn(s)'), AtOnce(s)')
    BY KeptQuiet
  <1>2. Begun(s)' /\ Reads(s)'
    BY NoRecordIs DEF Begun, Reads
  <1> QED
    BY <1>1, <1>2 DEF StoreAt

\* A lock that is over may be deleted.
LEMMA StoreOver ==
  ASSUME LoginsTypeOK, NEW s \in Stores, StoreAt(s),
         failedAttempts[s].until # 0, failedAttempts[s].until <= clock,
         failedAttempts'[s] = NoRecord, failed'[s] = failed[s], clock' = clock,
         s = Redis => \A h \in Handlers : call'[h].at \notin {"record", "unlock"}
  PROVE  StoreAt(s)'
  <1>1. PICK r, f : r = failedAttempts[s] /\ f = failed[s] /\ r \in RecordType /\ f \in Failures
    BY LoginsTyped
  <1>2. Past(f, r) /\ clock \in Nat
    BY <1>1, LoginsTyped DEF StoreAt, KeptAt
  <1>3. KeptAt(s, NoRecord, f, clock, Cardinality(LetIn(s)'), AtOnce(s)')
    BY <1>1, <1>2, KeptOver
  <1>4. Begun(s)' /\ Reads(s)'
    BY NoRecordIs DEF Begun, Reads
  <1> QED
    BY <1>1, <1>3, <1>4 DEF StoreAt

\* A store without a lock lets calls in.
LEMMA StoreOpen ==
  ASSUME LoginsTypeOK, NEW s \in Stores, StoreAt(s), failedAttempts[s].until = 0,
         failedAttempts'[s] = failedAttempts[s], failed'[s] = failed[s], clock' = clock,
         s = Redis => \A h \in Handlers : call'[h].at \notin {"record", "unlock"}
  PROVE  StoreAt(s)'
  <1>1. PICK r, f : r = failedAttempts[s] /\ f = failed[s] /\ r \in RecordType /\ f \in Failures
    BY LoginsTyped
  <1>2. r.count < MaxFailed
    <2>1. r.count >= MaxFailed => r.until = r.last + Lockout
      BY <1>1 DEF StoreAt, KeptAt, Marked
    <2>2. r.count \in Nat /\ r.last \in Nat
      BY <1>1, RecordFields
    <2> QED BY <1>1, <2>1, <2>2, Limits
  <1>3. KeptAt(s, r, f, clock, Cardinality(LetIn(s)), AtOnce(s))
    BY <1>1 DEF StoreAt
  <1>4. KeptAt(s, r, f, clock, Cardinality(LetIn(s)'), AtOnce(s)')
    BY <1>2, <1>3, KeptFree
  <1>5. Begun(s)' /\ Reads(s)'
    BY DEF Begun, Reads
  <1> QED
    BY <1>1, <1>4, <1>5 DEF StoreAt


\* A failure is counted at a store.
LEMMA StoreCounted ==
  ASSUME LoginsTypeOK, LoginsTypeOK', Timed, OneLogin, NEW h \in Handlers, MovesLogin(h),
         NEW s \in Stores, Counting(s), StoreAt(s),
         NEW S, s \in S, CountedBy(h, S), call[h].at \in {"compare", "record"},
         s = Redis => call[h].at = "record"
  PROVE  StoreAt(s)'
  <1>1. PICK r, f, B, C : r = failedAttempts[s] /\ f = failed[s] /\ B = LetIn(s) /\ C = LetIn(s)'
    OBVIOUS
  <1>2. PICK d : d = IF call[h].store = s THEN 1 ELSE 0
    OBVIOUS
  <1>3. PICK x, g : x = failedAttempts'[s] /\ g = failed'[s]
    OBVIOUS
  <1>4. /\ r \in RecordType /\ f \in Failures /\ clock \in Time /\ clock \in Nat
        /\ IsFiniteSet(B) /\ Cardinality(B) \in Nat /\ AtOnce(s) \in Nat
        /\ Cardinality(B) <= AtOnce(s)
    BY <1>1, LoginsTyped, LetInIs
  <1>5. /\ KeptAt(s, r, f, clock, Cardinality(B), AtOnce(s)) /\ Begun(s) /\ Reads(s)
        /\ Marked(s, r)
    BY <1>1 DEF StoreAt, KeptAt
  <1>6. C = B \ {h} /\ (h \in B <=> d = 1)
    <2>1. \A k \in Handlers \ {h} : call'[k] = call[k]
      BY DEF CountedBy, Moves
    <2>2. call'[h].at = "idle"
      BY IdleLogin DEF CountedBy
    <2> QED BY <1>1, <1>2, <2>1, <2>2 DEF LetIn
  <1>7. Cardinality(C) = Cardinality(B) - d /\ d \in {0, 1} /\ d <= Cardinality(B)
    <2>1. CASE d = 1
      <3>1. Cardinality(C) = Cardinality(B) - 1
        BY <1>4, <1>6, <2>1, FS_RemoveElement
      <3>2. Cardinality(B) # 0
        BY <1>4, <1>6, <2>1, FS_EmptySet
      <3> QED BY <1>4, <2>1, <3>1, <3>2
    <2>2. CASE d = 0
      <3>1. C = B
        BY <1>6, <2>2
      <3> QED BY <1>4, <2>2, <3>1
    <2> QED BY <1>2, <2>1, <2>2
  <1>8. Recorded(s, r, x, clock)
    <2>1. s = Redis => call[h].seen = r
      BY <1>1, <1>5 DEF Reads
    <2>2. x = Counted(h, s)
      BY <1>3 DEF CountedBy
    <2> QED BY <1>1, <1>5, <2>1, <2>2, CountedIs
  <1>9. d = 1 /\ s = Redis => r.until = 0
    BY <1>1, <1>5, <1>6 DEF Begun
  <1>10. /\ g \in Failures /\ g[clock] = f[clock] + d
         /\ \A t \in Time \ {clock} : g[t] = f[t]
    <2>1. g \in Failures
      BY <1>3 DEF LoginsTypeOK, Failures
    <2>2. CASE d = 1
      <3>1. call[h].store = s
        BY <1>2, <2>2
      <3> QED BY <1>1, <1>3, <2>1, <2>2, <3>1 DEF CountedBy
    <2>3. CASE d = 0
      <3>1. g = f
        BY <1>1, <1>2, <1>3, <2>3 DEF CountedBy
      <3>2. f[clock] \in Nat
        BY <1>4 DEF Failures
      <3> QED BY <2>1, <2>3, <3>1, <3>2
    <2> QED BY <1>7, <2>2, <2>3
  <1>11. KeptAt(s, x, g, clock, Cardinality(C), AtOnce(s))
    <2>1. PICK n, m : n = Cardinality(B) /\ m = AtOnce(s)
      OBVIOUS
    <2>2. n \in Nat /\ m \in Nat /\ n <= m /\ d <= n /\ KeptAt(s, r, f, clock, n, m)
      BY <1>4, <1>5, <1>7, <2>1
    <2>3. KeptAt(s, x, g, clock, n - d, m)
      BY <1>4, <1>7, <1>8, <1>9, <1>10, <2>2, KeptCounted
    <2> QED BY <1>7, <2>1, <2>3
  <1>12. AtOnce(s)' = AtOnce(s) /\ clock' = clock
    BY DEF AtOnce, CountedBy, Moves
  <1>13. s = Redis => \A k \in Handlers : call'[k].at = "idle"
    <2> SUFFICES ASSUME s = Redis PROVE \A k \in Handlers : call'[k].at = "idle"
      OBVIOUS
    <2>1. serial
      BY DEF Counting
    <2>2. call'[h].at = "idle"
      BY IdleLogin DEF CountedBy
    <2> QED BY <2>1, <2>2, OthersIdle
  <1>14. Begun(s)'
    <2> SUFFICES ASSUME NEW k \in C PROVE s # Redis /\ call'[k].began <= x.last
      BY <1>1, <1>3 DEF Begun
    <2>1. k \in Handlers \ {h} /\ k \in B /\ call'[k].at # "idle"
      BY <1>1, <1>6 DEF LetIn
    <2>2. call'[k] = call[k] /\ call[k].at # "idle"
      BY <1>1, <2>1 DEF CountedBy, Moves, LetIn
    <2>3. call[k].began <= clock /\ x.last = clock
      BY <1>8, <2>1, <2>2 DEF Timed, Recorded
    <2> QED BY <1>13, <2>1, <2>2, <2>3
  <1>15. Reads(s)'
    BY <1>13 DEF Reads
  <1> QED
    BY <1>1, <1>3, <1>11, <1>12, <1>14, <1>15 DEF StoreAt

\* A call is let in at store q.
LEMMA StoreLetIn ==
  ASSUME LoginsTypeOK, Timed, OneLogin, NEW h \in Handlers, MovesLogin(h),
         NEW s \in Stores, Counting(s), StoreAt(s),
         NEW q \in {Redis, ProcessOf[h]}, LetInBy(h, q)
  PROVE  StoreAt(s)'
  <1>1. PICK r : r = failedAttempts[s] /\ r \in RecordType /\ r.until \in Nat /\ clock \in Nat
    BY LoginsTyped, RecordFields
  <1>2. /\ \A g \in Handlers \ {h} : call'[g] = call[g]
        /\ serial' = serial /\ clock' = clock /\ failed'[s] = failed[s]
        /\ call'[h].at \in {"unlock", "compare"} /\ call'[h].store = q
        /\ call'[h].at = "unlock" => q = Redis
    BY DEF LetInBy, Moves
  <1>3. CASE s # q
    <2>1. failedAttempts'[s] = failedAttempts[s]
      BY <1>3 DEF LetInBy
    <2>2. \A g \in LetIn(s)' : g \in LetIn(s) /\ call'[g].began = call[g].began
      BY <1>2, <1>3 DEF LetIn
    <2>3. s = Redis => \A g \in Handlers : call'[g].at \in {"record", "unlock"} => call'[g] = call[g]
      BY <1>2, <1>3
    <2> QED BY <1>1, <1>2, <2>1, <2>2, <2>3, StoreFrame
  <1>4. CASE s = q /\ LockOver(s) /\ s # Redis
    <2>1. failedAttempts'[s] = NoRecord
      BY <1>4 DEF LetInBy
    <2>2. r.until # 0 /\ r.until <= clock
      BY <1>1, <1>4 DEF LockOver, Locked
    <2> QED BY <1>1, <1>2, <1>4, <2>1, <2>2, StoreOver
  <1>5. CASE s = q /\ ~LockOver(s)
    <2>1. r.until = 0
      BY <1>1, <1>5 DEF LetInBy, LockOver
    <2>2. failedAttempts'[s] = failedAttempts[s]
      BY <1>5 DEF LetInBy
    <2>3. s = Redis => \A g \in Handlers : call'[g].at \notin {"record", "unlock"}
      <3> SUFFICES ASSUME s = Redis PROVE \A g \in Handlers : call'[g].at \notin {"record", "unlock"}
        OBVIOUS
      <3>1. serial /\ call'[h].at = "compare"
        BY <1>5 DEF Counting, LetInBy
      <3> QED BY <3>1, OthersIdle
    <2> QED BY <1>1, <1>2, <2>1, <2>2, <2>3, StoreOpen
  <1>6. CASE s = q /\ LockOver(s) /\ s = Redis
    <2>1. failedAttempts'[s] = r /\ call'[h].at = "unlock"
      BY <1>1, <1>6 DEF LetInBy
    <2>2. r.until # 0 /\ r.until <= clock
      BY <1>1, <1>6 DEF LockOver, Locked
    <2>3. \A g \in Handlers \ {h} : call'[g].at = "idle"
      BY <1>6, OthersIdle DEF Counting
    <2>4. LetIn(s)' = {} /\ Reads(s)'
      BY <1>2, <2>1, <2>2, <2>3 DEF LetIn, Reads
    <2>5. Begun(s)'
      BY <2>4 DEF Begun
    <2>6. KeptAt(s, r, failed[s], clock, Cardinality({}), AtOnce(s))
      <3>1. IsFiniteSet(LetIn(s)) /\ Cardinality(LetIn(s)) \in Nat /\ AtOnce(s) \in Nat
        BY LetInIs
      <3>2. Cardinality({}) = 0
        BY FS_EmptySet
      <3>3. KeptAt(s, r, failed[s], clock, Cardinality(LetIn(s)), AtOnce(s))
        BY <1>1 DEF StoreAt
      <3>4. failed[s] \in Failures
        BY LoginsTyped
      <3>5. PICK n, k, m : n = Cardinality(LetIn(s)) /\ k = Cardinality({}) /\ m = AtOnce(s)
        OBVIOUS
      <3>6. n \in Nat /\ k \in Nat /\ m \in Nat /\ k <= n /\ clock <= clock
            /\ KeptAt(s, r, failed[s], clock, n, m)
        BY <1>1, <3>1, <3>2, <3>3, <3>5
      <3>7. KeptAt(s, r, failed[s], clock, k, m)
        BY <1>1, <3>4, <3>6, KeptLater
      <3> QED BY <3>5, <3>7
    <2>7. AtOnce(s)' = AtOnce(s)
      BY <1>2 DEF AtOnce
    <2> QED BY <1>2, <2>1, <2>4, <2>5, <2>6, <2>7 DEF StoreAt
  <1> QED BY <1>3, <1>4, <1>5, <1>6

\* A deletion is made in Redis, or fails.
LEMMA StoreUnlock ==
  ASSUME LoginsTypeOK, Timed, OneLogin, NEW h \in Handlers, MovesLogin(h),
         NEW s \in Stores, Counting(s), StoreAt(s), UnlockedBy(h) \/ UnlockLost(h)
  PROVE  StoreAt(s)'
  <1>1. PICK r : r = failedAttempts[s] /\ r \in RecordType /\ r.until \in Nat /\ clock \in Nat
    BY LoginsTyped, RecordFields
  <1>2. PICK p \in Processes : p = ProcessOf[h]
    BY LoginsTyped
  <1>3. /\ call[h].at = "unlock" /\ call[h].store = Redis
        /\ \A g \in Handlers \ {h} : call'[g] = call[g]
        /\ serial' = serial /\ clock' = clock /\ failed'[s] = failed[s]
        /\ call'[h].at \in {"idle", "compare"}
    BY IdleLogin DEF UnlockedBy, UnlockLost, Moves, Timed
  <1>4. CASE s = Redis
    <2>1. \A g \in Handlers : call'[g].at \notin {"record", "unlock"}
      BY <1>3, <1>4, OthersIdle DEF Counting
    <2>2. r.until # 0 /\ r.until <= clock
      BY <1>1, <1>3, <1>4 DEF StoreAt, Reads
    <2>3. failedAttempts'[s] = NoRecord \/ (failedAttempts'[s] = r /\ UnlockLost(h))
      BY <1>1, <1>4 DEF UnlockedBy, UnlockLost
    <2>4. CASE failedAttempts'[s] = NoRecord
      BY <1>1, <1>3, <2>1, <2>2, <2>4, StoreOver
    <2>5. CASE failedAttempts'[s] = r /\ UnlockLost(h)
      <3>1. call'[h].at = "compare" => call'[h].store = p /\ p # Redis
        BY <1>2, <2>5, Limits, IdleLogin DEF UnlockLost
      <3>2. LetIn(s)' = {}
        BY <1>3, <1>4, <3>1, OthersIdle DEF LetIn, Counting
      <3> QED BY <1>1, <1>3, <2>1, <2>5, <3>2, StoreFrame
    <2> QED BY <2>3, <2>4, <2>5
  <1>5. CASE s # Redis /\ (UnlockedBy(h) \/ s # p)
    <2>1. failedAttempts'[s] = failedAttempts[s] /\ (h \in LetIn(s)' => FALSE)
      <3>1. CASE UnlockedBy(h)
        BY <1>3, <1>5, <3>1 DEF UnlockedBy, LetIn
      <3>2. CASE UnlockLost(h) /\ s # p
        <4>1. s \in Processes
          BY <1>5 DEF Stores
        <4> QED BY <1>2, <1>5, <3>2, <4>1, IdleLogin DEF UnlockLost, LetIn
      <3> QED BY <1>5, <3>1, <3>2
    <2>2. \A g \in LetIn(s)' : g \in LetIn(s) /\ call'[g].began = call[g].began
      BY <1>3, <2>1 DEF LetIn
    <2> QED BY <1>1, <1>3, <1>5, <2>1, <2>2, StoreFrame
  <1>6. CASE s # Redis /\ s = p /\ UnlockLost(h)
    <2>1. CASE LockOver(s)
      <3>1. failedAttempts'[s] = NoRecord /\ r.until # 0 /\ r.until <= clock
        BY <1>1, <1>2, <1>6, <2>1 DEF UnlockLost, LockOver, Locked
      <3> QED BY <1>1, <1>3, <1>6, <3>1, StoreOver
    <2>2. CASE ~LockOver(s) /\ ~Locked(s)
      <3>1. failedAttempts'[s] = failedAttempts[s] /\ r.until = 0
        BY <1>1, <1>2, <1>6, <2>2 DEF UnlockLost, LockOver
      <3> QED BY <1>1, <1>3, <1>6, <3>1, StoreOpen
    <2>3. CASE Locked(s)
      <3>1. ~LockOver(s) /\ call'[h] = NoLogin
        BY <1>2, <1>6, <2>3 DEF UnlockLost, LockOver
      <3>2. failedAttempts'[s] = failedAttempts[s]
        BY <1>2, <1>6, <3>1 DEF UnlockLost
      <3>3. \A g \in LetIn(s)' : g \in LetIn(s) /\ call'[g].began = call[g].began
        BY <1>3, <3>1, IdleLogin DEF LetIn
      <3> QED BY <1>1, <1>3, <1>6, <3>2, <3>3, StoreFrame
    <2> QED BY <2>1, <2>2, <2>3
  <1> QED BY <1>2, <1>4, <1>5, <1>6

\* A store is cleared, and the calls still there go on.
LEMMA StoreForgets ==
  ASSUME LoginsTypeOK, LoginsTypeOK', Timed, OneLogin,
         NEW s \in Stores, Counting(s), StoreAt(s), NEW S, Forgotten(S),
         \A h \in Handlers : call'[h] = call[h] \/ call'[h] = NoLogin,
         s = Redis => s \notin S \/ \A h \in Handlers : call'[h] = NoLogin
  PROVE  StoreAt(s)'
  <1>1. clock \in Nat /\ clock' = clock /\ serial' = serial
    BY LoginsTyped DEF Forgotten
  <1>2. CASE s \in S
    <2>1. failedAttempts'[s] = NoRecord /\ failed'[s] = NoFailures
      BY <1>2 DEF Forgotten
    <2>2. NoFailures \in Failures /\ \A t \in Time : NoFailures[t] = 0
      BY DEF NoFailures, Failures
    <2>3. s = Redis => \A h \in Handlers : call'[h].at \notin {"record", "unlock"}
      BY <1>2, IdleLogin
    <2> QED BY <1>1, <2>1, <2>2, <2>3, StoreEmpty
  <1>3. CASE s \notin S
    <2>1. failedAttempts'[s] = failedAttempts[s] /\ failed'[s] = failed[s]
      BY <1>3 DEF Forgotten
    <2>2. \A h \in LetIn(s)' : h \in LetIn(s) /\ call'[h].began = call[h].began
      BY IdleLogin DEF LetIn
    <2>3. s = Redis => \A h \in Handlers : call'[h].at \in {"record", "unlock"} => call'[h] = call[h]
      BY IdleLogin
    <2> QED BY <1>1, <2>1, <2>2, <2>3, StoreFrame
  <1> QED BY <1>2, <1>3


LEMMA StoreServe ==
  ASSUME LoginsTypeOK, LoginsTypeOK', Timed, OneLogin, NEW h \in Handlers,
         LoginStep(h) \/ AbortLogin(h), NEW s \in Stores, Counting(s), StoreAt(s)
  PROVE  StoreAt(s)'
  <1>1. MovesLogin(h)
    BY LoginMoves
  <1>2. /\ \A g \in Handlers \ {h} : call'[g] = call[g]
        /\ serial' = serial /\ clock' = clock /\ clock \in Nat
    BY <1>1, LoginsTyped DEF MovesLogin, Moves
  <1>3. ASSUME call'[h] = NoLogin, failedAttempts'[s] = failedAttempts[s], failed'[s] = failed[s]
        PROVE  StoreAt(s)'
    <2>1. \A g \in LetIn(s)' : g \in LetIn(s) /\ call'[g].began = call[g].began
      BY <1>2, <1>3, IdleLogin DEF LetIn
    <2>2. s = Redis => \A g \in Handlers : call'[g].at \in {"record", "unlock"} => call'[g] = call[g]
      BY <1>2, <1>3, IdleLogin
    <2> QED BY <1>2, <1>3, <2>1, <2>2, StoreFrame
  <1>4. CASE CheckAccountLock(h)
    <2>1. PICK q \in {Redis, ProcessOf[h]} : LetInBy(h, q)
      BY <1>4, CheckGives
    <2> QED BY <1>1, <2>1, StoreLetIn
  <1>5. CASE Unlock(h) \/ UnlockFails(h)
    BY <1>1, <1>5, UnlockGives, UnlockFailsGives, StoreUnlock
  <1>6. CASE Wrong(h)
    <2>1. call[h].at = "compare" /\ CountedBy(h, {ProcessOf[h]})
      BY <1>6, WrongGives
    <2>2. CASE s = ProcessOf[h]
      <3>1. s # Redis
        BY <2>2, Limits
      <3> QED BY <1>1, <2>1, <2>2, <3>1, StoreCounted
    <2>3. CASE s # ProcessOf[h]
      <3>1. call'[h] = NoLogin /\ failedAttempts'[s] = failedAttempts[s] /\ failed'[s] = failed[s]
        BY <2>1, <2>3 DEF CountedBy
      <3> QED BY <1>3, <3>1
    <2> QED BY <2>2, <2>3
  <1>7. CASE ReadAttempts(h)
    <2>1. ReadBy(h)
      BY <1>7, ReadGives
    <2>2. CASE s # Redis
      <3>1. \A g \in LetIn(s)' : g \in LetIn(s) /\ call'[g].began = call[g].began
        BY <1>2, <2>1 DEF LetIn, ReadBy
      <3> QED BY <1>2, <2>1, <2>2, <3>1, StoreFrame DEF ReadBy
    <2>3. CASE s = Redis
      <3>1. \A g \in Handlers \ {h} : call'[g].at = "idle"
        BY <1>1, <2>3, OthersIdle DEF Counting
      <3>2. Reads(s)'
        BY <2>1, <2>3, <3>1 DEF Reads, ReadBy
      <3>3. LetIn(s)' = LetIn(s) /\ \A g \in LetIn(s) : call'[g].began = call[g].began
        BY <1>2, <2>1 DEF LetIn, ReadBy
      <3>4. Begun(s)'
        BY <2>1, <3>3 DEF StoreAt, Begun, ReadBy
      <3>5. AtOnce(s)' = AtOnce(s)
        BY <1>2 DEF AtOnce
      <3> QED BY <1>2, <2>1, <3>2, <3>3, <3>4, <3>5 DEF StoreAt, ReadBy
    <2> QED BY <2>2, <2>3
  <1>8. CASE RecordFailedAttempt(h)
    <2>1. PICK S \in SUBSET {Redis, ProcessOf[h]} : CountedBy(h, S)
      BY <1>8, RecordGives
    <2>2. call[h].at = "record"
      BY <1>8, RecordGives
    <2>3. CASE s \in S
      BY <1>1, <2>1, <2>2, <2>3, StoreCounted
    <2>4. CASE s \notin S
      <3>1. call'[h] = NoLogin /\ failedAttempts'[s] = failedAttempts[s] /\ failed'[s] = failed[s]
        BY <2>1, <2>4 DEF CountedBy
      <3> QED BY <1>3, <3>1
    <2> QED BY <2>3, <2>4
  <1>9. CASE ClearFailedAttempts(h)
    <2>1. PICK S : Forgotten(S)
      BY <1>9, ClearGives
    <2>2. call'[h] = NoLogin
      BY <1>9, ClearGives
    <2>3. s = Redis => \A g \in Handlers : call'[g] = NoLogin
      BY <1>1, <2>2, OthersIdle DEF Counting
    <2> QED BY <1>2, <2>1, <2>2, <2>3, StoreForgets
  <1>10. CASE AbortLogin(h)
    BY <1>3, <1>10, AbortLoginGives
  <1> QED
    BY <1>4, <1>5, <1>6, <1>7, <1>8, <1>9, <1>10 DEF LoginStep

LEMMA StoresTellStep ==
  ASSUME LoginsInv, LoginsNext
  PROVE  StoresTell'
  <1>1. LoginsTypeOK /\ LoginsTypeOK' /\ Timed /\ OneLogin
    BY LoginsStep DEF LoginsInv
  <1>2. serial' = serial /\ clock' \in Nat /\ clock \in Nat
    <2>1. ASSUME NEW h \in Handlers, LoginStep(h) \/ AbortLogin(h) PROVE serial' = serial
      BY <1>1, <2>1, LoginMoves DEF MovesLogin, Moves
    <2>2. serial' = serial
      BY <1>1, <2>1, RestartLoginGives, TickGives DEF LoginsNext, Forgotten
    <2> QED BY <1>1, <2>2, Limits DEF LoginsTypeOK
  <1> SUFFICES ASSUME NEW s \in Stores, Counting(s) PROVE StoreAt(s)'
    BY <1>2 DEF StoresTell, Counting
  <1>3. StoreAt(s)
    BY DEF LoginsInv, StoresTell
  <1>4. ASSUME NEW h \in Handlers, LoginStep(h) \/ AbortLogin(h) PROVE StoreAt(s)'
    BY <1>1, <1>3, <1>4, StoreServe
  <1>5. ASSUME NEW p \in Processes, RestartReplica(p) PROVE StoreAt(s)'
    <2>1. /\ Forgotten({p}) /\ p # Redis
          /\ \A h \in Handlers : call'[h] = call[h] \/ call'[h] = NoLogin
      BY <1>1, <1>5, RestartLoginGives, Limits
    <2> QED BY <1>1, <1>3, <2>1, StoreForgets
  <1>6. ASSUME ClockTick PROVE StoreAt(s)'
    <2>1. clock' = clock + 1 /\ UNCHANGED <<serial, failedAttempts, failed, call>>
      BY <1>1, <1>6, TickGives
    <2>2. clock <= clock' /\ \A h \in LetIn(s)' : h \in LetIn(s) /\ call'[h].began = call[h].began
      BY <1>2, <2>1 DEF LetIn
    <2> QED BY <1>1, <1>2, <1>3, <2>1, <2>2, StoreFrame
  <1> QED
    BY <1>4, <1>5, <1>6 DEF LoginsNext

LEMMA LoginsIdle ==
  ASSUME LoginsInv, UNCHANGED loginVars
  PROVE  LoginsInv'
  <1>1. UNCHANGED <<serial, connected, failedAttempts, failed, clock, call, calls>>
    BY DEF loginVars
  <1>2. LoginsTypeOK' /\ Timed' /\ OneLogin'
    BY <1>1 DEF LoginsInv, LoginsTypeOK, Timed, OneLogin
  <1>3. ASSUME NEW s \in Stores, Counting(s)' PROVE StoreAt(s)'
    <2>1. Counting(s) /\ StoreAt(s) /\ clock \in Nat
      BY <1>1, <1>3, LoginsTyped DEF LoginsInv, StoresTell, Counting
    <2>2. \A h \in LetIn(s)' : h \in LetIn(s) /\ call'[h].began = call[h].began
      BY <1>1 DEF LetIn
    <2> QED BY <1>1, <2>1, <2>2, StoreFrame DEF LoginsInv
  <1> QED
    BY <1>2, <1>3 DEF LoginsInv, StoresTell

LEMMA LoginsKept ==
  LoginsSpec => []LoginsInv
  <1>1. LoginsInit => LoginsInv
    BY LoginsBegin
  <1>2. LoginsInv /\ [LoginsNext]_loginVars => LoginsInv'
    BY LoginsStep, TimedStep, OneLoginStep, StoresTellStep, LoginsIdle DEF LoginsInv
  <1> QED
    BY <1>1, <1>2, PTL DEF LoginsSpec

\* Records, failures and calls have the types the server gives them; the number of
\* calls stays within its bound.
THEOREM LoginsTypeCorrect ==
  LoginsSpec => []LoginsTypeOK
  <1>1. LoginsInv => LoginsTypeOK
    BY DEF LoginsInv
  <1> QED
    BY <1>1, LoginsKept, PTL

\* Each store, Redis or a replica's memory, lets no more passwords be tried within a
\* window than the limit, of those it counts, whatever a command that fails leaves at
\* the others: Redis if calls do not overlap, a replica beyond the limit only by the
\* calls it had let in before it locked the account.
THEOREM AttemptsAreBounded ==
  LoginsSpec => []AttemptsBounded
  <1>1. ASSUME LoginsInv PROVE AttemptsBounded
    <2> SUFFICES ASSUME NEW s \in Stores, Counting(s)
                 PROVE  Recent(s) <= MaxFailed - 1 + AtOnce(s)
      BY DEF AttemptsBounded, Counting
    <2>1. PICK r, f : r = failedAttempts[s] /\ f = failed[s]
      OBVIOUS
    <2>2. /\ r \in RecordType /\ f \in Failures /\ clock \in Nat
          /\ r.count \in Nat /\ r.last \in Nat
      BY <1>1, <2>1, LoginsTyped, RecordFields DEF LoginsInv
    <2>3. Recent(s) = Tries(f, clock)
      BY <2>1 DEF Recent, Tries, WindowOf
    <2>4. /\ Tells(f, r, clock) /\ Within(f, r, clock, Cardinality(LetIn(s)), AtOnce(s))
      BY <1>1, <2>1 DEF LoginsInv, StoresTell, StoreAt, KeptAt
    <2>5. Mark(r, clock) \in Nat /\ Mark(r, clock) <= clock
      BY <2>2, <2>4 DEF Mark, Tells
    <2>6. /\ Tries(f, clock) \in Nat /\ Tries(f, Mark(r, clock)) \in Nat
          /\ Tries(f, clock) <= Tries(f, Mark(r, clock)) /\ Tries(f, Mark(r, clock)) <= r.count
      BY <2>2, <2>4, <2>5, TriesType, TriesFall DEF Tells
    <2>7. Cardinality(LetIn(s)) \in Nat /\ AtOnce(s) \in Nat
      BY <1>1, LetInIs DEF LoginsInv
    <2> QED
      BY <2>2, <2>3, <2>4, <2>6, <2>7, Limits DEF Within
  <1> QED
    BY <1>1, LoginsKept, PTL

----------------------------------------------------------------------------
(* A lock runs its time                                                    *)

LockKept(s) ==
    Locked(s) /\ ~Locked(s)' =>
        \/ clock' # clock
        \/ \E h \in Handlers : ClearFailedAttempts(h) \/ Restarted(s, h)
        \/ s # Redis /\ RestartReplica(s)
        \/ /\ s = Redis /\ ~serial
           /\ \E h \in Handlers : Unlock(h) \/ UnlockFails(h)

LEMMA LockedSame ==
  ASSUME NEW s, clock' = clock, failedAttempts'[s] = failedAttempts[s]
  PROVE  Locked(s)' <=> Locked(s)
  BY DEF Locked

\* Counting a failure does not end a lock, but in memory with a new count.
LEMMA LockCounted ==
  ASSUME LoginsInv, NEW s \in Stores, Locked(s), NEW h \in Handlers, NEW S,
         S \in SUBSET {Redis, ProcessOf[h]}, CountedBy(h, S),
         Wrong(h) \/ RecordFailedAttempt(h),
         call[h].at \in {"compare", "record"}, ~Restarted(s, h)
  PROVE  Locked(s)'
  <1>1. PICK r, x : r = failedAttempts[s] /\ x = failedAttempts'[s]
    OBVIOUS
  <1>2. /\ r \in RecordType /\ r.until \in Nat /\ r.count \in Nat /\ r.last \in Nat
        /\ clock \in Time /\ clock \in Nat /\ clock < r.until
        /\ MaxFailed \in Nat /\ Lockout \in Nat /\ Lockout > 0 /\ Window \in Nat /\ Window >= 1
    BY <1>1, LoginsTyped, RecordFields, Limits DEF LoginsInv, Locked
  <1>3. clock' = clock
    BY DEF CountedBy, Moves
  <1>4. CASE s \notin S
    BY <1>3, <1>4, LockedSame DEF CountedBy
  <1>5. CASE s \in S /\ s = Redis
    <2>1. PICK a : a = After(call[h].seen, clock)
      OBVIOUS
    <2>2. x = [a EXCEPT !.until = IF a.count >= MaxFailed THEN a.until ELSE r.until]
      BY <1>1, <1>5, <2>1 DEF CountedBy, Counted
    <2>3. /\ a \in RecordType /\ a.count = Count(call[h].seen, clock)
          /\ a.count >= MaxFailed => a.until = clock + Lockout
      BY <1>2, <2>1, AfterIs, LoginsTyped DEF LoginsInv
    <2>4. x.until = IF a.count >= MaxFailed THEN a.until ELSE r.until
      BY <2>2, <2>3 DEF RecordType
    <2>5. clock < x.until
      BY <1>2, <2>3, <2>4
    <2> QED BY <1>1, <1>3, <2>5 DEF Locked
  <1>6. CASE s \in S /\ s # Redis
    <2>1. s = ProcessOf[h] /\ x = After(r, clock)
      BY <1>1, <1>6 DEF CountedBy, Counted
    <2>2. StoreAt(s) /\ Marked(s, r)
      BY <1>1, <1>6 DEF LoginsInv, StoresTell, Counting, StoreAt, KeptAt
    <2>3. r.count >= MaxFailed
      BY <1>2, <1>6, <2>2 DEF Marked
    <2>4. ~(clock - r.last > Window)
      <3>1. CASE call[h].store = s
        <4>1. call[h].began <= r.last
          BY <1>1, <1>2, <1>6, <2>2, <3>1 DEF StoreAt, Begun, LetIn
        <4>2. clock <= call[h].began + 1 /\ call[h].began \in Nat
          BY LoginsTyped DEF LoginsInv, Timed
        <4> QED BY <1>2, <4>1, <4>2
      <3>2. CASE call[h].store # s
        BY <1>1, <2>1, <3>2 DEF Restarted
      <3> QED BY <3>1, <3>2
    <2>5. Count(r, clock) = r.count + 1
      BY <1>2, <2>4, CountIs
    <2>6. Count(r, clock) >= MaxFailed
      BY <1>2, <2>3, <2>5
    <2>7. x.until = clock + Lockout
      BY <1>2, <2>1, <2>6, AfterIs
    <2>8. clock < x.until
      BY <1>2, <2>7
    <2> QED BY <1>1, <1>3, <2>8 DEF Locked
  <1> QED BY <1>4, <1>5, <1>6

LEMMA LockServe ==
  ASSUME LoginsInv, NEW s \in Stores, NEW h \in Handlers, LoginStep(h)
  PROVE  LockKept(s)
  <1> SUFFICES ASSUME Locked(s), ~ClearFailedAttempts(h), ~Restarted(s, h),
                      ~(s = Redis /\ ~serial /\ (Unlock(h) \/ UnlockFails(h)))
               PROVE  Locked(s)'
    BY DEF LockKept
  <1>1. LoginsTypeOK /\ Timed
    BY DEF LoginsInv
  <1>2. ASSUME clock' = clock, failedAttempts'[s] = failedAttempts[s]
        PROVE  Locked(s)'
    BY <1>2, LockedSame
  <1>3. CASE CheckAccountLock(h)
    <2>1. PICK q \in {Redis, ProcessOf[h]} : LetInBy(h, q)
      BY <1>1, <1>3, CheckGives
    <2>2. clock' = clock /\ failedAttempts'[s] = failedAttempts[s]
      BY <2>1 DEF LetInBy, Moves
    <2> QED BY <1>2, <2>2
  <1>4. CASE Unlock(h) \/ UnlockFails(h)
    <2>1. /\ call[h].at = "unlock" /\ clock' = clock
          /\ UnlockedBy(h) \/ UnlockLost(h)
      BY <1>1, <1>4, UnlockGives, UnlockFailsGives DEF UnlockedBy, UnlockLost, Moves
    <2>2. CASE s = Redis
      <3>1. serial
        BY <1>4, <2>2
      <3>2. failedAttempts[s].until <= clock
        BY <2>1, <2>2, <3>1 DEF LoginsInv, StoresTell, Counting, StoreAt, Reads
      <3>3. failedAttempts[s].until \in Nat /\ clock \in Nat
        BY <1>1, LoginsTyped, RecordFields
      <3> QED BY <3>2, <3>3 DEF Locked
    <2>3. CASE s # Redis
      <3>1. s \in Processes
        BY <2>3 DEF Stores
      <3>2. failedAttempts'[s] = failedAttempts[s]
        BY <2>1, <2>3, <3>1 DEF UnlockedBy, UnlockLost, LockOver
      <3> QED BY <1>2, <2>1, <3>2
    <2> QED BY <2>2, <2>3
  <1>5. CASE Wrong(h)
    BY <1>1, <1>5, WrongGives, LockCounted
  <1>6. CASE ReadAttempts(h)
    BY <1>1, <1>2, <1>6, ReadGives DEF ReadBy, Moves
  <1>7. CASE RecordFailedAttempt(h)
    BY <1>1, <1>7, RecordGives, LockCounted
  <1> QED
    BY <1>3, <1>4, <1>5, <1>6, <1>7 DEF LoginStep

\* Nothing ends a lock but its time, a login that was let in and succeeds, and the end
\* of the replica that knew of it; and, too early, in Redis a call that saw an earlier
\* lock run out, and in memory a failure counted there for a call that Redis let in.
THEOREM LocksRunTheirTime ==
  LoginsSpec => LockRunsItsTime
  <1>1. LoginsInv /\ [LoginsNext]_loginVars => [\A s \in Stores : LockKept(s)]_loginVars
    <2> SUFFICES ASSUME LoginsInv, LoginsNext, NEW s \in Stores
                 PROVE  LockKept(s)
      OBVIOUS
    <2>1. LoginsTypeOK
      BY DEF LoginsInv
    <2>2. ASSUME NEW h \in Handlers, LoginStep(h) PROVE LockKept(s)
      BY <2>2, LockServe
    <2>3. ASSUME NEW h \in Handlers, AbortLogin(h) PROVE LockKept(s)
      BY <2>1, <2>3, AbortLoginGives, LockedSame DEF LockKept, Moves
    <2>4. ASSUME NEW q \in Processes, RestartReplica(q) PROVE LockKept(s)
      <3>1. CASE q = s
        BY <2>4, <3>1, Limits DEF LockKept
      <3>2. CASE q # s
        <4>1. failedAttempts'[s] = failedAttempts[s] /\ clock' = clock
          BY <2>1, <2>4, <3>2, RestartLoginGives DEF Forgotten
        <4> QED BY <4>1, LockedSame DEF LockKept
      <3> QED BY <3>1, <3>2
    <2>5. ASSUME ClockTick PROVE LockKept(s)
      <3>1. clock' = clock + 1 /\ clock \in Nat
        BY <2>1, <2>5, TickGives, LoginsTyped
      <3> QED BY <3>1 DEF LockKept
    <2> QED
      BY <2>2, <2>3, <2>4, <2>5 DEF LoginsNext
  <1> QED
    BY <1>1, LoginsKept, PTL DEF LoginsSpec, LockRunsItsTime, LockKept

=============================================================================
