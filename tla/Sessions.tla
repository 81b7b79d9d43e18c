------------------------------ MODULE Sessions ------------------------------
(***************************************************************************)
(* The sessions of one browser with the authentication service: the store  *)
(* of refresh tokens (auth/src/tokens/refresh.ts) and the handlers that    *)
(* create, rotate and revoke them (auth/src/routes), the cookie that the   *)
(* tabs share, and what each tab does about its session (app/src/shared/   *)
(* contexts/auth-context.tsx, auth-rotation.ts).                           *)
(*                                                                         *)
(* A call is sent with the cookie of that moment, handled, and its answer  *)
(* comes, or is lost, at any later time.  A refresh token is the number of *)
(* the login it descends from and its generation; every login may be       *)
(* another user's, so a session is the number of its login too.  There is  *)
(* no clock: a timer may fire, and a token be past its time, whenever it   *)
(* is looked at.                                                           *)
(***************************************************************************)
EXTENDS Integers, FiniteSets

CONSTANTS
  Tabs,
  MaxLogins,       \* bound: logins in all
  MaxRotations,    \* bound: rotations after one login; the last token is past its time
  MaxFaults,       \* bound: lost answers, expiries, restarts
  MaxAsks          \* bound: calls at a time that no timer and no page load made

ASSUME SessionsAssumption ==
  /\ MaxLogins \in Nat
  /\ MaxRotations \in Nat
  /\ MaxFaults \in Nat \ {0}
  /\ MaxAsks \in Nat

Logins == 1..MaxLogins
NoLogin == 0               \* no session
Tokens == Logins \X (0..MaxRotations)
None == <<NoLogin, 0>>     \* no token

Refreshes == {"restore", "silent", "remint"}
Asked == {"login", "logout", "remint"}
Kinds == Refreshes \union Asked

VARIABLES
  valid,           \* the keys of the RefreshTokenStore
  logins,          \* how many there were
  cookie,          \* irsforge_refresh in the browser
  meta,            \* whether localStorage has an identity
  session,         \* each tab's state: its login, or null
  timer,           \* the tabs with a refresh timer
  call,            \* the tabs' requests: how far, and what they carry
  faults           \* how often an answer was lost, a token expired or the service restarted

serverVars == <<valid, logins>>
tabVars == <<session, timer>>
vars == <<serverVars, cookie, meta, tabVars, call, faults>>

Idle == <<"idle", None>>

\* isInitialized: the restore is over.
Initialized(t) == call[t]["restore"] = Idle

Init ==
  /\ valid = {}
  /\ logins = 0
  /\ cookie = None
  /\ meta = FALSE
  /\ session = [t \in Tabs |-> NoLogin]
  /\ timer = {}
  /\ call = [t \in Tabs |-> [k \in Kinds |-> Idle]]
  /\ faults = 0

-----------------------------------------------------------------------------
(* The tab sends.                                                          *)

Send(t, k, what) ==
  /\ call[t][k] = Idle
  /\ k \in Asked => Cardinality({a \in Tabs \X Asked : call[a[1]][a[2]] # Idle}) < MaxAsks
  /\ call' = [call EXCEPT ![t][k] = <<"sent", what>>]

Fault == faults < MaxFaults /\ faults' = faults + 1

\* The login form, which an unauthenticated tab shows.
Login(t) ==
  /\ Initialized(t)
  /\ session[t] = NoLogin
  /\ logins < MaxLogins
  /\ Send(t, "login", None)
  /\ UNCHANGED <<serverVars, cookie, meta, tabVars, faults>>

Logout(t) ==
  /\ session[t] # NoLogin
  /\ Send(t, "logout", cookie)
  /\ UNCHANGED <<serverVars, cookie, meta, tabVars, faults>>

\* The timer of scheduleRefresh, which nothing but a logout, a new timer or
\* the end of the page clears.
Fire(t) ==
  /\ t \in timer
  /\ Send(t, "silent", cookie)
  /\ timer' = timer \ {t}
  /\ UNCHANGED <<serverVars, cookie, meta, session, faults>>

\* remintForRotation, when the ledger under the session was replaced.
Remint(t) ==
  /\ session[t] # NoLogin
  /\ Send(t, "remint", cookie)
  /\ UNCHANGED <<serverVars, cookie, meta, tabVars, faults>>

\* The page is loaded anew: React's state and what was awaited are gone, and
\* with an identity in localStorage the session is restored from the cookie.
Reload(t) ==
  /\ session' = [session EXCEPT ![t] = NoLogin]
  /\ timer' = timer \ {t}
  /\ call' = [call EXCEPT ![t] =
                [k \in Kinds |-> IF meta /\ k = "restore" THEN <<"sent", cookie>> ELSE Idle]]
  /\ IF \E k \in Kinds : call[t][k] # Idle THEN Fault ELSE UNCHANGED faults
  /\ UNCHANGED <<serverVars, cookie, meta>>

-----------------------------------------------------------------------------
(* The service handles.                                                    *)

Answer(t, k, what) == call' = [call EXCEPT ![t][k] = <<"answered", what>>]

\* handleLogin
HandleLogin(t) ==
  /\ call[t]["login"][1] = "sent"
  /\ logins < MaxLogins
  /\ logins' = logins + 1
  /\ valid' = valid \union {<<logins + 1, 0>>}
  /\ Answer(t, "login", <<logins + 1, 0>>)
  /\ UNCHANGED <<cookie, meta, tabVars, faults>>

\* Mutant of Rotate: the old token stays in the store.
RotateKeeping(token) == valid' = valid \union {<<token[1], token[2] + 1>>}

\* RefreshTokenStore.rotate
Rotate(token) == valid' = (valid \ {token}) \union {<<token[1], token[2] + 1>>}

\* handleRefresh: a new token for the old one; or 401, for one that is past
\* its time, and for one that is not in the store or missing.
HandleRefresh(t, k) ==
  /\ call[t][k][1] = "sent"
  /\ LET token == call[t][k][2]
     IN \/ /\ token \in valid
           /\ token[2] < MaxRotations
           /\ Rotate(token)
           /\ Answer(t, k, <<token[1], token[2] + 1>>)
           /\ UNCHANGED faults
        \/ /\ token \in valid
           /\ valid' = valid \ {token}
           /\ Answer(t, k, None)
           /\ IF token[2] = MaxRotations THEN faults' = MaxFaults ELSE Fault
        \/ /\ token \notin valid
           /\ Answer(t, k, None)
           /\ UNCHANGED <<valid, faults>>
  /\ UNCHANGED <<logins, cookie, meta, tabVars>>

\* handleLogout
HandleLogout(t) ==
  /\ call[t]["logout"][1] = "sent"
  /\ valid' = valid \ {call[t]["logout"][2]}
  /\ Answer(t, "logout", None)
  /\ UNCHANGED <<logins, cookie, meta, tabVars, faults>>

\* The store is in memory.
Restart ==
  /\ valid # {}
  /\ valid' = {}
  /\ Fault
  /\ UNCHANGED <<logins, cookie, meta, tabVars, call>>

-----------------------------------------------------------------------------
(* The tab gets the answer.                                                *)

Received(t, k) == call' = [call EXCEPT ![t][k] = Idle]

\* setState, and the effect that persists the identity when it has changed.
Become(t, login) ==
  /\ session' = [session EXCEPT ![t] = login]
  /\ meta' = IF login = session[t] /\ login = NoLogin THEN meta ELSE login # NoLogin

\* A login or a refresh succeeded: the browser takes the cookie, the tab the
\* session, and scheduleRefresh arms its timer.
Granted(t, k) ==
  LET token == call[t][k][2]
  IN /\ call[t][k][1] = "answered"
     /\ k # "logout"
     /\ token # None
     /\ cookie' = token
     /\ Become(t, token[1])
     /\ timer' = timer \union {t}
     /\ Received(t, k)
     /\ UNCHANGED <<serverVars, faults>>

\* Mutant of GivesUp: a refused silent refresh leaves the session shown.
GivesUpQuietly(t, k) ==
  /\ meta' = IF k = "restore" THEN FALSE ELSE meta
  /\ UNCHANGED <<session, timer>>
  /\ Received(t, k)

\* What a tab does when a refresh gives it nothing.
GivesUp(t, k) ==
  /\ \/ /\ k = "restore"
        /\ meta' = FALSE
        /\ UNCHANGED session
     \/ /\ k = "silent"
        /\ Become(t, NoLogin)
     \/ /\ k \in {"remint", "login"}
        /\ UNCHANGED <<session, meta>>
  /\ UNCHANGED timer
  /\ Received(t, k)

Denied(t, k) ==
  /\ k \in Refreshes
  /\ call[t][k] = <<"answered", None>>
  /\ GivesUp(t, k)
  /\ UNCHANGED <<serverVars, cookie, faults>>

\* Mutant of LoggedOut: the answer does not clear the cookie.
LoggedOutKeepingCookie(t) ==
  /\ call[t]["logout"][1] = "answered"
  /\ Become(t, NoLogin)
  /\ timer' = timer \ {t}
  /\ Received(t, "logout")
  /\ UNCHANGED <<serverVars, cookie, faults>>

\* The answer clears the cookie; only now the timer is cleared.
LoggedOut(t) ==
  /\ call[t]["logout"][1] = "answered"
  /\ cookie' = None
  /\ Become(t, NoLogin)
  /\ timer' = timer \ {t}
  /\ Received(t, "logout")
  /\ UNCHANGED <<serverVars, faults>>

\* The call or its answer is lost: fetch throws, which each caller treats as a
\* refusal, and logout as its end.
Lost(t, k) ==
  /\ call[t][k] # Idle
  /\ Fault
  /\ \/ k # "logout" /\ GivesUp(t, k)
     \/ /\ k = "logout"
        /\ Become(t, NoLogin)
        /\ timer' = timer \ {t}
        /\ Received(t, k)
  /\ UNCHANGED <<serverVars, cookie>>

Handle(t, k) ==
  \/ k = "login" /\ HandleLogin(t)
  \/ k = "logout" /\ HandleLogout(t)
  \/ k \in Refreshes /\ HandleRefresh(t, k)

Receive(t, k) ==
  \/ k = "logout" /\ LoggedOut(t)
  \/ Granted(t, k)
  \/ Denied(t, k)

Next ==
  \/ \E t \in Tabs :
       \/ Login(t) \/ Logout(t) \/ Fire(t) \/ Remint(t) \/ Reload(t)
       \/ \E k \in Kinds : Handle(t, k) \/ Receive(t, k) \/ Lost(t, k)
  \/ Restart

\* A timer fires, and its call is handled and answered in the end.
Fairness ==
  \A t \in Tabs :
    WF_vars(Fire(t)) /\ WF_vars(Handle(t, "silent")) /\ WF_vars(Receive(t, "silent"))

Spec == Init /\ [][Next]_vars /\ Fairness

-----------------------------------------------------------------------------
(* Properties.                                                             *)

\* Two tabs that refresh at once, or a repeated refresh, leave one successor:
\* there is never more than one live token of a login.
OneTokenPerLogin == \A a, b \in valid : a[1] = b[1] => a = b

Quiet == \A t \in Tabs, k \in Kinds : call[t][k] = Idle

\* However refreshes, logins and logouts of the tabs overlap, the browser does
\* not end up with a cookie the service refuses, unless an answer was lost, a
\* token expired or the service forgot it.
NoDeadCookie == Quiet /\ faults = 0 /\ cookie # None => cookie \in valid

\* A tab whose cookie is dead, by a logout in another tab, a lost answer or a
\* restart, does not go on showing a session for ever.
DeadSessionsEnd ==
  \A t \in Tabs :
    session[t] # NoLogin /\ cookie \notin valid ~> session[t] = NoLogin \/ cookie \in valid

=============================================================================
