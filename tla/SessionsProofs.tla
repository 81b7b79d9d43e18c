--------------------------- MODULE SessionsProofs ---------------------------
(***************************************************************************)
(* Proofs about the browser's sessions: any number of tabs, logins,        *)
(* rotations and faults.                                                   *)
(*                                                                         *)
(* The invariant is Descent, that the live token of a login is the newest  *)
(* of its tokens seen anywhere, which makes a rotated token a new one; and *)
(* for as long as nothing failed, Unspent, that a token on its way to the  *)
(* browser is live and nobody else's, and Alive, that a dead cookie is     *)
(* about to be replaced.                                                   *)
(***************************************************************************)
EXTENDS Sessions, TLAPS

Phases == {"idle", "sent", "answered"}

\* Every variable stays within its type.
TypeOK ==
  /\ valid \subseteq Tokens
  /\ logins \in 0..MaxLogins
  /\ cookie \in Tokens \union {None}
  /\ meta \in BOOLEAN
  /\ session \in [Tabs -> Logins \union {NoLogin}]
  /\ timer \subseteq Tabs
  /\ call \in [Tabs -> [Kinds -> Phases \X (Tokens \union {None})]]
  /\ faults \in 0..MaxFaults

-----------------------------------------------------------------------------
(* Calls.                                                                  *)

\* A step of one call leaves the others.
LEMMA CallSet ==
  ASSUME call \in [Tabs -> [Kinds -> Phases \X (Tokens \union {None})]],
         NEW t \in Tabs, NEW k \in Kinds, NEW x, call' = [call EXCEPT ![t][k] = x]
  PROVE  /\ call'[t][k] = x
         /\ \A u \in Tabs, j \in Kinds : u # t \/ j # k => call'[u][j] = call[u][j]
         /\ x \in Phases \X (Tokens \union {None}) =>
              call' \in [Tabs -> [Kinds -> Phases \X (Tokens \union {None})]]
OBVIOUS

\* So does a page load, for the other tabs.
LEMMA CallReloaded ==
  ASSUME TypeOK, NEW t \in Tabs, Reload(t)
  PROVE  /\ call' \in [Tabs -> [Kinds -> Phases \X (Tokens \union {None})]]
         /\ \A u \in Tabs, j \in Kinds : u # t => call'[u][j] = call[u][j]
         /\ \A j \in Kinds : call'[t][j] \in {Idle, <<"sent", cookie>>}
<1> DEFINE New == [k \in Kinds |-> IF meta /\ k = "restore" THEN <<"sent", cookie>> ELSE Idle]
<1>1. New \in [Kinds -> Phases \X (Tokens \union {None})]
  BY DEF TypeOK, Idle, Phases
<1>2. call' = [call EXCEPT ![t] = New]
  BY DEF Reload
<1>3. call'[t] = New
  BY <1>2 DEF TypeOK
<1>4. \A j \in Kinds : New[j] \in {Idle, <<"sent", cookie>>}
  OBVIOUS
<1> HIDE DEF New
<1> QED
  BY <1>1, <1>2, <1>3, <1>4 DEF TypeOK

-----------------------------------------------------------------------------
(* What the steps do to tokens.                                            *)

\* A call is sent, with the cookie or without a token.
Sends(t, k) ==
  /\ call[t][k] = Idle
  /\ \E x \in {None, cookie} : call' = [call EXCEPT ![t][k] = <<"sent", x>>]
  /\ UNCHANGED <<valid, logins, cookie, faults>>

\* The service answers with a token it has just made: a login's first, or the
\* successor of the live token that the call carried.
Mints(t, k, new) ==
  /\ k # "logout"
  /\ call[t][k][1] = "sent"
  /\ call' = [call EXCEPT ![t][k] = <<"answered", new>>]
  /\ \/ /\ logins' = logins + 1
        /\ new = <<logins + 1, 0>>
        /\ valid' = valid \union {new}
     \/ /\ UNCHANGED logins
        /\ call[t][k][2] \in valid
        /\ new = <<call[t][k][2][1], call[t][k][2][2] + 1>>
        /\ valid' = (valid \ {call[t][k][2]}) \union {new}
  /\ UNCHANGED <<cookie, faults>>

\* The service answers with none.
Refuses(t, k) ==
  /\ call[t][k][1] = "sent"
  /\ call' = [call EXCEPT ![t][k] = <<"answered", None>>]
  /\ \/ valid' = valid
     \/ valid' = valid \ {call[t][k][2]} /\ (k = "logout" \/ faults' > 0)
  /\ faults' \in faults..MaxFaults
  /\ UNCHANGED <<logins, cookie>>

\* An answer arrives.
Arrives(t, k) ==
  /\ call[t][k][1] = "answered"
  /\ call' = [call EXCEPT ![t][k] = Idle]
  /\ \/ k = "logout" /\ cookie' = None
     \/ k # "logout" /\ call[t][k][2] # None /\ cookie' = call[t][k][2]
     \/ k # "logout" /\ call[t][k][2] = None /\ cookie' = cookie
  /\ UNCHANGED <<valid, logins, faults>>

\* A page is loaded, or something fails.
Disturbs ==
  /\ valid' \in {valid, {}}
  /\ faults' \in faults..MaxFaults
  /\ UNCHANGED <<logins, cookie>>
  /\ call' \in [Tabs -> [Kinds -> Phases \X (Tokens \union {None})]]
  /\ \A u \in Tabs, j \in Kinds :
       call'[u][j] \in {call[u][j], Idle, <<"sent", cookie>>}
  /\ faults' = 0 =>
       /\ valid' = valid
       /\ \A u \in Tabs, j \in Kinds : call[u][j] # Idle => call'[u][j] = call[u][j]

\* Nothing else happens to them.
LEMMA StepsOfTokens ==
  ASSUME TypeOK, [Next]_vars
  PROVE  \/ \E t \in Tabs, k \in Kinds :
              \/ Sends(t, k) \/ Refuses(t, k) \/ Arrives(t, k)
              \/ \E new \in Tokens : Mints(t, k, new)
         \/ Disturbs
<1> USE SessionsAssumption DEF TypeOK
<1>1. ASSUME NEW t \in Tabs, Login(t) \/ Logout(t) \/ Fire(t) \/ Remint(t)
      PROVE  \E k \in Kinds : Sends(t, k)
  <2>1. /\ "login" \in Kinds /\ "logout" \in Kinds /\ "silent" \in Kinds /\ "remint" \in Kinds
    BY DEF Kinds, Refreshes, Asked
  <2>2. CASE Login(t)
    BY <2>1, <2>2 DEF Login, Send, Sends, serverVars
  <2>3. CASE Logout(t)
    BY <2>1, <2>3 DEF Logout, Send, Sends, serverVars
  <2>4. CASE Fire(t)
    BY <2>1, <2>4 DEF Fire, Send, Sends, serverVars
  <2>5. CASE Remint(t)
    BY <2>1, <2>5 DEF Remint, Send, Sends, serverVars
  <2> QED
    BY <1>1, <2>2, <2>3, <2>4, <2>5
<1>2. ASSUME NEW t \in Tabs, Reload(t) PROVE Disturbs
  <2>1. /\ valid' = valid /\ UNCHANGED <<logins, cookie>>
        /\ IF \E k \in Kinds : call[t][k] # Idle THEN Fault ELSE UNCHANGED faults
    BY <1>2 DEF Reload, serverVars
  <2>2. faults' \in faults..MaxFaults
    BY <2>1 DEF Fault
  <2>3. faults' = 0 => \A k \in Kinds : call[t][k] = Idle
    BY <2>1 DEF Fault
  <2>4. \A u \in Tabs, j \in Kinds : call'[u][j] \in {call[u][j], Idle, <<"sent", cookie>>}
    BY <1>2, CallReloaded
  <2>5. faults' = 0 =>
          \A u \in Tabs, j \in Kinds : call[u][j] # Idle => call'[u][j] = call[u][j]
    BY <1>2, <2>3, CallReloaded
  <2> QED
    BY <1>2, <2>1, <2>2, <2>4, <2>5, CallReloaded DEF Disturbs
<1>3. ASSUME NEW t \in Tabs, NEW k \in Kinds, Handle(t, k)
      PROVE  Refuses(t, k) \/ \E new \in Tokens : Mints(t, k, new)
  <2>1. CASE k = "login" /\ HandleLogin(t)
    <3>1. <<logins + 1, 0>> \in Tokens
      BY <2>1 DEF HandleLogin, Tokens, Logins
    <3>2. Mints(t, k, <<logins + 1, 0>>)
      BY <2>1 DEF HandleLogin, Answer, Mints
    <3> QED
      BY <3>1, <3>2
  <2>2. CASE k = "logout" /\ HandleLogout(t)
    BY <2>2 DEF HandleLogout, Answer, Refuses
  <2>3. CASE k \in Refreshes /\ HandleRefresh(t, k)
    <3>1. k # "logout" /\ call[t][k][1] = "sent" /\ UNCHANGED <<logins, cookie>>
      BY <2>3 DEF HandleRefresh, Refreshes
    <3> DEFINE token == call[t][k][2]
    <3>2. CASE /\ token \in valid
               /\ token[2] < MaxRotations
               /\ Rotate(token)
               /\ Answer(t, k, <<token[1], token[2] + 1>>)
               /\ UNCHANGED faults
      <4>1. <<token[1], token[2] + 1>> \in Tokens
        BY <3>2 DEF Tokens
      <4>2. Mints(t, k, <<token[1], token[2] + 1>>)
        BY <3>1, <3>2 DEF Rotate, Answer, Mints
      <4> QED
        BY <4>1, <4>2
    <3>3. CASE /\ token \in valid
               /\ valid' = valid \ {token}
               /\ Answer(t, k, None)
               /\ IF token[2] = MaxRotations THEN faults' = MaxFaults ELSE Fault
      <4>1. faults' > 0 /\ faults' \in faults..MaxFaults
        BY <3>3 DEF Fault
      <4> QED
        BY <3>1, <3>3, <4>1 DEF Answer, Refuses
    <3>4. CASE /\ token \notin valid
               /\ Answer(t, k, None)
               /\ UNCHANGED <<valid, faults>>
      BY <3>1, <3>4 DEF Answer, Refuses
    <3> QED
      BY <2>3, <3>2, <3>3, <3>4 DEF HandleRefresh
  <2> QED
    BY <1>3, <2>1, <2>2, <2>3 DEF Handle
<1>4. ASSUME NEW t \in Tabs, NEW k \in Kinds, Receive(t, k) PROVE Arrives(t, k)
  <2>1. CASE k = "logout" /\ LoggedOut(t)
    BY <2>1 DEF LoggedOut, Received, Arrives, serverVars
  <2>2. CASE Granted(t, k)
    BY <2>2 DEF Granted, Received, Arrives, serverVars
  <2>3. CASE Denied(t, k)
    BY <2>3 DEF Denied, GivesUp, Received, Arrives, Refreshes, serverVars
  <2> QED
    BY <1>4, <2>1, <2>2, <2>3 DEF Receive
<1>5. ASSUME NEW t \in Tabs, NEW k \in Kinds, Lost(t, k) PROVE Disturbs
  <2>1. call' = [call EXCEPT ![t][k] = Idle]
    BY <1>5 DEF Lost, GivesUp, Received
  <2>2. Idle \in Phases \X (Tokens \union {None})
    BY DEF Idle, Phases
  <2>3. faults' > 0 /\ faults' \in faults..MaxFaults
    BY <1>5 DEF Lost, Fault
  <2> QED
    BY <1>5, <2>1, <2>2, <2>3, CallSet DEF Lost, Disturbs, serverVars
<1>6. ASSUME Restart PROVE Disturbs
  <2>1. faults' > 0 /\ faults' \in faults..MaxFaults
    BY <1>6 DEF Restart, Fault
  <2> QED
    BY <1>6, <2>1 DEF Restart, Disturbs
<1>7. ASSUME UNCHANGED vars PROVE Disturbs
  BY <1>7 DEF vars, serverVars, Disturbs
<1> QED
  BY <1>1, <1>2, <1>3, <1>4, <1>5, <1>6, <1>7 DEF Next

-----------------------------------------------------------------------------
(* The type invariant.                                                     *)

LEMMA NextTypeOK ==
  ASSUME TypeOK, [Next]_vars
  PROVE  TypeOK'
<1> USE SessionsAssumption
<1>1. valid' \subseteq Tokens
  <2>1. ASSUME NEW t \in Tabs, NEW k \in Kinds, NEW new \in Tokens, Mints(t, k, new)
        PROVE  valid' \subseteq Tokens
    BY <2>1 DEF Mints, TypeOK
  <2> QED
    BY <2>1, StepsOfTokens DEF Sends, Refuses, Arrives, Disturbs, TypeOK
<1>2. logins' \in 0..MaxLogins
  <2>1. ASSUME NEW t \in Tabs, NEW k \in Kinds, NEW new \in Tokens, Mints(t, k, new)
        PROVE  logins' \in 0..MaxLogins
    BY <2>1 DEF Mints, TypeOK, Tokens, Logins
  <2> QED
    BY <2>1, StepsOfTokens DEF Sends, Refuses, Arrives, Disturbs, TypeOK
<1>3. cookie' \in Tokens \union {None}
  BY StepsOfTokens DEF Sends, Mints, Refuses, Arrives, Disturbs, TypeOK
<1>4. call' \in [Tabs -> [Kinds -> Phases \X (Tokens \union {None})]]
  <2>1. ASSUME NEW t \in Tabs, NEW k \in Kinds, NEW x \in Phases \X (Tokens \union {None}),
               call' = [call EXCEPT ![t][k] = x]
        PROVE  call' \in [Tabs -> [Kinds -> Phases \X (Tokens \union {None})]]
    BY <2>1, CallSet DEF TypeOK
  <2>2. ASSUME NEW t \in Tabs, NEW k \in Kinds, NEW new \in Tokens, Mints(t, k, new)
        PROVE  call' \in [Tabs -> [Kinds -> Phases \X (Tokens \union {None})]]
    BY <2>1, <2>2 DEF Mints, Phases
  <2>3. ASSUME NEW t \in Tabs, NEW k \in Kinds, Sends(t, k) \/ Refuses(t, k) \/ Arrives(t, k)
        PROVE  call' \in [Tabs -> [Kinds -> Phases \X (Tokens \union {None})]]
    BY <2>1, <2>3 DEF Sends, Refuses, Arrives, Phases, Idle, TypeOK
  <2> QED
    BY <2>2, <2>3, StepsOfTokens DEF Disturbs
<1>5. faults' \in 0..MaxFaults
  BY StepsOfTokens DEF Sends, Mints, Refuses, Arrives, Disturbs, TypeOK
<1>6. /\ meta' \in BOOLEAN
      /\ session' \in [Tabs -> Logins \union {NoLogin}]
      /\ timer' \subseteq Tabs
  <2> DEFINE Fine == /\ meta' \in BOOLEAN
                     /\ session' \in [Tabs -> Logins \union {NoLogin}]
                     /\ timer' \subseteq Tabs
  <2>1. ASSUME NEW t \in Tabs, NEW login \in Logins \union {NoLogin}, Become(t, login),
               timer' \subseteq timer \union {t}
        PROVE  Fine
    <3>1. meta' \in BOOLEAN
      BY <2>1 DEF Become, TypeOK
    <3> QED
      BY <2>1, <3>1 DEF Become, TypeOK
  <2>2. ASSUME NEW t \in Tabs, NEW k \in Kinds, GivesUp(t, k) PROVE Fine
    BY <2>1, <2>2 DEF GivesUp, TypeOK
  <2>3. ASSUME NEW t \in Tabs, NEW k \in Kinds, Granted(t, k) PROVE Fine
    <3>1. call[t][k][2] \in Tokens
      BY <2>3 DEF Granted, TypeOK
    <3> QED
      BY <2>1, <2>3, <3>1 DEF Granted, Tokens
  <2>4. ASSUME NEW t \in Tabs, LoggedOut(t) PROVE Fine
    BY <2>1, <2>4 DEF LoggedOut
  <2>5. ASSUME NEW t \in Tabs, NEW k \in Kinds, Lost(t, k) PROVE Fine
    BY <2>1, <2>2, <2>5 DEF Lost
  <2>6. ASSUME NEW t \in Tabs, Reload(t) PROVE Fine
    BY <2>6 DEF Reload, TypeOK
  <2>7. ASSUME NEW t \in Tabs, Fire(t) PROVE Fine
    BY <2>7 DEF Fire, TypeOK
  <2>8. ASSUME UNCHANGED <<meta, tabVars>> PROVE Fine
    BY <2>8 DEF tabVars, TypeOK
  <2> HIDE DEF Fine
  <2>9. Fine
    BY <2>2, <2>3, <2>4, <2>5, <2>6, <2>7, <2>8
    DEF Next, Login, Logout, Remint, Handle, HandleLogin, HandleLogout, HandleRefresh,
        Receive, Denied, Restart, vars
  <2> QED
    BY <2>9 DEF Fine
<1> QED
  BY <1>1, <1>2, <1>3, <1>4, <1>5, <1>6 DEF TypeOK

\* Every variable of the sessions keeps its type.
THEOREM TypeCorrect == Spec => []TypeOK
<1>1. Init => TypeOK
  <2>1. 0 \in 0..MaxLogins /\ 0 \in 0..MaxFaults
    BY SessionsAssumption
  <2>2. Idle \in Phases \X (Tokens \union {None})
    BY DEF Idle, Phases
  <2>3. Init => call \in [Tabs -> [Kinds -> Phases \X (Tokens \union {None})]]
    BY <2>2 DEF Init
  <2>4. Init => meta \in BOOLEAN
    BY DEF Init
  <2>5. Init => /\ valid \subseteq Tokens
                /\ cookie \in Tokens \union {None}
                /\ session \in [Tabs -> Logins \union {NoLogin}]
                /\ timer \subseteq Tabs
    BY DEF Init
  <2>6. Init => logins \in 0..MaxLogins /\ faults \in 0..MaxFaults
    BY <2>1 DEF Init
  <2> QED
    BY <2>3, <2>4, <2>5, <2>6 DEF TypeOK
<1> QED
  BY <1>1, NextTypeOK, PTL DEF Spec

-----------------------------------------------------------------------------
(* One live token of a login.                                              *)

\* A token is somewhere.
Seen(x) == x \in valid \/ x = cookie \/ \E t \in Tabs, k \in Kinds : call[t][k][2] = x

\* It comes of a login there was, and is no newer than that login's live one.
Descends(x) == x[1] =< logins /\ \A v \in valid : v[1] = x[1] => x[2] =< v[2]

Descent == \A x \in Tokens : Seen(x) => Descends(x)

LEMMA InitDescent == Init => Descent
<1>1. Init => \A x \in Tokens : ~Seen(x)
  BY DEF Init, Idle, Seen, Tokens, None, Logins, NoLogin
<1> QED
  BY <1>1 DEF Descent

LEMMA NextDescent ==
  ASSUME TypeOK, Descent, [Next]_vars
  PROVE  Descent'
<1> USE SessionsAssumption
<1>1. ASSUME \A x \in Tokens : Seen(x)' => Seen(x), valid' \subseteq valid, logins' = logins
      PROVE  Descent'
  BY <1>1 DEF Descent, Descends
<1>2. ASSUME NEW t \in Tabs, NEW k \in Kinds, NEW y \in Phases \X {None, cookie, call[t][k][2]},
             call' = [call EXCEPT ![t][k] = y], NEW x \in Tokens,
             \E u \in Tabs, j \in Kinds : call'[u][j][2] = x
      PROVE  Seen(x)
  <2>1. PICK u \in Tabs, j \in Kinds : call'[u][j][2] = x
    BY <1>2
  <2>2. CASE u = t /\ j = k
    <3>1. x = y[2]
      BY <1>2, <2>1, <2>2, CallSet DEF TypeOK
    <3>2. x # None
      BY DEF Tokens, None, Logins, NoLogin
    <3> QED
      BY <1>2, <3>1, <3>2 DEF Seen
  <2>3. CASE ~(u = t /\ j = k)
    BY <1>2, <2>1, <2>3, CallSet DEF TypeOK, Seen
  <2> QED
    BY <2>2, <2>3
<1>3. ASSUME NEW t \in Tabs, NEW k \in Kinds, Sends(t, k) PROVE Descent'
  <2>1. \A x \in Tokens : Seen(x)' => Seen(x)
    BY <1>2, <1>3 DEF Sends, Phases, Seen
  <2> QED
    BY <1>1, <1>3, <2>1 DEF Sends
<1>4. ASSUME NEW t \in Tabs, NEW k \in Kinds, Refuses(t, k) PROVE Descent'
  <2>1. \A x \in Tokens : Seen(x)' => Seen(x)
    BY <1>2, <1>4 DEF Refuses, Phases, Seen
  <2> QED
    BY <1>1, <1>4, <2>1 DEF Refuses
<1>5. ASSUME NEW t \in Tabs, NEW k \in Kinds, Arrives(t, k) PROVE Descent'
  <2>1. ASSUME NEW x \in Tokens, Seen(x)' PROVE Seen(x)
    <3>1. x # None
      BY DEF Tokens, None, Logins, NoLogin
    <3>2. CASE x = cookie'
      BY <1>5, <3>1, <3>2 DEF Arrives, Seen
    <3>3. CASE x \in valid'
      BY <1>5, <3>3 DEF Arrives, Seen
    <3>4. CASE \E u \in Tabs, j \in Kinds : call'[u][j][2] = x
      BY <1>2, <1>5, <3>4 DEF Arrives, Phases, Idle
    <3> QED
      BY <2>1, <3>2, <3>3, <3>4 DEF Seen
  <2> QED
    BY <1>1, <1>5, <2>1 DEF Arrives
<1>6. ASSUME Disturbs PROVE Descent'
  <2>1. ASSUME NEW x \in Tokens, Seen(x)' PROVE Seen(x)
    <3>1. x # None
      BY DEF Tokens, None, Logins, NoLogin
    <3>2. CASE x = cookie' \/ x \in valid'
      BY <1>6, <3>2 DEF Disturbs, Seen
    <3>3. ASSUME NEW u \in Tabs, NEW j \in Kinds, call'[u][j][2] = x PROVE Seen(x)
      BY <1>6, <3>1, <3>3 DEF Disturbs, Idle, Seen
    <3> QED
      BY <2>1, <3>2, <3>3 DEF Seen
  <2> QED
    BY <1>1, <1>6, <2>1 DEF Disturbs
<1>7. ASSUME NEW t \in Tabs, NEW k \in Kinds, NEW new \in Tokens, Mints(t, k, new)
      PROVE  Descent'
  <2>1. /\ \A v \in valid' : v = new \/ (v \in valid /\ v[1] # new[1])
        /\ \A x \in Tokens : Seen(x) /\ x[1] = new[1] => x[2] =< new[2]
        /\ new[1] =< logins' /\ logins =< logins'
    <3>1. CASE new = <<logins + 1, 0>> /\ logins' = logins + 1 /\ valid' = valid \union {new}
      <4>1. \A x \in Tokens : Seen(x) => x[1] # new[1]
        BY <3>1 DEF Descent, Descends, TypeOK, Tokens, Logins
      <4>2. \A v \in valid : v \in Tokens /\ Seen(v)
        BY DEF TypeOK, Seen
      <4> QED
        BY <3>1, <4>1, <4>2 DEF TypeOK
    <3>2. CASE /\ UNCHANGED logins
               /\ call[t][k][2] \in valid
               /\ new = <<call[t][k][2][1], call[t][k][2][2] + 1>>
               /\ valid' = (valid \ {call[t][k][2]}) \union {new}
      <4> DEFINE old == call[t][k][2]
      <4>1. old \in Tokens /\ Seen(old) /\ Descends(old)
        BY <3>2 DEF TypeOK, Seen, Descent
      <4>2. \A x \in Tokens : Seen(x) /\ x[1] = old[1] => x[2] =< old[2]
        BY <3>2 DEF Descent, Descends
      <4>3. \A v \in valid : v \in Tokens /\ Seen(v)
        BY DEF TypeOK, Seen
      <4>4. ASSUME NEW v \in valid, v[1] = old[1] PROVE v = old
        <5>1. v[2] =< old[2] /\ old[2] =< v[2]
          BY <4>1, <4>2, <4>3, <4>4 DEF Descends
        <5> QED
          BY <4>1, <4>3, <4>4, <5>1 DEF Tokens, Logins
      <4>5. new[1] = old[1] /\ new[2] = old[2] + 1 /\ old[2] \in Nat /\ old[1] =< logins
        BY <3>2, <4>1 DEF Tokens, Descends
      <4>6. \A x \in Tokens : x[2] \in Nat
        BY DEF Tokens
      <4> HIDE DEF old
      <4>7. \A x \in Tokens : Seen(x) /\ x[1] = new[1] => x[2] =< new[2]
        BY <4>2, <4>5, <4>6
      <4>8. valid' = (valid \ {old}) \union {new}
        BY <3>2 DEF old
      <4> QED
        BY <3>2, <4>4, <4>5, <4>7, <4>8 DEF TypeOK
    <3> QED
      BY <1>7, <3>1, <3>2 DEF Mints
  <2>2. ASSUME NEW x \in Tokens, Seen(x)' PROVE x = new \/ Seen(x)
    <3>1. CASE x = cookie' \/ x \in valid'
      BY <1>7, <3>1 DEF Mints, Seen
    <3>2. CASE \E u \in Tabs, j \in Kinds : call'[u][j][2] = x
      BY <1>7, <3>2, CallSet DEF Mints, TypeOK, Seen
    <3> QED
      BY <2>2, <3>1, <3>2 DEF Seen
  <2>3. ASSUME NEW x \in Tokens, Seen(x)' PROVE Descends(x)'
    <3>1. CASE x = new
      BY <2>1, <3>1 DEF Descends, Tokens
    <3>2. CASE Seen(x)
      <4>1. x[1] =< logins /\ \A v \in valid : v[1] = x[1] => x[2] =< v[2]
        BY <3>2 DEF Descent, Descends
      <4>2. x[1] =< logins'
        BY <2>1, <4>1, NextTypeOK DEF TypeOK, Tokens, Logins
      <4> QED
        BY <2>1, <3>2, <4>1, <4>2 DEF Descends
    <3> QED
      BY <2>2, <2>3, <3>1, <3>2
  <2> QED
    BY <2>3 DEF Descent
<1> QED
  BY <1>3, <1>4, <1>5, <1>6, <1>7, StepsOfTokens

\* Of one login, one token at a time is live.
THEOREM OneLiveToken == Spec => []OneTokenPerLogin
<1>1. Init => Descent
  BY InitDescent
<1>2. TypeOK /\ Descent => OneTokenPerLogin
  <2> SUFFICES ASSUME TypeOK, Descent, NEW a \in valid, NEW b \in valid, a[1] = b[1]
               PROVE  a = b
    BY DEF OneTokenPerLogin
  <2>1. a \in Tokens /\ b \in Tokens /\ Descends(a) /\ Descends(b)
    BY DEF TypeOK, Seen, Descent
  <2>2. a[2] =< b[2] /\ b[2] =< a[2]
    BY <2>1 DEF Descends
  <2> QED
    BY <2>1, <2>2 DEF Tokens
<1>3. TypeOK /\ Descent /\ [Next]_vars => Descent'
  BY NextDescent
<1> QED
  BY <1>1, <1>2, <1>3, TypeCorrect, PTL DEF Spec

-----------------------------------------------------------------------------
(* No dead cookie.                                                         *)

Answered(t, k) == call[t][k][1] = "answered"

\* What is on its way to the browser is live, and nowhere else.
Unspent ==
  \A t \in Tabs, k \in Kinds : Answered(t, k) /\ call[t][k][2] # None =>
    /\ call[t][k][2] \in valid
    /\ call[t][k][2] # cookie
    /\ \A u \in Tabs, j \in Kinds : u # t \/ j # k => call[u][j][2] # call[t][k][2]

\* Where a cookie is dead, another or none is on its way.
Alive ==
  \/ cookie = None
  \/ cookie \in valid
  \/ \E t \in Tabs, k \in Kinds : Answered(t, k) /\ (k = "logout" \/ call[t][k][2] # None)

Flawless == faults = 0 => Unspent /\ Alive

\* A token just made was seen nowhere.
LEMMA MintedIsNew ==
  ASSUME TypeOK, Descent, NEW t \in Tabs, NEW k \in Kinds, NEW new \in Tokens,
         Mints(t, k, new)
  PROVE  ~Seen(new)
<1>1. CASE new = <<logins + 1, 0>>
  BY <1>1 DEF Descent, Descends, TypeOK
<1>2. CASE call[t][k][2] \in valid /\ new = <<call[t][k][2][1], call[t][k][2][2] + 1>>
  <2>1. Seen(new) => new[2] =< call[t][k][2][2]
    BY <1>2 DEF Descent, Descends
  <2>2. call[t][k][2] \in Tokens
    BY <1>2 DEF TypeOK
  <2>3. new[2] = call[t][k][2][2] + 1 /\ call[t][k][2][2] \in Nat
    BY <1>2, <2>2 DEF Tokens
  <2> QED
    BY <2>1, <2>3
<1> QED
  BY <1>1, <1>2 DEF Mints

LEMMA NextFlawless ==
  ASSUME TypeOK, Descent, Flawless, [Next]_vars, faults' = 0
  PROVE  Unspent' /\ Alive'
<1>1. faults = 0
  BY StepsOfTokens DEF Sends, Mints, Refuses, Arrives, Disturbs, TypeOK
<1>2. Unspent /\ Alive
  BY <1>1 DEF Flawless
<1>3. ASSUME NEW t \in Tabs, NEW k \in Kinds, Sends(t, k) PROVE Unspent' /\ Alive'
  <2>1. /\ ~Answered(t, k)
        /\ call'[t][k] \in {<<"sent", None>>, <<"sent", cookie>>}
        /\ \A u \in Tabs, j \in Kinds : u # t \/ j # k => call'[u][j] = call[u][j]
        /\ UNCHANGED <<valid, cookie>>
    BY <1>3, CallSet DEF Sends, Answered, Idle, TypeOK
  <2> QED
    BY <1>2, <2>1 DEF Unspent, Alive, Answered
<1>4. ASSUME NEW t \in Tabs, NEW k \in Kinds, NEW new \in Tokens, Mints(t, k, new)
      PROVE  Unspent' /\ Alive'
  <2>1. /\ ~Answered(t, k)
        /\ call'[t][k] = <<"answered", new>>
        /\ \A u \in Tabs, j \in Kinds : u # t \/ j # k => call'[u][j] = call[u][j]
        /\ cookie' = cookie /\ new \in valid' /\ k # "logout"
        /\ \A v \in valid : v = call[t][k][2] \/ v \in valid'
    BY <1>4, CallSet DEF Mints, Answered, TypeOK
  <2>2. ~Seen(new) /\ new # None
    BY <1>4, MintedIsNew DEF Tokens, Logins, None, NoLogin
  <2>3. Unspent'
    BY <1>2, <2>1, <2>2 DEF Unspent, Answered, Seen
  <2>4. Alive'
    BY <2>1, <2>2 DEF Alive, Answered
  <2> QED
    BY <2>3, <2>4
<1>5. ASSUME NEW t \in Tabs, NEW k \in Kinds, Refuses(t, k) PROVE Unspent' /\ Alive'
  <2>1. /\ ~Answered(t, k)
        /\ call'[t][k] = <<"answered", None>>
        /\ \A u \in Tabs, j \in Kinds : u # t \/ j # k => call'[u][j] = call[u][j]
        /\ cookie' = cookie
        /\ \A v \in valid : v = call[t][k][2] \/ v \in valid'
        /\ valid' = valid \/ k = "logout"
    BY <1>5, CallSet DEF Refuses, Answered, TypeOK
  <2>2. Unspent'
    BY <1>2, <2>1 DEF Unspent, Answered
  <2>3. Alive'
    BY <1>2, <2>1 DEF Alive, Answered
  <2> QED
    BY <2>2, <2>3
<1>6. ASSUME NEW t \in Tabs, NEW k \in Kinds, Arrives(t, k) PROVE Unspent' /\ Alive'
  <2>1. /\ Answered(t, k)
        /\ call'[t][k] = <<"idle", None>>
        /\ \A u \in Tabs, j \in Kinds : u # t \/ j # k => call'[u][j] = call[u][j]
        /\ valid' = valid
    BY <1>6, CallSet DEF Arrives, Answered, Idle, TypeOK
  <2>2. CASE cookie' = None
    BY <1>2, <2>1, <2>2 DEF Unspent, Alive, Answered
  <2>3. CASE call[t][k][2] # None /\ cookie' = call[t][k][2]
    BY <1>2, <2>1, <2>3 DEF Unspent, Alive, Answered
  <2>4. CASE k # "logout" /\ call[t][k][2] = None /\ cookie' = cookie
    BY <1>2, <2>1, <2>4 DEF Unspent, Alive, Answered
  <2> QED
    BY <1>6, <2>2, <2>3, <2>4 DEF Arrives
<1>7. ASSUME Disturbs PROVE Unspent' /\ Alive'
  <2>1. /\ UNCHANGED <<valid, cookie>>
        /\ \A u \in Tabs, j \in Kinds : call'[u][j] \in {call[u][j], Idle, <<"sent", cookie>>}
        /\ \A u \in Tabs, j \in Kinds : Answered(u, j) => call'[u][j] = call[u][j]
    BY <1>7 DEF Disturbs, Answered, Idle
  <2>2. \A u \in Tabs, j \in Kinds : Answered(u, j)' => Answered(u, j) /\ call'[u][j] = call[u][j]
    BY <2>1 DEF Answered, Idle
  <2>3. \A u \in Tabs, j \in Kinds : call'[u][j][2] \in {call[u][j][2], None, cookie}
    BY <2>1 DEF Idle
  <2>4. Unspent'
    BY <1>2, <2>1, <2>2, <2>3 DEF Unspent
  <2>5. Alive'
    BY <1>2, <2>1 DEF Alive, Answered
  <2> QED
    BY <2>4, <2>5
<1> QED
  BY <1>3, <1>4, <1>5, <1>6, <1>7, StepsOfTokens

\* Without a fault, a browser at rest has no cookie that the service refuses.
THEOREM CookiesStayAlive == Spec => []NoDeadCookie
<1>1. Init => Descent
  BY InitDescent
<1>2. Init => Flawless
  <2>1. Init => \A t \in Tabs, k \in Kinds : ~Answered(t, k)
    BY DEF Init, Idle, Answered
  <2> QED
    BY <2>1 DEF Init, Flawless, Unspent, Alive
<1>3. TypeOK /\ Descent /\ [Next]_vars => Descent'
  BY NextDescent
<1>4. TypeOK /\ Descent /\ Flawless /\ [Next]_vars => Flawless'
  BY NextFlawless DEF Flawless
<1>5. Flawless => NoDeadCookie
  BY DEF Flawless, Alive, Answered, NoDeadCookie, Quiet, Idle
<1> QED
  BY <1>1, <1>2, <1>3, <1>4, <1>5, TypeCorrect, PTL DEF Spec

=============================================================================
