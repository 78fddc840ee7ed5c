------------------------- MODULE JwtSessionsProofs --------------------------
(* Theorems about JwtSessions for every value of its constants. *)
EXTENDS JwtSessions, TLAPS

-----------------------------------------------------------------------------
(* What a step makes of the call that takes it. *)

LEMMA Becomes ==
  ASSUME TypeOK, NEW c \in Calls, NEW st, Become(c, st)
  PROVE  call'[c] = st /\ \A d \in Calls \ {c} : call'[d] = call[d]
  BY DEF Become, TypeOK

LEMMA StepsAndHandlers ==
  /\ {"idle", "sign.access", "sign.refresh", "auths.delete", "auths.insert",
      "logout.delete", "refresh.find", "auths.select", "auths.update",
      "auths.reinsert", "secret.check", "code.verify", "user.select",
      "user.update"} \subseteq Steps
  /\ {"logout", "refresh", "gen-qr-code", "turn-off-2fa", "authenticate-2fa"} \subseteq Handlers
  BY DEF Steps, Handlers

LEMMA IdleCall == Idle \in CallState /\ Sound(Idle) /\ NoToken \in Tokens /\ NoEntity \in Entity
  BY DEF Idle, CallState, Steps, Entity, NoEntity, Sound, Tokens

LEMMA SignedToken ==
  ASSUME IInv, NEW c \in Calls, call[c].at # "idle", NEW type \in {"access", "refresh"}
  PROVE  signed(c, type) \in Tokens /\ signed(c, type).iat = now
<1>1. call[c].user \in Users /\ call[c].twoFa \in BOOLEAN /\ now \in Nat
  BY DEF IInv, Sound, TypeOK, CallState
<1> QED
  BY <1>1 DEF signed, Tokens, Token

LEMMA StartCall ==
  ASSUME IInv, NEW c \in Calls, Start(c)
  PROVE  \E st \in CallState : Sound(st) /\ Become(c, st)
<1>0. TypeOK
  BY DEF IInv
<1>1. ASSUME NEW u \in Users, Signin(c, u)
      PROVE  \E st \in CallState : Sound(st) /\ Become(c, st)
  <2> DEFINE st == [Idle EXCEPT !.at = "sign.access", !.handler = "signin", !.user = u,
                                !.twoFa = (users[u].enabled = "on")]
  <2>1. st \in CallState
    BY IdleCall, StepsAndHandlers DEF CallState
  <2>2. Sound(st)
    BY DEF Sound, Idle
  <2> QED
    BY <1>1, <2>1, <2>2 DEF Signin
<1>2. ASSUME NEW u \in Users, LoadOther(c, u)
      PROVE  \E st \in CallState : Sound(st) /\ Become(c, st)
  <2> DEFINE st == [Idle EXCEPT !.at = "user.select", !.handler = "other", !.user = u,
                                !.entity = users[u]]
  <2>1. users[u] \in Entity
    BY <1>0 DEF TypeOK, UserRow, Entity
  <2>2. st \in CallState
    BY <2>1, IdleCall, StepsAndHandlers DEF CallState
  <2>3. Sound(st)
    BY DEF Sound, Idle
  <2> QED
    BY <1>2, <2>2, <2>3 DEF LoadOther
<1>3. ASSUME NEW t \in Presentable, NEW handler \in Handlers, Validate(c, t, handler)
      PROVE  \E st \in CallState : Sound(st) /\ Become(c, st)
  <2> DEFINE e == Loaded(t.user, handler)
             step == FirstStep(handler)
             st == [Idle EXCEPT !.at = step, !.handler = handler, !.user = t.user,
                                !.presented = t, !.entity = e]
  <2>1. t \in Tokens /\ t.user \in Users
    BY <1>0 DEF Presentable, Tokens, Token, TypeOK
  <2>2. e \in Entity /\ (handler = "refresh" => e = NoEntity)
    BY <1>0, <2>1, IdleCall DEF TypeOK, UserRow, Entity, Loaded, Handlers
  <2>3. /\ step \in {"logout.delete", "refresh.find", "secret.check", "code.verify",
                     "user.select"}
        /\ step = "refresh.find" => handler = "refresh"
    BY DEF FirstStep, Handlers
  <2>4. Become(c, st)
    BY <1>3 DEF Validate
  <2> HIDE DEF e, step
  <2>5. st \in CallState
    BY <2>1, <2>2, <2>3, IdleCall, StepsAndHandlers DEF CallState
  <2>6. Sound(st)
    BY <2>1, <2>2, <2>3 DEF Sound, Idle
  <2> QED
    BY <2>4, <2>5, <2>6
<1> QED
  BY <1>1, <1>2, <1>3 DEF Start

LEMMA SigningCall ==
  ASSUME IInv, NEW c \in Calls,
         \/ SignAccess(c) \/ SignRefresh(c) \/ DeleteOld(c) \/ SelectAuth(c)
         \/ \E t \in Presentable : FindByRefreshToken(c, t)
  PROVE  \E st \in CallState : Sound(st) /\ Become(c, st)
<1>0. call[c] \in CallState /\ Sound(call[c]) /\ TypeOK
  BY DEF IInv, TypeOK
<1>1. CASE SignAccess(c)
  <2> DEFINE t == signed(c, "access")
             st == [call[c] EXCEPT !.at = "sign.refresh", !.access = t]
  <2>1. t \in Tokens
    BY <1>1, SignedToken DEF SignAccess
  <2>2. Become(c, st)
    BY <1>1 DEF SignAccess
  <2> HIDE DEF t
  <2>3. st \in CallState
    BY <1>0, <2>1, StepsAndHandlers DEF CallState
  <2>4. Sound(st)
    BY <1>0, <1>1 DEF Sound, SignAccess, CallState
  <2> QED
    BY <2>2, <2>3, <2>4
<1>2. CASE SignRefresh(c)
  <2> DEFINE t == signed(c, "refresh")
             step == IF call[c].handler = "refresh" THEN "auths.select" ELSE "auths.delete"
             st == [call[c] EXCEPT !.at = step, !.refresh = t, !.twoFa = FALSE]
  <2>1. t \in Tokens /\ step \in {"auths.select", "auths.delete"}
    BY <1>2, SignedToken DEF SignRefresh
  <2>2. Become(c, st)
    BY <1>2 DEF SignRefresh
  <2> HIDE DEF t, step
  <2>3. st \in CallState
    BY <1>0, <2>1, StepsAndHandlers DEF CallState
  <2>4. Sound(st)
    BY <1>0, <1>2, <2>1 DEF Sound, SignRefresh, CallState
  <2> QED
    BY <2>2, <2>3, <2>4
<1>3. CASE DeleteOld(c)
  <2>1. [call[c] EXCEPT !.at = "auths.insert"] \in CallState
    BY <1>0, StepsAndHandlers DEF CallState
  <2>2. Sound([call[c] EXCEPT !.at = "auths.insert"])
    BY <1>0, <1>3 DEF Sound, DeleteOld, CallState
  <2> QED
    BY <1>3, <2>1, <2>2 DEF DeleteOld, Goto
<1>4. CASE SelectAuth(c)
  <2> DEFINE row == auths[call[c].user]
  <2>1. /\ Differing(call[c].access, row.access, NoToken) \in Tokens
        /\ Differing(call[c].refresh, row.refresh, NoToken) \in Tokens
    BY <1>0, IdleCall DEF Differing, CallState
  <2>2. ASSUME NEW step \in {"auths.update", "auths.reinsert"},
               NEW a \in Tokens, NEW r \in Tokens
        PROVE  LET st == [call[c] EXCEPT !.at = step, !.access = a, !.refresh = r]
               IN st \in CallState /\ Sound(st)
    BY <1>0, <1>4, StepsAndHandlers DEF CallState, Sound, SelectAuth
  <2>3. CASE Goto(c, "auths.reinsert")
    <3>1. [call[c] EXCEPT !.at = "auths.reinsert"]
            = [call[c] EXCEPT !.at = "auths.reinsert", !.access = call[c].access,
                              !.refresh = call[c].refresh]
      BY <1>0 DEF CallState
    <3>2. call[c].access \in Tokens /\ call[c].refresh \in Tokens
      BY <1>0 DEF CallState
    <3> QED
      BY <2>2, <2>3, <3>1, <3>2 DEF Goto
  <2> QED
    BY <1>4, <2>1, <2>2, <2>3 DEF SelectAuth
<1>5. ASSUME NEW t \in Presentable, FindByRefreshToken(c, t)
      PROVE  \E st \in CallState : Sound(st) /\ Become(c, st)
  <2> DEFINE id == auths[t.user].id
             st == [call[c] EXCEPT !.at = "sign.access", !.user = t.user, !.presented = t,
                                   !.twoFa = t.twoFa, !.id = id]
  <2>1. t \in Tokens /\ t.user \in Users /\ t.twoFa \in BOOLEAN
    BY <1>0 DEF Presentable, Tokens, Token, TypeOK
  <2>2. id \in Ids \cup {None}
    BY <1>0, <2>1 DEF TypeOK, AuthRow
  <2>3. Become(c, st)
    BY <1>5 DEF FindByRefreshToken
  <2> HIDE DEF id
  <2>4. st \in CallState
    BY <1>0, <2>1, <2>2, StepsAndHandlers DEF CallState
  <2>5. Sound(st)
    BY <1>0, <1>5, <2>1 DEF Sound, FindByRefreshToken, CallState
  <2> QED
    BY <2>3, <2>4, <2>5
<1> QED
  BY <1>1, <1>2, <1>3, <1>4, <1>5

LEMMA SecretCall ==
  ASSUME IInv, NEW c \in Calls,
         \/ \E s \in Secrets : GenerateSecret(c, s)
         \/ VerifyCode(c) \/ SelectUser(c) \/ UpdateUser(c)
  PROVE  \E st \in CallState : Sound(st) /\ Become(c, st)
<1>0. call[c] \in CallState /\ Sound(call[c]) /\ TypeOK /\ call[c].entity \in Entity
  BY DEF IInv, TypeOK, CallState
<1>1. ASSUME NEW step \in {"user.select", "user.update"}, NEW e \in Entity,
             call[c].at # "idle"
      PROVE  LET st == [call[c] EXCEPT !.at = step, !.entity = e]
             IN st \in CallState /\ Sound(st)
  BY <1>0, <1>1, StepsAndHandlers DEF CallState, Sound
<1>2. ASSUME NEW s \in Secrets, GenerateSecret(c, s)
      PROVE  \E st \in CallState : Sound(st) /\ Become(c, st)
  <2>1. [call[c].entity EXCEPT !.secret = s] \in Entity
    BY <1>0 DEF Entity
  <2> QED
    BY <1>1, <1>2, <2>1 DEF GenerateSecret
<1>3. CASE VerifyCode(c)
  <2>1. [call[c].entity EXCEPT !.enabled = "on"] \in Entity
    BY <1>0 DEF Entity
  <2> QED
    BY <1>1, <1>3, <2>1 DEF VerifyCode
<1>4. CASE SelectUser(c)
  <2> DEFINE row == users[call[c].user]
  <2>1. [secret |-> Differing(call[c].entity.secret, row.secret, NotLoaded),
         enabled |-> Differing(call[c].entity.enabled, row.enabled, NotLoaded)] \in Entity
    BY <1>0 DEF Entity, Differing
  <2> QED
    BY <1>1, <1>4, <2>1 DEF SelectUser
<1>5. CASE UpdateUser(c)
  <2> DEFINE st == [Idle EXCEPT !.at = "sign.access", !.user = call[c].user,
                                !.handler = "authenticate-2fa", !.twoFa = TRUE]
  <2>1. call[c].user \in Users
    BY <1>0, <1>5 DEF Sound, UpdateUser
  <2>2. st \in CallState
    BY <2>1, IdleCall, StepsAndHandlers DEF CallState
  <2>3. Sound(st)
    BY <2>1 DEF Sound, Idle
  <2> QED
    BY <1>5, <2>2, <2>3, IdleCall DEF UpdateUser
<1> QED
  BY <1>2, <1>3, <1>4, <1>5

LEMMA CallSteps ==
  ASSUME IInv, NEW c \in Calls, Start(c) \/ Advance(c) \/ Abort(c)
  PROVE  \E st \in CallState : Sound(st) /\ Become(c, st)
<1>1. ASSUME \/ \E id \in Ids : CreateAuth(c, id)
             \/ Logout(c) \/ UpdateAuth(c) \/ ReinsertAuth(c) \/ Abort(c)
      PROVE  Become(c, Idle)
  BY <1>1 DEF CreateAuth, Logout, UpdateAuth, ReinsertAuth, Abort, Finish
<1> QED
  BY <1>1, IdleCall, StartCall, SigningCall, SecretCall DEF Advance

-----------------------------------------------------------------------------
(* The tables keep their types. *)

LEMMA UsersStep ==
  ASSUME IInv, NEW c \in Calls, Start(c) \/ Advance(c) \/ Abort(c)
  PROVE  UNCHANGED users \/ UpdateUser(c)
<1>1. CASE Start(c)
  BY <1>1 DEF Start, Signin, LoadOther, Validate
<1>2. CASE Advance(c)
  BY <1>2 DEF Advance, SignAccess, SignRefresh, DeleteOld, CreateAuth, Logout,
              FindByRefreshToken, SelectAuth, UpdateAuth, ReinsertAuth, GenerateSecret,
              VerifyCode, SelectUser
<1> QED
  BY <1>1, <1>2 DEF Abort

LEMMA AuthsStep ==
  ASSUME IInv, NEW c \in Calls, Start(c) \/ Advance(c) \/ Abort(c)
  PROVE  \/ UNCHANGED auths
         \/ DeleteAuth(c) /\ (DeleteOld(c) \/ Logout(c))
         \/ \E id \in Ids : CreateAuth(c, id)
         \/ UpdateAuth(c) \/ ReinsertAuth(c)
<1>1. CASE Start(c)
  BY <1>1 DEF Start, Signin, LoadOther, Validate
<1>2. CASE Advance(c)
  BY <1>2 DEF Advance, SignAccess, SignRefresh, DeleteOld, Logout, FindByRefreshToken,
              SelectAuth, GenerateSecret, VerifyCode, SelectUser, UpdateUser
<1> QED
  BY <1>1, <1>2 DEF Abort

LEMMA UsersTyped ==
  ASSUME IInv, NEW c \in Calls, Start(c) \/ Advance(c) \/ Abort(c)
  PROVE  users' \in [Users -> UserRow]
<1>0. users \in [Users -> UserRow] /\ call[c].entity \in Entity
  BY DEF IInv, TypeOK, CallState
<1>1. CASE UpdateUser(c)
  <2> DEFINE old == users[call[c].user]
             e == call[c].entity
             row == [secret |-> Written(e.secret, old.secret, NotLoaded),
                     enabled |-> Written(e.enabled, old.enabled, NotLoaded)]
  <2>1. e \in Entity /\ old \in UserRow
    BY <1>0, <1>1 DEF UpdateUser, IInv, Sound
  <2>2. users' = [users EXCEPT ![call[c].user] = row]
    BY <1>1 DEF UpdateUser
  <2> HIDE DEF e, old
  <2>3. row \in UserRow
    BY <2>1 DEF UserRow, Entity, Written
  <2> HIDE DEF row
  <2> QED
    BY <1>0, <2>2, <2>3
<1> QED
  BY <1>0, <1>1, UsersStep

LEMMA AuthsTyped ==
  ASSUME IInv, NEW c \in Calls, Start(c) \/ Advance(c) \/ Abort(c)
  PROVE  auths' \in [Users -> AuthRow]
<1>0. /\ auths \in [Users -> AuthRow] /\ call[c].id \in Ids \cup {None}
      /\ call[c].access \in Tokens /\ call[c].refresh \in Tokens
  BY DEF IInv, TypeOK, CallState
<1>1. ASSUME NEW row \in AuthRow, auths' = [auths EXCEPT ![call[c].user] = row]
      PROVE  auths' \in [Users -> AuthRow]
  BY <1>0, <1>1
<1>2. NoAuth \in AuthRow
  BY IdleCall DEF NoAuth, AuthRow
<1>3. \A id \in Ids \cup {None}, a \in Tokens, r \in Tokens :
         [id |-> id, access |-> a, refresh |-> r] \in AuthRow
  BY DEF AuthRow
<1>4. CASE DeleteAuth(c)
  BY <1>1, <1>2, <1>4 DEF DeleteAuth
<1>5. CASE \E id \in Ids : CreateAuth(c, id)
  BY <1>0, <1>1, <1>3, <1>5 DEF CreateAuth
<1>6. CASE ReinsertAuth(c)
  BY <1>0, <1>1, <1>3, <1>6 DEF ReinsertAuth
<1>7. CASE UpdateAuth(c)
  <2>1. auths[call[c].user] \in AuthRow
    BY <1>0, <1>7 DEF UpdateAuth, IInv, Sound
  <2>2. /\ auths[call[c].user].id \in Ids \cup {None}
        /\ Written(call[c].access, auths[call[c].user].access, NoToken) \in Tokens
        /\ Written(call[c].refresh, auths[call[c].user].refresh, NoToken) \in Tokens
    BY <1>0, <2>1 DEF AuthRow, Written
  <2> QED
    BY <1>1, <1>3, <1>7, <2>1, <2>2 DEF UpdateAuth
<1> QED
  BY <1>0, <1>4, <1>5, <1>6, <1>7, AuthsStep

LEMMA NextIInv == IInv /\ [Next]_vars => IInv'
<1> SUFFICES ASSUME IInv, [Next]_vars
             PROVE  IInv'
  OBVIOUS
<1>1. ASSUME NEW c \in Calls, Start(c) \/ Advance(c) \/ Abort(c)
      PROVE  IInv'
  <2>1. PICK st \in CallState : Sound(st) /\ Become(c, st)
    BY <1>1, CallSteps
  <2>2. /\ call' \in [Calls -> CallState]
        /\ \A d \in Calls : call'[d] = IF d = c THEN st ELSE call[d]
    BY <2>1 DEF Become, IInv, TypeOK
  <2>3. UNCHANGED now
    BY <1>1 DEF Start, Signin, LoadOther, Validate, Advance, SignAccess, SignRefresh,
                DeleteOld, CreateAuth, Logout, FindByRefreshToken, SelectAuth, UpdateAuth,
                ReinsertAuth, GenerateSecret, VerifyCode, SelectUser, UpdateUser, Abort
  <2>4. TypeOK'
    BY <1>1, <2>2, <2>3, UsersTyped, AuthsTyped DEF IInv, TypeOK
  <2>5. ASSUME NEW d \in Calls
        PROVE  Sound(call'[d])
    BY <2>1, <2>2 DEF IInv
  <2> QED
    BY <2>4, <2>5 DEF IInv
<1>2. CASE Tick
  BY <1>2 DEF Tick, IInv, TypeOK
<1>3. CASE UNCHANGED vars
  BY <1>3 DEF vars, IInv, TypeOK
<1> QED
  BY <1>1, <1>2, <1>3 DEF Next

LEMMA InitIInv == Init => IInv
<1>1. NoAuth \in AuthRow
  BY IdleCall DEF NoAuth, AuthRow
<1>2. [secret |-> None, enabled |-> "off"] \in UserRow
  BY DEF UserRow
<1> QED
  BY <1>1, <1>2, IdleCall DEF Init, IInv, TypeOK

LEMMA Inductive == Spec => []IInv
  BY InitIInv, NextIInv, PTL DEF Spec

(* Every variable keeps its type. *)
THEOREM TypeCorrect == Spec => []TypeOK
<1>1. IInv => TypeOK
  BY DEF IInv
<1> QED
  BY <1>1, Inductive, PTL

-----------------------------------------------------------------------------
(* What a step changes of the call that takes it. *)

LEMMA StepOf ==
  ASSUME IInv, NEW c \in Calls, Start(c) \/ Advance(c) \/ Abort(c)
  PROVE  \A d \in Calls \ {c} : call'[d] = call[d]
  BY CallSteps, Becomes DEF IInv

(* A call goes on for its user, or starts with a signin, a token that is    *)
(* stored, or without storing any.                                          *)
LEMMA StoringCalls ==
  ASSUME IInv, NEW c \in Calls, Start(c) \/ Advance(c) \/ Abort(c),
         NEW u \in Users, auths[u] = NoAuth, call'[c].user = u, Storing(c)'
  PROVE  (Storing(c) /\ call[c].user = u) \/ call'[c].handler = "signin"
<1>0. TypeOK /\ call[c] \in CallState
  BY DEF IInv, TypeOK
<1> DEFINE Justified(st) ==
      st.user = u /\ st.handler \in {"signin", "refresh", "authenticate-2fa"}
      => (Storing(c) /\ call[c].user = u) \/ st.handler = "signin"
<1>1. ASSUME NEW st, Become(c, st), Justified(st)
      PROVE  (Storing(c) /\ call[c].user = u) \/ call'[c].handler = "signin"
  BY <1>0, <1>1, Becomes DEF Storing
<1>2. Justified(Idle)
  BY DEF Idle
<1>3. ASSUME NEW t \in Presentable
      PROVE  auths[u].access # t /\ auths[u].refresh # t
  BY DEF NoAuth, NoToken, Presentable
<1>4. CASE Start(c)
  <2>1. ASSUME NEW v \in Users, Signin(c, v) \/ LoadOther(c, v)
        PROVE  (Storing(c) /\ call[c].user = u) \/ call'[c].handler = "signin"
    BY <1>1, <2>1 DEF Signin, LoadOther, Idle
  <2>2. ASSUME NEW t \in Presentable, NEW handler \in Handlers, Validate(c, t, handler)
        PROVE  call'[c].user # u
    <3>1. t.user # u
      BY <1>3, <2>2 DEF Validate
    <3>2. call'[c].user = t.user
      <4>1. call'[c] = [Idle EXCEPT !.at = FirstStep(handler), !.handler = handler,
                                    !.user = t.user, !.presented = t,
                                    !.entity = Loaded(t.user, handler)]
        BY <1>0, <2>2, Becomes DEF Validate
      <4> QED
        BY <4>1 DEF Idle
    <3> QED
      BY <3>1, <3>2
  <2> QED
    BY <1>4, <2>1, <2>2 DEF Start
<1>5. ASSUME NEW t \in Presentable, FindByRefreshToken(c, t)
      PROVE  call'[c].user # u
  <2>1. t.user # u
    BY <1>3, <1>5 DEF FindByRefreshToken
  <2>2. call'[c] = [call[c] EXCEPT !.at = "sign.access", !.user = t.user, !.presented = t,
                                   !.twoFa = t.twoFa, !.id = auths[t.user].id]
    BY <1>0, <1>5, Becomes DEF FindByRefreshToken
  <2> QED
    BY <1>0, <2>1, <2>2 DEF CallState
<1>6. CASE SignAccess(c) \/ SignRefresh(c) \/ DeleteOld(c)
  BY <1>0, <1>1, <1>6 DEF SignAccess, SignRefresh, DeleteOld, Goto, CallState, Storing
<1>7. CASE SelectAuth(c)
  BY <1>0, <1>1, <1>7 DEF SelectAuth, Goto, CallState, Storing
<1>8. CASE \/ \E id \in Ids : CreateAuth(c, id)
           \/ Logout(c) \/ UpdateAuth(c) \/ ReinsertAuth(c) \/ Abort(c)
  BY <1>1, <1>2, <1>8 DEF CreateAuth, Logout, UpdateAuth, ReinsertAuth, Abort, Finish
<1>9. CASE VerifyCode(c) \/ SelectUser(c) \/ \E s \in Secrets : GenerateSecret(c, s)
  BY <1>0, <1>1, <1>9 DEF VerifyCode, SelectUser, GenerateSecret, CallState, Storing
<1>10. CASE UpdateUser(c)
  BY <1>0, <1>1, <1>2, <1>10 DEF UpdateUser, Idle, Storing
<1> QED
  BY <1>4, <1>5, <1>6, <1>7, <1>8, <1>9, <1>10 DEF Advance

(* A user who is logged out stays so until the next signin. *)
THEOREM LoggedOutStays == Spec => LoggedOutUntilSignin
<1> DEFINE Stays(u) ==
      /\ auths'[u] = NoAuth
      /\ \/ LoggedOut(u)'
         \/ \E c \in Calls : call'[c].user = u /\ call'[c].handler = "signin"
<1>1. ASSUME IInv, NEW u \in Users, LoggedOut(u),
             NEW c \in Calls, Start(c) \/ Advance(c) \/ Abort(c)
      PROVE  Stays(u)
  <2>0. TypeOK /\ Sound(call[c])
    BY <1>1 DEF IInv
  <2>1. auths'[u] = NoAuth
    <3>1. CASE DeleteAuth(c)
      BY <1>1, <2>0, <3>1 DEF DeleteAuth, LoggedOut, TypeOK
    <3>2. CASE (\E id \in Ids : CreateAuth(c, id)) \/ UpdateAuth(c) \/ ReinsertAuth(c)
      <4>1. call[c].user # u
        BY <1>1, <2>0, <3>2 DEF CreateAuth, UpdateAuth, ReinsertAuth, Sound, LoggedOut, Storing
      <4> QED
        BY <1>1, <2>0, <3>2, <4>1 DEF CreateAuth, UpdateAuth, ReinsertAuth, LoggedOut, TypeOK
    <3> QED
      BY <1>1, <3>1, <3>2, AuthsStep DEF LoggedOut
  <2>2. ASSUME NEW d \in Calls, call'[d].user = u, Storing(d)'
        PROVE  call'[d].handler = "signin"
    <3>1. CASE d = c
      BY <1>1, <2>2, <3>1, StoringCalls DEF LoggedOut
    <3>2. CASE d # c
      BY <1>1, <2>2, <3>2, StepOf DEF LoggedOut, Storing
    <3> QED
      BY <3>1, <3>2
  <2> QED
    BY <2>1, <2>2 DEF LoggedOut
<1>2. ASSUME NEW u \in Users, LoggedOut(u), UNCHANGED <<auths, call>>
      PROVE  Stays(u)
  BY <1>2 DEF LoggedOut, Storing
<1>3. IInv /\ [Next]_vars => [\A u \in Users : LoggedOut(u) => Stays(u)]_vars
  BY <1>1, <1>2 DEF Next, Tick, vars
<1> QED
  BY <1>3, Inductive, PTL DEF Spec, LoggedOutUntilSignin

-----------------------------------------------------------------------------
(* The tokens a call holds are those it held, those of a row, or signed now. *)
Known(t, c) ==
  \/ t = NoToken \/ t.iat = now
  \/ t \in {call[c].access, call[c].refresh, call[c].presented}
  \/ \E u \in Users : t \in {auths[u].access, auths[u].refresh}

KnownTokens(st, c) == Known(st.access, c) /\ Known(st.refresh, c) /\ Known(st.presented, c)

LEMMA TokensOfCall ==
  ASSUME IInv, NEW c \in Calls, Start(c) \/ Advance(c) \/ Abort(c)
  PROVE  KnownTokens(call'[c], c)
<1>0. TypeOK /\ call[c] \in CallState
  BY DEF IInv, TypeOK
<1>1. ASSUME NEW st, Become(c, st), KnownTokens(st, c)
      PROVE  KnownTokens(call'[c], c)
  BY <1>0, <1>1, Becomes
<1>2. Known(NoToken, c) /\ KnownTokens(Idle, c) /\ KnownTokens(call[c], c)
  BY DEF Known, KnownTokens, Idle
<1>3. ASSUME NEW st, st.access = call[c].access, st.refresh = call[c].refresh,
             st.presented = call[c].presented
      PROVE  KnownTokens(st, c)
  BY <1>2, <1>3 DEF KnownTokens
<1>4. CASE Start(c)
  <2>1. ASSUME NEW u \in Users, Signin(c, u) \/ LoadOther(c, u)
        PROVE  KnownTokens(call'[c], c)
    BY <1>1, <1>2, <2>1 DEF Signin, LoadOther, Idle, KnownTokens
  <2>2. ASSUME NEW t \in Presentable, NEW handler \in Handlers, Validate(c, t, handler)
        PROVE  KnownTokens(call'[c], c)
    <3> DEFINE st == [Idle EXCEPT !.at = FirstStep(handler), !.handler = handler,
                                  !.user = t.user, !.presented = t,
                                  !.entity = Loaded(t.user, handler)]
    <3>1. t.user \in Users /\ auths[t.user].access = t
      BY <2>2 DEF Validate, Presentable
    <3>2. Known(t, c)
      BY <3>1 DEF Known
    <3>3. st.access = NoToken /\ st.refresh = NoToken /\ st.presented = t
      BY DEF Idle
    <3>4. Become(c, st)
      BY <2>2 DEF Validate
    <3> HIDE DEF st
    <3> QED
      BY <1>1, <1>2, <3>2, <3>3, <3>4 DEF KnownTokens
  <2> QED
    BY <1>4, <2>1, <2>2 DEF Start
<1>5. CASE SignAccess(c)
  <2> DEFINE t == signed(c, "access")
             st == [call[c] EXCEPT !.at = "sign.refresh", !.access = t]
  <2>1. Known(t, c)
    BY <1>5, SignedToken DEF SignAccess, Known
  <2>2. st.access = t /\ st.refresh = call[c].refresh /\ st.presented = call[c].presented
    BY <1>0 DEF CallState
  <2>3. Become(c, st)
    BY <1>5 DEF SignAccess
  <2> HIDE DEF st, t
  <2> QED
    BY <1>1, <1>2, <2>1, <2>2, <2>3 DEF KnownTokens
<1>6. CASE SignRefresh(c)
  <2> DEFINE t == signed(c, "refresh")
             step == IF call[c].handler = "refresh" THEN "auths.select" ELSE "auths.delete"
             st == [call[c] EXCEPT !.at = step, !.refresh = t, !.twoFa = FALSE]
  <2>1. Known(t, c)
    BY <1>6, SignedToken DEF SignRefresh, Known
  <2>2. Become(c, st)
    BY <1>6 DEF SignRefresh
  <2> HIDE DEF step, t
  <2>3. st.access = call[c].access /\ st.refresh = t /\ st.presented = call[c].presented
    BY <1>0 DEF CallState
  <2> HIDE DEF st
  <2> QED
    BY <1>1, <1>2, <2>1, <2>2, <2>3 DEF KnownTokens
<1>7. CASE SelectAuth(c)
  <2> DEFINE row == auths[call[c].user]
             a == Differing(call[c].access, row.access, NoToken)
             r == Differing(call[c].refresh, row.refresh, NoToken)
             st == [call[c] EXCEPT !.at = "auths.update", !.access = a, !.refresh = r]
  <2>1. Known(a, c) /\ Known(r, c)
    BY <1>2 DEF Differing, KnownTokens
  <2>2. Become(c, st) \/ Goto(c, "auths.reinsert")
    BY <1>7 DEF SelectAuth
  <2> HIDE DEF a, r
  <2>3. st.access = a /\ st.refresh = r /\ st.presented = call[c].presented
    BY <1>0 DEF CallState
  <2>4. CASE Goto(c, "auths.reinsert")
    BY <1>0, <1>1, <1>3, <2>4 DEF Goto, CallState
  <2> HIDE DEF st
  <2> QED
    BY <1>1, <1>2, <2>1, <2>2, <2>3, <2>4 DEF KnownTokens
<1>8. ASSUME NEW t \in Presentable, FindByRefreshToken(c, t)
      PROVE  KnownTokens(call'[c], c)
  <2> DEFINE st == [call[c] EXCEPT !.at = "sign.access", !.user = t.user, !.presented = t,
                                   !.twoFa = t.twoFa, !.id = auths[t.user].id]
  <2>1. t.user \in Users /\ auths[t.user].refresh = t
    BY <1>8 DEF FindByRefreshToken, Presentable
  <2>2. Known(t, c)
    BY <2>1 DEF Known
  <2>3. st.access = call[c].access /\ st.refresh = call[c].refresh /\ st.presented = t
    BY <1>0 DEF CallState
  <2>4. Become(c, st)
    BY <1>8 DEF FindByRefreshToken
  <2> HIDE DEF st
  <2> QED
    BY <1>1, <1>2, <2>2, <2>3, <2>4 DEF KnownTokens
<1>9. CASE DeleteOld(c) \/ VerifyCode(c) \/ SelectUser(c)
  BY <1>0, <1>1, <1>3, <1>9 DEF DeleteOld, VerifyCode, SelectUser, Goto, CallState
<1>10. CASE \E s \in Secrets : GenerateSecret(c, s)
  BY <1>0, <1>1, <1>3, <1>10 DEF GenerateSecret, CallState
<1>11. CASE \/ \E id \in Ids : CreateAuth(c, id)
            \/ Logout(c) \/ UpdateAuth(c) \/ ReinsertAuth(c) \/ Abort(c)
  BY <1>1, <1>2, <1>11 DEF CreateAuth, Logout, UpdateAuth, ReinsertAuth, Abort, Finish
<1>12. CASE UpdateUser(c)
  BY <1>1, <1>2, <1>12 DEF UpdateUser, Idle, KnownTokens
<1> QED
  BY <1>4, <1>5, <1>6, <1>7, <1>8, <1>9, <1>10, <1>11, <1>12 DEF Advance

(* The tokens a row gets are those it had, or a call held.                  *)
LEMMA TokensOfRow ==
  ASSUME IInv, NEW c \in Calls, Start(c) \/ Advance(c) \/ Abort(c), NEW u \in Users
  PROVE  Known(auths'[u].access, c) /\ Known(auths'[u].refresh, c)
<1>0. auths \in [Users -> AuthRow] /\ Known(auths[u].access, c) /\ Known(auths[u].refresh, c)
  BY DEF IInv, TypeOK, Known
<1>1. /\ Known(call[c].access, c) /\ Known(call[c].refresh, c)
      /\ Known(NoAuth.access, c) /\ Known(NoAuth.refresh, c)
  BY DEF Known, NoAuth
<1>2. CASE DeleteAuth(c)
  BY <1>0, <1>1, <1>2 DEF DeleteAuth
<1>3. CASE (\E id \in Ids : CreateAuth(c, id)) \/ ReinsertAuth(c)
  <2>1. PICK id : auths' = [auths EXCEPT ![call[c].user] =
                              [id |-> id, access |-> call[c].access,
                               refresh |-> call[c].refresh]]
    BY <1>3 DEF CreateAuth, ReinsertAuth
  <2>2. auths'[u] = auths[u] \/ (/\ auths'[u].access = call[c].access
                                /\ auths'[u].refresh = call[c].refresh)
    BY <1>0, <2>1
  <2> QED
    BY <1>0, <1>1, <2>2
<1>4. CASE UpdateAuth(c)
  BY <1>0, <1>1, <1>4 DEF UpdateAuth, Written
<1> QED
  BY <1>0, <1>2, <1>3, <1>4, AuthsStep

(* A token that another pair has replaced is never accepted or stored again. *)
THEOREM SupersededStays == Spec => SupersededIsFinal
<1> DEFINE tok(type, u, iat, twoFa) == [type |-> type, user |-> u, iat |-> iat, twoFa |-> twoFa]
<1>1. ASSUME IInv, NEW t, t # NoToken, Superseded(t),
             NEW c \in Calls, Start(c) \/ Advance(c) \/ Abort(c)
      PROVE  ~InUse(t)'
  <2>1. ~Known(t, c)
    BY <1>1 DEF Known, Superseded, InUse, IInv, TypeOK
  <2>2. \A u \in Users : t \notin {auths'[u].access, auths'[u].refresh}
    BY <1>1, <2>1, TokensOfRow
  <2>3. t \notin {call'[c].access, call'[c].refresh, call'[c].presented}
    BY <1>1, <2>1, TokensOfCall DEF KnownTokens
  <2>4. \A d \in Calls \ {c} : t \notin {call'[d].access, call'[d].refresh, call'[d].presented}
    BY <1>1, StepOf DEF Superseded, InUse
  <2> QED
    BY <2>2, <2>3, <2>4 DEF InUse
<1>2. ASSUME IInv, [Next]_vars, NEW t, t # NoToken, t.iat \in Nat, Superseded(t)
      PROVE  Superseded(t)'
  <2>1. UNCHANGED <<auths, call>> => ~InUse(t)'
    BY <1>2 DEF Superseded, InUse
  <2>2. ~InUse(t)'
    BY <1>1, <1>2, <2>1 DEF Next, Tick, vars
  <2>3. now' \in {now, now + 1} /\ now \in Nat
    BY <1>2 DEF IInv, TypeOK, Next, Tick, vars, Start, Signin, LoadOther, Validate, Advance,
                SignAccess, SignRefresh, DeleteOld, CreateAuth, Logout, FindByRefreshToken,
                SelectAuth, UpdateAuth, ReinsertAuth, GenerateSecret, VerifyCode, SelectUser,
                UpdateUser, Abort
  <2>4. t.iat < now'
    BY <1>2, <2>3 DEF Superseded
  <2> QED
    BY <2>2, <2>4 DEF Superseded
<1>3. ASSUME IInv, [Next]_vars, NEW u \in Users, NEW type \in {"access", "refresh"},
             NEW iat \in 0..MaxTime, NEW twoFa \in BOOLEAN, Superseded(tok(type, u, iat, twoFa))
      PROVE  Superseded(tok(type, u, iat, twoFa))'
  <2>1. tok(type, u, iat, twoFa) # NoToken /\ tok(type, u, iat, twoFa).iat \in Nat
    BY JwtAssumption DEF NoToken
  <2> QED
    BY <1>2, <1>3, <2>1
<1>4. IInv /\ [Next]_vars =>
        [\A u \in Users, type \in {"access", "refresh"}, iat \in 0..MaxTime, twoFa \in BOOLEAN :
            LET t == [type |-> type, user |-> u, iat |-> iat, twoFa |-> twoFa]
            IN Superseded(t) => Superseded(t)']_vars
  BY <1>3
<1> QED
  BY <1>4, Inductive, PTL DEF Spec, SupersededIsFinal

-----------------------------------------------------------------------------
(* The entity a call holds of u when the second factor of u is on. *)
AsStored(st, u) ==
  /\ st.entity.secret \in {NotLoaded, users[u].secret}
  /\ st.entity.enabled \in {NotLoaded, "on"}

LEMMA EntityOfCall ==
  ASSUME IInv, NEW c \in Calls, Start(c) \/ Advance(c) \/ Abort(c),
         NEW u \in Users, SecondFactorOn(u), call'[c].user = u
  PROVE  AsStored(call'[c], u) \/ call'[c].handler = "turn-off-2fa"
<1>0. TypeOK /\ Sound(call[c]) /\ call[c] \in CallState /\ call[c].entity \in Entity
  BY DEF IInv, TypeOK, CallState
<1> DEFINE Fine(st) == st.user = u => AsStored(st, u) \/ st.handler = "turn-off-2fa"
<1>1. ASSUME NEW st, Become(c, st), Fine(st)
      PROVE  AsStored(call'[c], u) \/ call'[c].handler = "turn-off-2fa"
  BY <1>0, <1>1, Becomes
<1>2. /\ users[u].enabled = "on"
      /\ call[c].user = u => call[c].handler # "turn-off-2fa" /\ AsStored(call[c], u)
  BY DEF SecondFactorOn, TurningOff, AsStored
<1>3. \A st : st.entity = NoEntity \/ st.entity = users[u] => AsStored(st, u)
  BY <1>2 DEF AsStored, NoEntity
<1>4. Fine(Idle)
  BY <1>3 DEF Idle
<1>5. CASE Start(c)
  <2>1. ASSUME NEW v \in Users, Signin(c, v) \/ LoadOther(c, v)
        PROVE  AsStored(call'[c], u) \/ call'[c].handler = "turn-off-2fa"
    BY <1>1, <1>3, <2>1 DEF Signin, LoadOther, Idle
  <2>2. ASSUME NEW t \in Presentable, NEW handler \in Handlers, Validate(c, t, handler)
        PROVE  AsStored(call'[c], u) \/ call'[c].handler = "turn-off-2fa"
    <3> DEFINE e == Loaded(t.user, handler)
               st == [Idle EXCEPT !.at = FirstStep(handler), !.handler = handler,
                                  !.user = t.user, !.presented = t, !.entity = e]
    <3>1. Become(c, st)
      BY <2>2 DEF Validate
    <3>2. handler = "turn-off-2fa" \/ e \in {NoEntity, users[t.user]}
      BY DEF Loaded
    <3> HIDE DEF e
    <3>3. st.user = t.user /\ st.handler = handler /\ st.entity = e
      BY DEF Idle
    <3> HIDE DEF st
    <3> QED
      BY <1>1, <1>3, <3>1, <3>2, <3>3
  <2> QED
    BY <1>5, <2>1, <2>2 DEF Start
<1>6. ASSUME NEW t \in Presentable, FindByRefreshToken(c, t)
      PROVE  AsStored(call'[c], u) \/ call'[c].handler = "turn-off-2fa"
  <2> DEFINE st == [call[c] EXCEPT !.at = "sign.access", !.user = t.user, !.presented = t,
                                   !.twoFa = t.twoFa, !.id = auths[t.user].id]
  <2>1. Become(c, st)
    BY <1>6 DEF FindByRefreshToken
  <2>2. st.entity = NoEntity
    BY <1>0, <1>6 DEF Sound, FindByRefreshToken, CallState
  <2> HIDE DEF st
  <2> QED
    BY <1>1, <1>3, <2>1, <2>2
<1>7. CASE SignAccess(c) \/ SignRefresh(c) \/ DeleteOld(c)
  BY <1>0, <1>1, <1>2, <1>7
     DEF SignAccess, SignRefresh, DeleteOld, Goto, CallState, AsStored
<1>8. CASE SelectAuth(c)
  BY <1>0, <1>1, <1>2, <1>8 DEF SelectAuth, Goto, CallState, AsStored
<1>9. CASE \/ \E id \in Ids : CreateAuth(c, id)
           \/ Logout(c) \/ UpdateAuth(c) \/ ReinsertAuth(c) \/ Abort(c)
  BY <1>1, <1>4, <1>9 DEF CreateAuth, Logout, UpdateAuth, ReinsertAuth, Abort, Finish
<1>10. ASSUME NEW s \in Secrets, GenerateSecret(c, s)
       PROVE  call'[c].user # u
  <2>1. call[c].user # u
    BY <1>2, <1>10 DEF GenerateSecret
  <2>2. call'[c] = [call[c] EXCEPT !.at = "user.select",
                                   !.entity = [call[c].entity EXCEPT !.secret = s]]
    BY <1>0, <1>10, Becomes DEF GenerateSecret
  <2> QED
    BY <1>0, <2>1, <2>2 DEF CallState
<1>11. CASE VerifyCode(c)
  BY <1>0, <1>1, <1>2, <1>11 DEF VerifyCode, CallState, AsStored, Entity
<1>12. CASE SelectUser(c)
  BY <1>0, <1>1, <1>2, <1>12 DEF SelectUser, CallState, AsStored, Differing
<1>13. CASE UpdateUser(c)
  BY <1>1, <1>3, <1>4, <1>13 DEF UpdateUser, Idle
<1> QED
  BY <1>5, <1>6, <1>7, <1>8, <1>9, <1>10, <1>11, <1>12, <1>13 DEF Advance

(* The second factor, once it is on, is changed by turn-off-2fa alone. *)
THEOREM SecondFactorStays == Spec => SecondFactorKept
<1> DEFINE Kept(u) ==
      /\ users'[u] = users[u]
      /\ \/ SecondFactorOn(u)'
         \/ \E c \in Calls : call'[c].user = u /\ TurningOff(c)'
<1>1. ASSUME IInv, NEW u \in Users, SecondFactorOn(u),
             NEW c \in Calls, Start(c) \/ Advance(c) \/ Abort(c)
      PROVE  Kept(u)
  <2>0. users \in [Users -> UserRow] /\ users[u] \in UserRow
    BY <1>1 DEF IInv, TypeOK
  <2>1. users'[u] = users[u]
    <3>1. CASE UpdateUser(c) /\ call[c].user = u
      <4>1. /\ Written(call[c].entity.secret, users[u].secret, NotLoaded) = users[u].secret
            /\ Written(call[c].entity.enabled, users[u].enabled, NotLoaded) = users[u].enabled
        BY <1>1, <3>1 DEF SecondFactorOn, Written
      <4>2. users'[u] = [secret |-> users[u].secret, enabled |-> users[u].enabled]
        BY <2>0, <3>1, <4>1 DEF UpdateUser
      <4> QED
        BY <2>0, <4>2 DEF UserRow
    <3>2. CASE UpdateUser(c) /\ call[c].user # u
      BY <2>0, <3>2 DEF UpdateUser
    <3> QED
      BY <1>1, <3>1, <3>2, UsersStep
  <2>2. ASSUME NEW d \in Calls, call'[d].user = u, ~TurningOff(d)'
        PROVE  AsStored(call'[d], u)
    <3>1. CASE d = c
      BY <1>1, <2>2, <3>1, EntityOfCall DEF TurningOff
    <3>2. CASE d # c
      BY <1>1, <2>2, <3>2, StepOf DEF SecondFactorOn, AsStored
    <3> QED
      BY <3>1, <3>2
  <2> QED
    BY <1>1, <2>1, <2>2 DEF SecondFactorOn, AsStored
<1>2. ASSUME NEW u \in Users, SecondFactorOn(u), UNCHANGED <<users, call>>
      PROVE  Kept(u)
  BY <1>2 DEF SecondFactorOn, TurningOff
<1>3. IInv /\ [Next]_vars => [\A u \in Users : SecondFactorOn(u) => Kept(u)]_vars
  BY <1>1, <1>2 DEF Next, Tick, vars
<1> QED
  BY <1>3, Inductive, PTL DEF Spec, SecondFactorKept
=============================================================================
