---------------------------- MODULE JwtSessions -----------------------------
(***************************************************************************)
(* Sessions of the e-mail accounts: the table auths and the columns of     *)
(* users about the second factor, written by src/modules/auth.  A row of   *)
(* auths holds the hashes of the access and the refresh token that a user  *)
(* was signed last; the guard compares the bearer token with it.  A token  *)
(* signed twice in one second for the same claim is the same token.        *)
(*                                                                         *)
(* A call advances by one query, or one signature, at a time.  The guard   *)
(* loads the user once; the handler goes on with that entity and may save  *)
(* it later.                                                               *)
(***************************************************************************)
EXTENDS Naturals

CONSTANTS
    Calls,              \* calls in flight
    Users,              \* users that are active
    Secrets,            \* secrets for one-time codes
    Ids,                \* ids of rows of auths
    AccessExpiresIn, RefreshExpiresIn,  \* JWT_*_EXPIRES_IN, in seconds
    Require2FA,         \* REQUIRE_2FA
    MaxTime,            \* the clock is explored up to here
    None

ASSUME JwtAssumption ==
    /\ AccessExpiresIn \in Nat /\ RefreshExpiresIn \in Nat /\ MaxTime \in Nat
    /\ AccessExpiresIn # RefreshExpiresIn
    /\ Require2FA \in BOOLEAN
    /\ None \notin Users \cup Secrets \cup Ids \cup Nat

VARIABLES
    users,      \* table users: the columns about the second factor
    auths,      \* table auths: user_id is unique
    now,        \* seconds
    call        \* the calls in flight

vars == <<users, auths, now, call>>

-----------------------------------------------------------------------------
(* A token that the server has signed.  The types differ in when they       *)
(* expire, so that their hashes do, too.                                    *)
Token == [type: {"access", "refresh"}, user: Users, iat: Nat, twoFa: BOOLEAN]
NoToken == [type |-> "none", user |-> None, iat |-> 0, twoFa |-> FALSE]
Tokens == Token \cup {NoToken}

ExpiresIn(t) == IF t.type = "access" THEN AccessExpiresIn ELSE RefreshExpiresIn
Expired(t) == now >= t.iat + ExpiresIn(t)

AuthRow == [id: Ids \cup {None}, access: Tokens, refresh: Tokens]
NoAuth == [id |-> None, access |-> NoToken, refresh |-> NoToken]

(* A column that an entity has not loaded is not part of its save. *)
NotLoaded == "not loaded"

UserRow == [secret: Secrets \cup {None}, enabled: {"on", "off"}]
Entity == [secret: Secrets \cup {None, NotLoaded}, enabled: {"on", "off", NotLoaded}]
NoEntity == [secret |-> NotLoaded, enabled |-> NotLoaded]

Handlers == {"logout", "refresh", "gen-qr-code", "turn-off-2fa", "authenticate-2fa"}

Steps == {"idle", "sign.access", "sign.refresh", "auths.delete", "auths.insert",
          "logout.delete", "refresh.find", "auths.select", "auths.update",
          "auths.reinsert", "secret.check", "code.verify", "user.select",
          "user.update"}

CallState ==
    [at: Steps, handler: Handlers \cup {"none", "signin", "other"},
     user: Users \cup {None},
     entity: Entity,                    \* the UserEntity in hand
     twoFa: BOOLEAN,                    \* the claim to sign
     id: Ids \cup {None},               \* the AuthEntity in hand
     access: Tokens, refresh: Tokens,   \* as they are signed
     presented: Tokens]                 \* the bearer token, then the refresh token

Idle == [at |-> "idle", handler |-> "none", user |-> None, entity |-> NoEntity,
         twoFa |-> FALSE, id |-> None, access |-> NoToken, refresh |-> NoToken,
         presented |-> NoToken]

Become(c, st) == call' = [call EXCEPT ![c] = st]
Goto(c, step) == Become(c, [call[c] EXCEPT !.at = step])
Finish(c) == Become(c, Idle)

Init ==
    /\ users = [u \in Users |-> [secret |-> None, enabled |-> "off"]]
    /\ auths = [u \in Users |-> NoAuth]
    /\ now = 0
    /\ call = [c \in Calls |-> Idle]

-----------------------------------------------------------------------------
(* signin and auth.  auth starts a query for the user's row and tests its   *)
(* promise, which is true: the row is deleted whether it is there or not.   *)

Signin(c, u) ==
    /\ call[c].at = "idle"
    /\ Become(c, [Idle EXCEPT !.at = "sign.access", !.handler = "signin", !.user = u,
                              !.twoFa = (users[u].enabled = "on")])
    /\ UNCHANGED <<users, auths, now>>

signed(c, type) == [type |-> type, user |-> call[c].user, iat |-> now,
                    twoFa |-> call[c].twoFa]

SignAccess(c) ==
    /\ call[c].at = "sign.access"
    /\ Become(c, [call[c] EXCEPT !.at = "sign.refresh", !.access = signed(c, "access")])
    /\ UNCHANGED <<users, auths, now>>

SignRefresh(c) ==
    /\ call[c].at = "sign.refresh"
    /\ Become(c, [call[c] EXCEPT
                    !.at = IF call[c].handler = "refresh" THEN "auths.select" ELSE "auths.delete",
                    !.refresh = signed(c, "refresh"), !.twoFa = FALSE])
    /\ UNCHANGED <<users, auths, now>>

DeleteAuth(c) == auths' = [auths EXCEPT ![call[c].user] = NoAuth]

DeleteOld(c) ==
    /\ call[c].at = "auths.delete"
    /\ DeleteAuth(c)
    /\ Goto(c, "auths.insert")
    /\ UNCHANGED <<users, now>>

FreshId(id) == /\ \A u \in Users : auths[u].id # id
               /\ \A d \in Calls : call[d].id # id

CreateAuth(c, id) ==
    /\ call[c].at = "auths.insert"
    /\ auths[call[c].user] = NoAuth
    /\ FreshId(id)
    /\ auths' = [auths EXCEPT ![call[c].user] =
                   [id |-> id, access |-> call[c].access, refresh |-> call[c].refresh]]
    /\ Finish(c)
    /\ UNCHANGED <<users, now>>

-----------------------------------------------------------------------------
(* The guard.  A refusal leaves everything as it is. *)

SecondFactor(u, t, handler) ==
    \/ handler \in {"gen-qr-code", "authenticate-2fa"}
    \/ users[u].enabled = "on" /\ t.twoFa
    \/ users[u].enabled = "off" /\ ~Require2FA

FirstStep(handler) ==
    CASE handler = "logout" -> "logout.delete"
      [] handler = "refresh" -> "refresh.find"
      [] handler = "gen-qr-code" -> "secret.check"
      [] handler = "authenticate-2fa" -> "code.verify"
      [] handler = "turn-off-2fa" -> "user.select"

(* turn-off-2fa changes the entity before it saves it. *)
Loaded(u, handler) ==
    CASE handler = "turn-off-2fa" -> [secret |-> None, enabled |-> "off"]
      [] handler \in {"gen-qr-code", "authenticate-2fa"} -> users[u]
      [] OTHER -> NoEntity

(* Slip: the signature and the expiry are all that is checked *)
ValidateSignature(c, t, handler) ==
    /\ call[c].at = "idle"
    /\ t.type = "access" /\ t.iat <= now /\ ~Expired(t)
    /\ SecondFactor(t.user, t, handler)
    /\ Become(c, [Idle EXCEPT !.at = FirstStep(handler), !.handler = handler,
                              !.user = t.user, !.presented = t,
                              !.entity = Loaded(t.user, handler)])
    /\ UNCHANGED <<users, auths, now>>

Validate(c, t, handler) ==
    /\ call[c].at = "idle"
    /\ auths[t.user].access = t
    /\ ~Expired(t)
    /\ SecondFactor(t.user, t, handler)
    /\ Become(c, [Idle EXCEPT !.at = FirstStep(handler), !.handler = handler,
                              !.user = t.user, !.presented = t,
                              !.entity = Loaded(t.user, handler)])
    /\ UNCHANGED <<users, auths, now>>

Logout(c) ==
    /\ call[c].at = "logout.delete"
    /\ DeleteAuth(c)
    /\ Finish(c)
    /\ UNCHANGED <<users, now>>

-----------------------------------------------------------------------------
(* refreshToken: the row is found by the hash of the refresh token, and     *)
(* saved with a new pair.  save() selects the row by its id, updates it, or *)
(* inserts it once more, under its id, when it has gone.                    *)

(* Slip: the row is found by the user in the token *)
FindByUser(c, t) ==
    /\ call[c].at = "refresh.find"
    /\ t.type = "refresh" /\ t.iat <= now
    /\ auths[t.user] # NoAuth
    /\ ~Expired(t)
    /\ Become(c, [call[c] EXCEPT !.at = "sign.access", !.user = t.user, !.presented = t,
                                 !.twoFa = t.twoFa, !.id = auths[t.user].id])
    /\ UNCHANGED <<users, auths, now>>

FindByRefreshToken(c, t) ==
    /\ call[c].at = "refresh.find"
    /\ auths[t.user].refresh = t
    /\ ~Expired(t)
    /\ Become(c, [call[c] EXCEPT !.at = "sign.access", !.user = t.user, !.presented = t,
                                 !.twoFa = t.twoFa, !.id = auths[t.user].id])
    /\ UNCHANGED <<users, auths, now>>

Differing(new, old, none) == IF new = old THEN none ELSE new

(* Slip: the columns that have not changed are written, too *)
WrittenAlways(new, old, none) == new

Written(new, old, none) == IF new = none THEN old ELSE new

SelectAuth(c) ==
    LET row == auths[call[c].user] IN
    /\ call[c].at = "auths.select"
    /\ \/ /\ row.id = call[c].id
          /\ Become(c, [call[c] EXCEPT
                          !.at = "auths.update",
                          !.access = Differing(call[c].access, row.access, NoToken),
                          !.refresh = Differing(call[c].refresh, row.refresh, NoToken)])
       \/ row.id # call[c].id /\ Goto(c, "auths.reinsert")
    /\ UNCHANGED <<users, auths, now>>

(* An UPDATE by id: nothing happens when the row has gone by now. *)
UpdateAuth(c) ==
    LET row == auths[call[c].user] IN
    /\ call[c].at = "auths.update"
    /\ auths' = [auths EXCEPT ![call[c].user] =
                   IF row.id # call[c].id THEN row
                   ELSE [id |-> row.id,
                         access |-> Written(call[c].access, row.access, NoToken),
                         refresh |-> Written(call[c].refresh, row.refresh, NoToken)]]
    /\ Finish(c)
    /\ UNCHANGED <<users, now>>

ReinsertAuth(c) ==
    /\ call[c].at = "auths.reinsert"
    /\ auths[call[c].user] = NoAuth
    /\ auths' = [auths EXCEPT ![call[c].user] =
                   [id |-> call[c].id, access |-> call[c].access,
                    refresh |-> call[c].refresh]]
    /\ Finish(c)
    /\ UNCHANGED <<users, now>>

-----------------------------------------------------------------------------
(* The second factor.  What is checked is read afresh, what is saved is the *)
(* entity that the guard has loaded.                                        *)

(* Slip: a secret is generated for a user that has a second factor, too *)
GenerateAnySecret(c, s) ==
    /\ call[c].at = "secret.check"
    /\ Become(c, [call[c] EXCEPT !.at = "user.select",
                                 !.entity = [call[c].entity EXCEPT !.secret = s]])
    /\ UNCHANGED <<users, auths, now>>

GenerateSecret(c, s) ==
    /\ call[c].at = "secret.check"
    /\ users[call[c].user].enabled = "off"
    /\ Become(c, [call[c] EXCEPT !.at = "user.select",
                                 !.entity = [call[c].entity EXCEPT !.secret = s]])
    /\ UNCHANGED <<users, auths, now>>

VerifyCode(c) ==
    /\ call[c].at = "code.verify"
    /\ users[call[c].user].secret # None
    /\ Become(c, [call[c] EXCEPT !.at = "user.select",
                                 !.entity = [call[c].entity EXCEPT !.enabled = "on"]])
    /\ UNCHANGED <<users, auths, now>>

(* restorePassword and updateRole save the user for the sake of other       *)
(* columns. *)
LoadOther(c, u) ==
    /\ call[c].at = "idle"
    /\ Become(c, [Idle EXCEPT !.at = "user.select", !.handler = "other", !.user = u,
                              !.entity = users[u]])
    /\ UNCHANGED <<users, auths, now>>

SelectUser(c) ==
    LET row == users[call[c].user]
        e == call[c].entity
    IN /\ call[c].at = "user.select"
       /\ Become(c, [call[c] EXCEPT
                       !.at = "user.update",
                       !.entity = [secret |-> Differing(e.secret, row.secret, NotLoaded),
                                   enabled |-> Differing(e.enabled, row.enabled, NotLoaded)]])
       /\ UNCHANGED <<users, auths, now>>

(* authenticateTwoFactor goes on to sign the user in. *)
UpdateUser(c) ==
    LET row == users[call[c].user]
        e == call[c].entity
    IN /\ call[c].at = "user.update"
       /\ users' = [users EXCEPT ![call[c].user] =
                      [secret |-> Written(e.secret, row.secret, NotLoaded),
                       enabled |-> Written(e.enabled, row.enabled, NotLoaded)]]
       /\ Become(c, IF call[c].handler = "authenticate-2fa"
                    THEN [Idle EXCEPT !.at = "sign.access", !.user = call[c].user,
                                      !.handler = "authenticate-2fa", !.twoFa = TRUE]
                    ELSE Idle)
       /\ UNCHANGED <<auths, now>>

-----------------------------------------------------------------------------
(* A check throws, a query rejects or the process goes down. *)
Abort(c) ==
    /\ call[c].at # "idle"
    /\ Finish(c)
    /\ UNCHANGED <<users, auths, now>>

Tick ==
    /\ now < MaxTime
    /\ now' = now + 1
    /\ UNCHANGED <<users, auths, call>>

(* Tokens that can be presented were signed by now. *)
Presentable == [type: {"access", "refresh"}, user: Users, iat: 0..now, twoFa: BOOLEAN]

Start(c) ==
    \/ \E u \in Users : Signin(c, u) \/ LoadOther(c, u)
    \/ \E t \in Presentable, handler \in Handlers : Validate(c, t, handler)

Advance(c) ==
    \/ SignAccess(c) \/ SignRefresh(c) \/ DeleteOld(c)
    \/ \E id \in Ids : CreateAuth(c, id)
    \/ Logout(c)
    \/ \E t \in Presentable : FindByRefreshToken(c, t)
    \/ SelectAuth(c) \/ UpdateAuth(c) \/ ReinsertAuth(c)
    \/ \E s \in Secrets : GenerateSecret(c, s)
    \/ VerifyCode(c) \/ SelectUser(c) \/ UpdateUser(c)

Next == (\E c \in Calls : Start(c) \/ Advance(c) \/ Abort(c)) \/ Tick

Spec == Init /\ [][Next]_vars

-----------------------------------------------------------------------------
(* Properties. *)

TypeOK ==
    /\ users \in [Users -> UserRow]
    /\ auths \in [Users -> AuthRow]
    /\ now \in Nat
    /\ call \in [Calls -> CallState]

(* A call that is going to store a pair of tokens. *)
Storing(c) == call[c].handler \in {"signin", "refresh", "authenticate-2fa"}

LoggedOut(u) ==
    /\ auths[u] = NoAuth
    /\ \A c \in Calls : call[c].user = u => ~Storing(c)

(* A user who is logged out stays so until the next signin: neither the     *)
(* guard nor a save that inserts a row again lets a call of the old session *)
(* revive it, once the calls that were under way are over.                  *)
LoggedOutUntilSignin ==
    [][\A u \in Users : LoggedOut(u) =>
          /\ auths'[u] = NoAuth
          /\ \/ LoggedOut(u)'
             \/ \E c \in Calls : call'[c].user = u /\ call'[c].handler = "signin"]_vars

InUse(t) ==
    \/ \E u \in Users : t \in {auths[u].access, auths[u].refresh}
    \/ \E c \in Calls : t \in {call[c].access, call[c].refresh, call[c].presented}

(* A token of an earlier second that is neither stored nor in hand. *)
Superseded(t) == t.iat < now /\ ~InUse(t)

(* A token that another pair has replaced is never accepted or stored       *)
(* again, neither as a bearer token nor for a refresh.                      *)
SupersededIsFinal ==
    [][\A u \in Users, type \in {"access", "refresh"}, iat \in 0..MaxTime, twoFa \in BOOLEAN :
          LET t == [type |-> type, user |-> u, iat |-> iat, twoFa |-> twoFa]
          IN Superseded(t) => Superseded(t)']_vars

TurningOff(c) == call[c].handler = "turn-off-2fa"

(* The second factor of u is on, and no call holds the user as it was       *)
(* before, or is turning it off.                                            *)
SecondFactorOn(u) ==
    /\ users[u].enabled = "on"
    /\ \A c \in Calls : call[c].user = u =>
          /\ ~TurningOff(c)
          /\ call[c].entity.secret \in {NotLoaded, users[u].secret}
          /\ call[c].entity.enabled \in {NotLoaded, "on"}

(* From then on only turn-off-2fa changes it: another secret is not stored  *)
(* in its place, and saves of other columns of the user keep it.            *)
SecondFactorKept ==
    [][\A u \in Users : SecondFactorOn(u) =>
          /\ users'[u] = users[u]
          /\ \/ SecondFactorOn(u)'
             \/ \E c \in Calls : call'[c].user = u /\ TurningOff(c)']_vars

(* What keeps them: what a call is doing goes with its handler, and a       *)
(* refresh holds no user.                                                   *)
Sound(st) ==
    /\ st.at # "idle" => st.user \in Users
    /\ st.at \in {"sign.access", "sign.refresh", "auths.delete", "auths.insert",
                  "auths.select", "auths.update", "auths.reinsert"}
       => st.handler \in {"signin", "refresh", "authenticate-2fa"}
    /\ st.at = "refresh.find" => st.handler = "refresh" /\ st.entity = NoEntity

IInv == TypeOK /\ \A c \in Calls : Sound(call[c])
=============================================================================
