------------------------------ MODULE Accounts ------------------------------
(***************************************************************************)
(* E-mail accounts: the tables users, tokens and referral_codes, written   *)
(* by src/modules/auth, user and referral.  A user signs up, verifies its  *)
(* address with the token it was mailed, and restores a forgotten password *)
(* with another one; with REQUIRE_SIGNUP_WITH_REFERRAL an activation       *)
(* issues a referral code and counts a use of the referrer's.              *)
(*                                                                         *)
(* A call advances by one query at a time and holds the entities it has    *)
(* loaded.  save() of an entity selects its row again and updates the      *)
(* columns that differ: it writes back what was loaded, too.               *)
(* emailVerification and restorePassword do not await the save: it runs    *)
(* beside the removal of the token.                                        *)
(***************************************************************************)
EXTENDS Naturals, FiniteSets

CONSTANTS
    Calls,              \* calls in flight
    Users,              \* users, by their e-mail address
    Admin,              \* the administrator that a migration inserts
    Passwords,
    Codes,              \* rows of referral_codes
    SeedCode,           \* the code of the administrator
    Uuids,              \* uuids of tokens
    RequireReferral,    \* REQUIRE_SIGNUP_WITH_REFERRAL
    AllowsSandbox,      \* ALLOWS_SANDBOX
    MaxUsage,           \* REFERRAL_CODE_MAXIMUM_USAGE
    None

ASSUME AccountsAssumption ==
    /\ RequireReferral \in BOOLEAN /\ AllowsSandbox \in BOOLEAN
    /\ MaxUsage \in Nat
    /\ SeedCode \in Codes
    /\ Admin \notin Users
    /\ None \notin Users \cup {Admin} \cup Passwords \cup Codes \cup Uuids \cup Nat
    /\ IsFiniteSet(Calls) /\ IsFiniteSet(Codes)

VARIABLES
    users,      \* table users
    tokens,     \* table tokens: user_id is unique, whatever the type
    uses,       \* table referral_codes: timesUsed, None when there is no row
    call        \* the calls in flight

vars == <<users, tokens, uses, call>>

-----------------------------------------------------------------------------
(* A column that an entity has not loaded is not part of its save. *)
NotLoaded == "not loaded"

Status == {"none", "PENDING", "ACTIVE"}
UserRow == [status: Status, password: Passwords \cup {None},
            referralCode: Codes \cup {None},
            referredBy: Users \cup {Admin, None}]
TokenRow == [type: {"none", "EMAIL", "PASSWORD"}, uuid: Uuids \cup {None},
             recent: BOOLEAN]       \* within the resend interval
Entity == [status: Status \cup {NotLoaded},
           password: Passwords \cup {None, NotLoaded},
           referralCode: Codes \cup {None, NotLoaded},
           referredBy: Users \cup {Admin, None, NotLoaded}]

NoUser == [status |-> "none", password |-> None, referralCode |-> None,
           referredBy |-> None]
NoToken == [type |-> "none", uuid |-> None, recent |-> FALSE]
NoEntity == [status |-> NotLoaded, password |-> NotLoaded,
             referralCode |-> NotLoaded, referredBy |-> NotLoaded]

Kinds == {"none", "create", "update", "sandbox", "activate", "verify",
          "restore", "profile", "send"}

Steps == {"idle", "code.find", "owner.find", "user.insert", "user.find",
          "code.insert", "referrer.find", "uses.find", "uses.save",
          "user.select", "user.update", "token.find", "token.remove",
          "token.insert", "spent.find", "spent.remove", "saved"}

CallState ==
    [at: Steps, kind: Kinds, user: Users \cup {None},
     entity: Entity,                    \* the UserEntity in hand
     password: Passwords \cup {None},
     code: Codes \cup {None},           \* the code looked up
     count: Nat,                        \* its timesUsed
     type: {"none", "EMAIL", "PASSWORD"},
     token: Uuids \cup {None},          \* the TokenEntity in hand
     removing: BOOLEAN]                 \* it is being removed beside the rest

Idle == [at |-> "idle", kind |-> "none", user |-> None, entity |-> NoEntity,
         password |-> None, code |-> None, count |-> 0, type |-> "none",
         token |-> None, removing |-> FALSE]

Become(c, st) == call' = [call EXCEPT ![c] = st]
Goto(c, step) == Become(c, [call[c] EXCEPT !.at = step])

(* What is left of a call whose save is done: the removal beside it, if any. *)
Saved(st) ==
    IF st.removing
    THEN [Idle EXCEPT !.at = "saved", !.kind = st.kind, !.user = st.user,
                      !.token = st.token, !.removing = TRUE]
    ELSE Idle

Init ==
    /\ users = [u \in Users |-> NoUser]
    /\ tokens = [u \in Users |-> NoToken]
    /\ uses = [k \in Codes |-> IF k = SeedCode THEN 0 ELSE None]
    /\ call = [c \in Calls |-> Idle]

-----------------------------------------------------------------------------
(* signup.  A check that throws ends the call as a query that rejects does: *)
(* see Abort.                                                               *)

WithReferral(step, otherwise) == IF RequireReferral THEN step ELSE otherwise

InsertOrFind(kind) == IF kind = "create" THEN "user.insert" ELSE "user.find"

(* Slip: a user that is active signs up again like a pending one *)
SignupAnyStatus(c, u, password, k) ==
    LET kind == IF users[u].status = "none" THEN "create" ELSE "update" IN
    /\ call[c].at = "idle"
    /\ Become(c, [Idle EXCEPT !.at = WithReferral("code.find", InsertOrFind(kind)),
                              !.kind = kind, !.user = u, !.password = password,
                              !.code = k, !.type = "EMAIL"])
    /\ UNCHANGED <<users, tokens, uses>>

Signup(c, u, password, k) ==
    LET kind == IF users[u].status = "none" THEN "create" ELSE "update" IN
    /\ call[c].at = "idle"
    /\ users[u].status # "ACTIVE"
    /\ Become(c, [Idle EXCEPT !.at = WithReferral("code.find", InsertOrFind(kind)),
                              !.kind = kind, !.user = u, !.password = password,
                              !.code = k, !.type = "EMAIL"])
    /\ UNCHANGED <<users, tokens, uses>>

FindReferralCode(c) ==
    /\ call[c].at = "code.find"
    /\ uses[call[c].code] # None
    /\ uses[call[c].code] < MaxUsage
    /\ Goto(c, "owner.find")
    /\ UNCHANGED <<users, tokens, uses>>

CodeOf(u) == IF u = Admin THEN SeedCode ELSE users[u].referralCode

(* Slip: a use is counted at the signup, too *)
FindOwnerCountsUse(c) ==
    /\ call[c].at = "owner.find"
    /\ \E owner \in Users \cup {Admin} :
          /\ CodeOf(owner) = call[c].code
          /\ Become(c, [call[c] EXCEPT
                !.at = InsertOrFind(call[c].kind), !.code = None,
                !.entity = [call[c].entity EXCEPT !.referredBy = owner]])
    /\ uses' = [uses EXCEPT ![call[c].code] = @ + 1]
    /\ UNCHANGED <<users, tokens>>

(* A code that no user has, such as one that a failed activation has left,  *)
(* passes: the user is then referred by nobody.                             *)
FindOwner(c) ==
    /\ call[c].at = "owner.find"
    /\ \E owner \in Users \cup {Admin, None} :
          /\ IF owner = None
             THEN \A u \in Users \cup {Admin} : CodeOf(u) # call[c].code
             ELSE CodeOf(owner) = call[c].code
          /\ Become(c, [call[c] EXCEPT
                !.at = InsertOrFind(call[c].kind), !.code = None,
                !.entity = [call[c].entity EXCEPT !.referredBy = owner]])
    /\ UNCHANGED <<users, tokens, uses>>

(* users.email, referral_code_id and referred_by_id are unique: a user can  *)
(* have referred only one other.                                            *)
Unique(u, row) ==
    \A v \in (Users \cup {Admin}) \ {u} :
        /\ row.referralCode # None => CodeOf(v) # row.referralCode
        /\ v \in Users /\ row.referredBy # None => users[v].referredBy # row.referredBy

InsertUser(c) ==
    LET u == call[c].user
        sandbox == call[c].kind = "sandbox"
        row == [status |-> IF sandbox THEN "ACTIVE" ELSE "PENDING",
                password |-> call[c].password, referralCode |-> None,
                referredBy |-> IF call[c].entity.referredBy = NotLoaded
                               THEN None ELSE call[c].entity.referredBy]
    IN /\ call[c].at = "user.insert"
       /\ users[u].status = "none"
       /\ Unique(u, row)
       /\ users' = [users EXCEPT ![u] = row]
       /\ Become(c, IF sandbox THEN Idle
                    ELSE [call[c] EXCEPT !.at = "token.find", !.password = None,
                                         !.entity = NoEntity])
       /\ UNCHANGED <<tokens, uses>>

(* Slip: the user starts over as pending *)
UpdateOneAsPending(c) ==
    LET u == call[c].user IN
    /\ call[c].at = "user.find"
    /\ Become(c, [call[c] EXCEPT !.at = "user.select", !.password = None,
                                 !.entity = [call[c].entity EXCEPT
                                               !.status = "PENDING",
                                               !.password = call[c].password]])
    /\ UNCHANGED <<users, tokens, uses>>

UpdateOne(c) ==
    LET u == call[c].user IN
    /\ call[c].at = "user.find"
    /\ Become(c, [call[c] EXCEPT !.at = "user.select", !.password = None,
                                 !.entity = [call[c].entity EXCEPT
                                               !.status = users[u].status,
                                               !.password = call[c].password]])
    /\ UNCHANGED <<users, tokens, uses>>

-----------------------------------------------------------------------------
(* save() of a UserEntity: the row is selected, and the columns that differ *)
(* are updated.                                                             *)

Differing(new, old) == IF new = old THEN NotLoaded ELSE new

SelectUser(c) ==
    LET row == users[call[c].user]
        e == call[c].entity
    IN /\ call[c].at = "user.select"
       /\ Become(c, [call[c] EXCEPT
             !.at = "user.update",
             !.entity = [status |-> Differing(e.status, row.status),
                         password |-> Differing(e.password, row.password),
                         referralCode |-> Differing(e.referralCode, row.referralCode),
                         referredBy |-> Differing(e.referredBy, row.referredBy)]])
       /\ UNCHANGED <<users, tokens, uses>>

(* Slip: the columns that have not changed are written, too *)
WrittenAlways(new, old) == new

Written(new, old) == IF new = NotLoaded THEN old ELSE new

AfterSave(st) ==
    CASE st.kind = "update" -> [st EXCEPT !.at = "token.find", !.entity = NoEntity]
      [] st.kind = "activate" -> [st EXCEPT !.at = "spent.find", !.entity = NoEntity]
      [] OTHER -> Saved(st)

UpdateUser(c) ==
    LET u == call[c].user
        row == users[u]
        e == call[c].entity
        new == [status |-> Written(e.status, row.status),
                password |-> Written(e.password, row.password),
                referralCode |-> Written(e.referralCode, row.referralCode),
                referredBy |-> Written(e.referredBy, row.referredBy)]
    IN /\ call[c].at = "user.update"
       /\ Unique(u, new)
       /\ users' = [users EXCEPT ![u] = new]
       /\ Become(c, AfterSave(call[c]))
       /\ UNCHANGED <<tokens, uses>>

-----------------------------------------------------------------------------
(* activate, on behalf of emailVerification and signupSandbox *)

CreateCode(c, k) ==
    /\ call[c].at = "code.insert"
    /\ uses[k] = None
    /\ uses' = [uses EXCEPT ![k] = 0]
    /\ Become(c, [call[c] EXCEPT !.at = "referrer.find",
                                 !.entity = [call[c].entity EXCEPT !.referralCode = k]])
    /\ UNCHANGED <<users, tokens>>

(* Without a referrer, or a code of the referrer, this throws. *)
FindReferrer(c) ==
    LET referrer == call[c].entity.referredBy IN
    /\ call[c].at = "referrer.find"
    /\ referrer \in Users \cup {Admin}
    /\ CodeOf(referrer) # None
    /\ Become(c, [call[c] EXCEPT !.at = "uses.find", !.code = CodeOf(referrer)])
    /\ UNCHANGED <<users, tokens, uses>>

FindUses(c) ==
    /\ call[c].at = "uses.find"
    /\ uses[call[c].code] # None
    /\ Become(c, [call[c] EXCEPT !.at = "uses.save", !.count = uses[call[c].code]])
    /\ UNCHANGED <<users, tokens, uses>>

SaveUses(c) ==
    /\ call[c].at = "uses.save"
    /\ uses' = [uses EXCEPT ![call[c].code] = call[c].count + 1]
    /\ Become(c, [call[c] EXCEPT !.at = "user.select", !.code = None, !.count = 0])
    /\ UNCHANGED <<users, tokens>>

EmailVerification(c, u) ==
    /\ call[c].at = "idle"
    /\ tokens[u].type = "EMAIL"
    /\ users[u].status # "ACTIVE"
    /\ Become(c, [Idle EXCEPT !.at = WithReferral("code.insert", "user.select"),
                              !.kind = "verify", !.user = u,
                              !.entity = [status |-> "ACTIVE",
                                          password |-> users[u].password,
                                          referralCode |-> NotLoaded,
                                          referredBy |-> users[u].referredBy],
                              !.token = tokens[u].uuid, !.removing = TRUE])
    /\ UNCHANGED <<users, tokens, uses>>

(* signupSandbox of a new user, and of one that is pending *)
SandboxCreate(c, u, password) ==
    /\ call[c].at = "idle"
    /\ AllowsSandbox
    /\ users[u].status = "none"
    /\ Become(c, [Idle EXCEPT !.at = "user.insert", !.kind = "sandbox", !.user = u,
                              !.password = password])
    /\ UNCHANGED <<users, tokens, uses>>

SandboxActivate(c, u) ==
    /\ call[c].at = "idle"
    /\ AllowsSandbox
    /\ users[u].status = "PENDING"
    /\ Become(c, [Idle EXCEPT !.at = WithReferral("code.insert", "user.select"),
                              !.kind = "activate", !.user = u,
                              !.entity = [users[u] EXCEPT !.status = "ACTIVE"]])
    /\ UNCHANGED <<users, tokens, uses>>

-----------------------------------------------------------------------------
(* Tokens *)

(* Slip: removed by its user *)
DeleteTokenOfUser(c) == tokens' = [tokens EXCEPT ![call[c].user] = NoToken]

(* A token is removed by the id of its row. *)
DeleteToken(c) ==
    LET u == call[c].user IN
    tokens' = [tokens EXCEPT ![u] = IF @.uuid = call[c].token THEN NoToken ELSE @]

RemoveToken(c) ==
    /\ call[c].removing
    /\ DeleteToken(c)
    /\ Become(c, IF call[c].at = "saved" THEN Idle
                 ELSE [call[c] EXCEPT !.token = None, !.removing = FALSE])
    /\ UNCHANGED <<users, uses>>

FindSpentToken(c) ==
    LET token == tokens[call[c].user] IN
    /\ call[c].at = "spent.find"
    /\ \/ /\ token.type = "EMAIL"
          /\ Become(c, [call[c] EXCEPT !.at = "spent.remove", !.token = token.uuid])
       \/ token.type # "EMAIL" /\ Become(c, Idle)
    /\ UNCHANGED <<users, tokens, uses>>

RemoveSpentToken(c) ==
    /\ call[c].at = "spent.remove"
    /\ DeleteToken(c)
    /\ Become(c, Idle)
    /\ UNCHANGED <<users, uses>>

(* sendEmailWithMailType, on behalf of signup, resendVerificationEmail and  *)
(* forgotPassword *)
SendTo(c, u, type) ==
    /\ call[c].at = "idle"
    /\ Become(c, [Idle EXCEPT !.at = "token.find", !.kind = "send", !.user = u,
                              !.type = type])
    /\ UNCHANGED <<users, tokens, uses>>

ResendVerificationEmail(c, u) == users[u].status = "PENDING" /\ SendTo(c, u, "EMAIL")
ForgotPassword(c, u) == users[u].status = "ACTIVE" /\ SendTo(c, u, "PASSWORD")

FindToken(c) ==
    LET token == tokens[call[c].user] IN
    /\ call[c].at = "token.find"
    /\ \/ /\ token.type = call[c].type
          /\ ~token.recent
          /\ Become(c, [call[c] EXCEPT !.at = "token.remove", !.token = token.uuid])
       \/ token.type # call[c].type /\ Goto(c, "token.insert")
    /\ UNCHANGED <<users, tokens, uses>>

ReplaceToken(c) ==
    /\ call[c].at = "token.remove"
    /\ DeleteToken(c)
    /\ Become(c, [call[c] EXCEPT !.at = "token.insert", !.token = None])
    /\ UNCHANGED <<users, uses>>

(* tokens.user_id is unique: a token of the other type is in the way. *)
InsertToken(c, uuid) ==
    /\ call[c].at = "token.insert"
    /\ tokens[call[c].user].type = "none"
    /\ \A u \in Users : tokens[u].uuid # uuid
    /\ \A d \in Calls : call[d].token # uuid
    /\ tokens' = [tokens EXCEPT ![call[c].user] =
                    [type |-> call[c].type, uuid |-> uuid, recent |-> TRUE]]
    /\ Become(c, Idle)
    /\ UNCHANGED <<users, uses>>

Elapse(u) ==
    /\ tokens[u].recent
    /\ tokens' = [tokens EXCEPT ![u].recent = FALSE]
    /\ UNCHANGED <<users, uses, call>>

RestorePassword(c, u, password) ==
    /\ call[c].at = "idle"
    /\ tokens[u].type = "PASSWORD"
    /\ Become(c, [Idle EXCEPT !.at = "user.select", !.kind = "restore", !.user = u,
                              !.entity = [status |-> users[u].status,
                                          password |-> password,
                                          referralCode |-> NotLoaded,
                                          referredBy |-> users[u].referredBy],
                              !.token = tokens[u].uuid, !.removing = TRUE])
    /\ UNCHANGED <<users, tokens, uses>>

-----------------------------------------------------------------------------
(* updateRole and the 2FA endpoints save a UserEntity for the sake of other *)
(* columns; those are not part of this module.                              *)
LoadProfile(c, u) ==
    /\ call[c].at = "idle"
    /\ users[u].status # "none"
    /\ Become(c, [Idle EXCEPT !.at = "user.select", !.kind = "profile", !.user = u,
                              !.entity = [NoEntity EXCEPT
                                            !.status = users[u].status,
                                            !.password = users[u].password]])
    /\ UNCHANGED <<users, tokens, uses>>

(* A check throws, a query rejects or the process goes down.  What runs     *)
(* beside the rest of the call may fail by itself, or be what goes on.      *)
Abort(c) ==
    /\ call[c].at # "idle"
    /\ \/ Become(c, Idle)
       \/ call[c].removing /\ Become(c, Saved(call[c]))
       \/ /\ call[c].removing
          /\ Become(c, IF call[c].at = "saved" THEN Idle
                       ELSE [call[c] EXCEPT !.token = None, !.removing = FALSE])
    /\ UNCHANGED <<users, tokens, uses>>

Start(c) ==
    \E u \in Users :
        \/ \E password \in Passwords :
              \/ \E k \in Codes : Signup(c, u, password, k)
              \/ SandboxCreate(c, u, password)
              \/ RestorePassword(c, u, password)
        \/ SandboxActivate(c, u) \/ EmailVerification(c, u)
        \/ ResendVerificationEmail(c, u) \/ ForgotPassword(c, u)
        \/ LoadProfile(c, u)

Advance(c) ==
    \/ FindReferralCode(c) \/ FindOwner(c) \/ InsertUser(c) \/ UpdateOne(c)
    \/ SelectUser(c) \/ UpdateUser(c)
    \/ \E k \in Codes : CreateCode(c, k)
    \/ FindReferrer(c) \/ FindUses(c) \/ SaveUses(c)
    \/ RemoveToken(c) \/ FindSpentToken(c) \/ RemoveSpentToken(c)
    \/ FindToken(c) \/ ReplaceToken(c)
    \/ \E uuid \in Uuids : InsertToken(c, uuid)

Next ==
    \/ \E c \in Calls : Start(c) \/ Advance(c) \/ Abort(c)
    \/ \E u \in Users : Elapse(u)

Spec == Init /\ [][Next]_vars

-----------------------------------------------------------------------------
(* Properties. *)

TypeOK ==
    /\ users \in [Users -> UserRow]
    /\ tokens \in [Users -> TokenRow]
    /\ uses \in [Codes -> Nat \cup {None}]
    /\ call \in [Calls -> CallState]

Holds(c, u) == call[c].user = u

(* Verified for good: no call holds the user as it was before. *)
Verified(u) ==
    /\ users[u].status = "ACTIVE"
    /\ \A c \in Calls : Holds(c, u) => call[c].entity.status \in {NotLoaded, "ACTIVE"}

(* An active user stays active, whatever calls run side by side, once the   *)
(* saves of a user that was loaded while pending are done: an update by a   *)
(* repeated signup, of a role, or of the 2FA columns.                       *)
ActiveIsFinal == [][\A u \in Users : Verified(u) => Verified(u)']_vars

Registering(c) == /\ call[c].kind = "update"
                  /\ call[c].at \notin {"token.find", "token.remove", "token.insert"}
Restoring(c) == call[c].kind = "restore"

(* No call is about to write another password of u than the stored one. *)
PasswordKept(u) ==
    /\ Verified(u)
    /\ \A c \in Calls : Holds(c, u) =>
          /\ ~Registering(c) /\ ~Restoring(c)
          /\ call[c].entity.password \in {NotLoaded, users[u].password}

(* From then on the password of an active user is changed by                *)
(* restorePassword alone, with a token that it has found: not by a signup   *)
(* with the same address, an activation, or a save of other columns.        *)
OnlyRestoreChangesPassword ==
    [][\A u \in Users : PasswordKept(u) =>
          /\ users'[u].password = users[u].password
          /\ PasswordKept(u)' \/ \E c \in Calls : Holds(c, u)' /\ Restoring(c)']_vars

(* A token that a call has found in order to use it up. *)
Spending(c, u) ==
    /\ Holds(c, u)
    /\ call[c].token = tokens[u].uuid
    /\ call[c].kind \in {"verify", "activate", "restore"}

(* The link in a mail stands for the resend interval, unless it is used:    *)
(* another mail does not replace it, and the removal of an older token,     *)
(* late as it may run, does not hit it.                                     *)
MailedLinkStands ==
    [][\A u \in Users :
          tokens[u].recent /\ (\A c \in Calls : ~Spending(c, u))
          => tokens'[u].uuid = tokens[u].uuid]_vars

Issued == {k \in Codes \ {SeedCode} : uses[k] # None}

(* No code counts more uses than codes have been issued: activation issues  *)
(* one before it counts one, and counts that race can only be lost.         *)
UsesWereIssued ==
    \A k \in Codes : uses[k] # None => uses[k] <= Cardinality(Issued)

(* What keeps it: the count of a code, those about to be written, and the   *)
(* calls that have issued a code and not yet counted, together, are not     *)
(* more than the codes issued.                                              *)
Writing(k) == {c \in Calls : call[c].at = "uses.save" /\ call[c].code = k}
Counts(k) ==
    {0} \cup ({uses[k]} \ {None}) \cup {call[c].count + 1 : c \in Writing(k)}
Uncounted == {c \in Calls : call[c].at \in {"referrer.find", "uses.find"}}

CountsInv ==
    \A k \in Codes : \A n \in Counts(k) :
        n + Cardinality(Uncounted) <= Cardinality(Issued)

(* What keeps the others: what a call is doing goes with its kind, and only *)
(* a call that uses it up can hold a token that is recent.                  *)
Sound(st) ==
    /\ st.at # "idle" => st.user \in Users
    /\ st.at \in {"code.find", "owner.find"} => st.kind \in {"create", "update"}
    /\ st.at = "user.find" => st.kind = "update"
    /\ st.removing => st.kind \in {"verify", "restore"}
    /\ st.at \in {"spent.find", "spent.remove"} => st.kind = "activate"
    /\ st.at \in {"code.insert", "referrer.find", "uses.find", "uses.save"}
       => st.kind \in {"verify", "activate"}
    /\ st.at \in {"uses.find", "uses.save"} => st.code \in Codes
    /\ \/ st.at \in {"code.find", "owner.find", "user.find",
                      "token.find", "token.remove", "token.insert"}
       \/ st.at = "user.insert" /\ st.kind # "sandbox"
       \/ st.at \in {"user.select", "user.update"} /\ st.kind = "update"
       => st.type # "none"

TokenInHand(c) ==
    \A u \in Users : Holds(c, u) /\ call[c].token = tokens[u].uuid /\ tokens[u].recent
                      => Spending(c, u)

IInv ==
    /\ TypeOK
    /\ \A c \in Calls : Sound(call[c]) /\ TokenInHand(c)
    /\ \A u \in Users : tokens[u].recent => tokens[u].uuid # None /\ tokens[u].type # "none"
    /\ uses[SeedCode] # None
    /\ \A c \in Calls : call[c].at = "uses.save" => uses[call[c].code] # None
    /\ CountsInv
=============================================================================
