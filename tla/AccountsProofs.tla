--------------------------- MODULE AccountsProofs ---------------------------
(* Theorems about Accounts for every value of its constants. *)
EXTENDS Accounts, CountingLemmas

-----------------------------------------------------------------------------
(* What a step makes of the call that takes it. *)

LEMMA Becomes ==
  ASSUME TypeOK, NEW c \in Calls, NEW st, Become(c, st)
  PROVE  call'[c] = st /\ \A d \in Calls \ {c} : call'[d] = call[d]
  BY DEF Become, TypeOK

LEMMA IdleCall == Idle \in CallState /\ Sound(Idle)
  BY DEF Idle, CallState, Steps, Kinds, Entity, NoEntity, Sound

LEMMA StepsAndKinds ==
  /\ {"idle", "code.find", "owner.find", "user.insert", "user.find", "code.insert",
      "referrer.find", "uses.find", "uses.save", "user.select", "user.update",
      "token.find", "token.remove", "token.insert", "spent.find", "spent.remove",
      "saved"} \subseteq Steps
  /\ {"none", "create", "update", "sandbox", "activate", "verify", "restore",
      "profile", "send"} \subseteq Kinds
  BY DEF Steps, Kinds

LEMMA SavedCall ==
  ASSUME NEW st \in CallState, st.at # "idle", Sound(st)
  PROVE  /\ Saved(st) \in CallState
         /\ Sound(Saved(st))
<1>1. st.kind \in Kinds /\ st.user \in Users /\ st.token \in Uuids \cup {None}
  BY DEF CallState, Sound
<1>2. [Idle EXCEPT !.at = "saved", !.kind = st.kind, !.user = st.user,
                   !.token = st.token, !.removing = TRUE] \in CallState
  BY <1>1, IdleCall DEF CallState, Steps
<1>3. st.removing =>
        Sound([Idle EXCEPT !.at = "saved", !.kind = st.kind, !.user = st.user,
                           !.token = st.token, !.removing = TRUE])
  BY <1>1 DEF Sound, Idle
<1> QED
  BY <1>2, <1>3, IdleCall DEF Saved

LEMMA LoadedRow ==
  ASSUME TypeOK, NEW u \in Users
  PROVE  /\ users[u].status \in Status
         /\ users[u].password \in Passwords \cup {None}
         /\ users[u].referralCode \in Codes \cup {None}
         /\ users[u].referredBy \in Users \cup {Admin, None}
         /\ tokens[u].uuid \in Uuids \cup {None}
         /\ CodeOf(u) \in Codes \cup {None}
  BY AccountsAssumption DEF TypeOK, UserRow, TokenRow, CodeOf

LEMMA StartCall ==
  ASSUME TypeOK, NEW c \in Calls, Start(c)
  PROVE  /\ UNCHANGED <<users, tokens, uses>>
         /\ \E st \in CallState : Sound(st) /\ Become(c, st)
<1>1. ASSUME NEW u \in Users, NEW password \in Passwords, NEW k \in Codes,
             Signup(c, u, password, k)
      PROVE  /\ UNCHANGED <<users, tokens, uses>>
             /\ \E st \in CallState : Sound(st) /\ Become(c, st)
  <2> DEFINE kind == IF users[u].status = "none" THEN "create" ELSE "update"
             st == [Idle EXCEPT !.at = WithReferral("code.find", InsertOrFind(kind)),
                                !.kind = kind, !.user = u, !.password = password,
                                !.code = k, !.type = "EMAIL"]
  <2>1. /\ kind \in {"create", "update"}
        /\ WithReferral("code.find", InsertOrFind(kind))
              \in {"code.find", "user.insert", "user.find"}
        /\ WithReferral("code.find", InsertOrFind(kind)) = "user.find" => kind = "update"
    BY DEF WithReferral, InsertOrFind
  <2>2. st \in CallState
    BY <2>1, IdleCall, StepsAndKinds DEF CallState
  <2>3. Sound(st)
    BY <2>1 DEF Sound, Idle
  <2> QED
    BY <1>1, <2>2, <2>3 DEF Signup
<1>2. ASSUME NEW u \in Users, NEW password \in Passwords, SandboxCreate(c, u, password)
      PROVE  /\ UNCHANGED <<users, tokens, uses>>
             /\ \E st \in CallState : Sound(st) /\ Become(c, st)
  <2> DEFINE st == [Idle EXCEPT !.at = "user.insert", !.kind = "sandbox", !.user = u,
                                !.password = password]
  <2>1. st \in CallState
    BY IdleCall, StepsAndKinds DEF CallState
  <2>2. Sound(st)
    BY DEF Sound, Idle
  <2> QED
    BY <1>2, <2>1, <2>2 DEF SandboxCreate
<1>3. ASSUME NEW u \in Users, NEW password \in Passwords, RestorePassword(c, u, password)
      PROVE  /\ UNCHANGED <<users, tokens, uses>>
             /\ \E st \in CallState : Sound(st) /\ Become(c, st)
  <2> DEFINE e == [status |-> users[u].status, password |-> password,
                   referralCode |-> NotLoaded, referredBy |-> users[u].referredBy]
             st == [Idle EXCEPT !.at = "user.select", !.kind = "restore", !.user = u,
                                !.entity = e, !.token = tokens[u].uuid, !.removing = TRUE]
  <2>1. e \in Entity
    BY LoadedRow DEF Entity
  <2> HIDE DEF e
  <2>2. st \in CallState
    BY <2>1, LoadedRow, IdleCall, StepsAndKinds DEF CallState
  <2>3. Sound(st)
    BY DEF Sound, Idle
  <2> QED
    BY <1>3, <2>2, <2>3 DEF RestorePassword, e
<1>4. ASSUME NEW u \in Users, SandboxActivate(c, u)
      PROVE  /\ UNCHANGED <<users, tokens, uses>>
             /\ \E st \in CallState : Sound(st) /\ Become(c, st)
  <2> DEFINE e == [users[u] EXCEPT !.status = "ACTIVE"]
             step == WithReferral("code.insert", "user.select")
             st == [Idle EXCEPT !.at = step, !.kind = "activate", !.user = u, !.entity = e]
  <2>1. e \in Entity
    BY DEF Entity, TypeOK, UserRow, Status
  <2>2. step \in {"code.insert", "user.select"}
    BY DEF WithReferral
  <2> HIDE DEF e, step
  <2>3. st \in CallState
    BY <2>1, <2>2, IdleCall, StepsAndKinds DEF CallState
  <2>4. Sound(st)
    BY <2>2 DEF Sound, Idle
  <2> QED
    BY <1>4, <2>3, <2>4 DEF SandboxActivate, e, step
<1>5. ASSUME NEW u \in Users, EmailVerification(c, u)
      PROVE  /\ UNCHANGED <<users, tokens, uses>>
             /\ \E st \in CallState : Sound(st) /\ Become(c, st)
  <2> DEFINE e == [status |-> "ACTIVE", password |-> users[u].password,
                   referralCode |-> NotLoaded, referredBy |-> users[u].referredBy]
             step == WithReferral("code.insert", "user.select")
             st == [Idle EXCEPT !.at = step, !.kind = "verify", !.user = u,
                                !.entity = e, !.token = tokens[u].uuid, !.removing = TRUE]
  <2>1. e \in Entity
    BY LoadedRow DEF Entity, Status
  <2>2. step \in {"code.insert", "user.select"}
    BY DEF WithReferral
  <2> HIDE DEF e, step
  <2>3. st \in CallState
    BY <2>1, <2>2, LoadedRow, IdleCall, StepsAndKinds DEF CallState
  <2>4. Sound(st)
    BY <2>2 DEF Sound, Idle
  <2> QED
    BY <1>5, <2>3, <2>4 DEF EmailVerification, e, step
<1>6. ASSUME NEW u \in Users, NEW type \in {"EMAIL", "PASSWORD"}, SendTo(c, u, type)
      PROVE  /\ UNCHANGED <<users, tokens, uses>>
             /\ \E st \in CallState : Sound(st) /\ Become(c, st)
  <2> DEFINE st == [Idle EXCEPT !.at = "token.find", !.kind = "send", !.user = u,
                                !.type = type]
  <2>1. st \in CallState
    BY IdleCall, StepsAndKinds DEF CallState
  <2>2. Sound(st)
    BY DEF Sound, Idle
  <2> QED
    BY <1>6, <2>1, <2>2 DEF SendTo
<1>7. ASSUME NEW u \in Users, LoadProfile(c, u)
      PROVE  /\ UNCHANGED <<users, tokens, uses>>
             /\ \E st \in CallState : Sound(st) /\ Become(c, st)
  <2> DEFINE e == [NoEntity EXCEPT !.status = users[u].status,
                                   !.password = users[u].password]
             st == [Idle EXCEPT !.at = "user.select", !.kind = "profile", !.user = u,
                                !.entity = e]
  <2>1. e \in Entity
    BY LoadedRow DEF Entity, NoEntity
  <2> HIDE DEF e
  <2>2. st \in CallState
    BY <2>1, IdleCall, StepsAndKinds DEF CallState
  <2>3. Sound(st)
    BY DEF Sound, Idle
  <2> QED
    BY <1>7, <2>2, <2>3 DEF LoadProfile, e
<1> QED
  BY <1>1, <1>2, <1>3, <1>4, <1>5, <1>6, <1>7
     DEF Start, ResendVerificationEmail, ForgotPassword

(* An entity that is being saved keeps some of its columns loaded. *)
LEMMA SelectedEntity ==
  ASSUME NEW e \in Entity, NEW row
  PROVE  [status |-> Differing(e.status, row.status),
          password |-> Differing(e.password, row.password),
          referralCode |-> Differing(e.referralCode, row.referralCode),
          referredBy |-> Differing(e.referredBy, row.referredBy)] \in Entity
  BY DEF Entity, Differing

LEMMA EntityColumns ==
  ASSUME TypeOK, NEW c \in Calls
  PROVE  /\ call[c].entity \in Entity /\ NoEntity \in Entity
         /\ call[c].password \in Passwords \cup {None}
         /\ call[c].entity.status \in Status \cup {NotLoaded}
         /\ call[c].entity.referredBy \in Users \cup {Admin, None, NotLoaded}
  BY DEF TypeOK, CallState, Entity, NoEntity

LEMMA SignupCall ==
  ASSUME TypeOK, NEW c \in Calls, Sound(call[c]),
         FindReferralCode(c) \/ FindOwner(c) \/ InsertUser(c) \/ UpdateOne(c)
  PROVE  \E st \in CallState : Sound(st) /\ Become(c, st)
<1>0. call[c] \in CallState
  BY DEF TypeOK
<1>1. CASE FindReferralCode(c)
  <2>1. [call[c] EXCEPT !.at = "owner.find"] \in CallState
    BY <1>0, StepsAndKinds DEF CallState
  <2>2. Sound([call[c] EXCEPT !.at = "owner.find"])
    BY <1>0, <1>1 DEF FindReferralCode, Sound, CallState
  <2> QED
    BY <1>1, <2>1, <2>2 DEF FindReferralCode, Goto
<1>2. ASSUME NEW owner \in Users \cup {Admin, None}, call[c].at = "owner.find",
             Become(c, [call[c] EXCEPT !.at = InsertOrFind(call[c].kind), !.code = None,
                                       !.entity = [call[c].entity EXCEPT !.referredBy = owner]])
      PROVE  \E st \in CallState : Sound(st) /\ Become(c, st)
  <2> DEFINE e == [call[c].entity EXCEPT !.referredBy = owner]
             step == InsertOrFind(call[c].kind)
             st == [call[c] EXCEPT !.at = step, !.code = None, !.entity = e]
  <2>1. e \in Entity
    BY EntityColumns DEF Entity
  <2>2. step \in {"user.insert", "user.find"} /\ (step = "user.find" => call[c].kind = "update")
    BY <1>2 DEF InsertOrFind, Sound
  <2>3. Become(c, st)
    BY <1>2
  <2> HIDE DEF e, step
  <2>4. st \in CallState
    BY <1>0, <2>1, <2>2, StepsAndKinds DEF CallState
  <2>5. Sound(st)
    BY <1>0, <1>2, <2>2 DEF Sound, CallState
  <2> QED
    BY <2>3, <2>4, <2>5
<1>3. CASE InsertUser(c)
  <2> DEFINE st == [call[c] EXCEPT !.at = "token.find", !.password = None,
                                   !.entity = NoEntity]
  <2>1. st \in CallState
    BY <1>0, EntityColumns, StepsAndKinds DEF CallState
  <2>2. call[c].kind # "sandbox" => Sound(st)
    BY <1>0, <1>3 DEF Sound, CallState, InsertUser
  <2> QED
    BY <1>3, <2>1, <2>2, IdleCall DEF InsertUser
<1>4. CASE UpdateOne(c)
  <2> DEFINE u == call[c].user
             e == [call[c].entity EXCEPT !.status = users[u].status,
                                         !.password = call[c].password]
             st == [call[c] EXCEPT !.at = "user.select", !.password = None, !.entity = e]
  <2>1. u \in Users
    BY <1>4 DEF UpdateOne, Sound
  <2>2. e \in Entity
    BY <2>1, EntityColumns, LoadedRow DEF Entity
  <2>4. Become(c, st)
    BY <1>4 DEF UpdateOne
  <2> HIDE DEF e, u
  <2>5. st \in CallState
    BY <1>0, <2>2, StepsAndKinds DEF CallState
  <2>6. Sound(st)
    BY <1>0, <1>4 DEF Sound, CallState, UpdateOne
  <2> QED
    BY <2>4, <2>5, <2>6
<1>5. CASE FindOwner(c)
  <2>1. PICK owner \in Users \cup {Admin, None} :
           Become(c, [call[c] EXCEPT !.at = InsertOrFind(call[c].kind), !.code = None,
                                     !.entity = [call[c].entity EXCEPT !.referredBy = owner]])
    BY <1>5 DEF FindOwner
  <2>2. call[c].at = "owner.find"
    BY <1>5 DEF FindOwner
  <2> QED
    BY <1>2, <2>1, <2>2
<1> QED
  BY <1>1, <1>3, <1>4, <1>5

LEMMA SaveCall ==
  ASSUME TypeOK, NEW c \in Calls, Sound(call[c]), SelectUser(c) \/ UpdateUser(c)
  PROVE  \E st \in CallState : Sound(st) /\ Become(c, st)
<1>0. call[c] \in CallState
  BY DEF TypeOK
<1>1. CASE SelectUser(c)
  <2> DEFINE row == users[call[c].user]
             d == call[c].entity
             e == [status |-> Differing(d.status, row.status),
                   password |-> Differing(d.password, row.password),
                   referralCode |-> Differing(d.referralCode, row.referralCode),
                   referredBy |-> Differing(d.referredBy, row.referredBy)]
             st == [call[c] EXCEPT !.at = "user.update", !.entity = e]
  <2>1. e \in Entity
    BY SelectedEntity, EntityColumns
  <2>2. Become(c, st)
    BY <1>1 DEF SelectUser
  <2> HIDE DEF e
  <2>3. st \in CallState
    BY <1>0, <2>1, StepsAndKinds DEF CallState
  <2>4. Sound(st)
    BY <1>0, <1>1 DEF Sound, CallState, SelectUser
  <2> QED
    BY <2>2, <2>3, <2>4
<1>2. CASE UpdateUser(c)
  <2>1. \A step \in {"token.find", "spent.find"} :
           [call[c] EXCEPT !.at = step, !.entity = NoEntity] \in CallState
    BY <1>0, EntityColumns, StepsAndKinds DEF CallState
  <2>2. CASE call[c].kind = "update"
    <3>1. AfterSave(call[c]) = [call[c] EXCEPT !.at = "token.find", !.entity = NoEntity]
      BY <2>2 DEF AfterSave
    <3>2. Sound([call[c] EXCEPT !.at = "token.find", !.entity = NoEntity])
      BY <1>0, <1>2, <2>2 DEF Sound, CallState, UpdateUser
    <3> QED
      BY <1>2, <2>1, <3>1, <3>2 DEF UpdateUser
  <2>3. CASE call[c].kind = "activate"
    <3>1. AfterSave(call[c]) = [call[c] EXCEPT !.at = "spent.find", !.entity = NoEntity]
      BY <2>3 DEF AfterSave
    <3>2. Sound([call[c] EXCEPT !.at = "spent.find", !.entity = NoEntity])
      BY <1>0, <1>2, <2>3 DEF Sound, CallState, UpdateUser
    <3> QED
      BY <1>2, <2>1, <3>1, <3>2 DEF UpdateUser
  <2>4. CASE call[c].kind \notin {"update", "activate"}
    <3>1. AfterSave(call[c]) = Saved(call[c])
      BY <2>4 DEF AfterSave
    <3> QED
      BY <1>0, <1>2, <3>1, SavedCall DEF UpdateUser
  <2> QED
    BY <2>2, <2>3, <2>4
<1> QED
  BY <1>1, <1>2

LEMMA ActivateCall ==
  ASSUME TypeOK, NEW c \in Calls, Sound(call[c]),
         \/ \E k \in Codes : CreateCode(c, k)
         \/ FindReferrer(c) \/ FindUses(c) \/ SaveUses(c)
  PROVE  \E st \in CallState : Sound(st) /\ Become(c, st)
<1>0. call[c] \in CallState
  BY DEF TypeOK
<1>1. ASSUME NEW k \in Codes, CreateCode(c, k)
      PROVE  \E st \in CallState : Sound(st) /\ Become(c, st)
  <2> DEFINE e == [call[c].entity EXCEPT !.referralCode = k]
             st == [call[c] EXCEPT !.at = "referrer.find", !.entity = e]
  <2>1. e \in Entity
    BY EntityColumns DEF Entity
  <2>2. Become(c, st)
    BY <1>1 DEF CreateCode
  <2> HIDE DEF e
  <2>3. st \in CallState
    BY <1>0, <2>1, StepsAndKinds DEF CallState
  <2>6. call[c].user \in Users /\ call[c].kind \in {"verify", "activate"}
    BY <1>1 DEF Sound, CreateCode
  <2>4. Sound(st)
    BY <1>0, <2>6 DEF Sound, CallState
  <2> QED
    BY <2>2, <2>3, <2>4
<1>2. CASE FindReferrer(c)
  <2> DEFINE k == CodeOf(call[c].entity.referredBy)
             st == [call[c] EXCEPT !.at = "uses.find", !.code = k]
  <2>1. k \in Codes
    BY <1>2, LoadedRow, AccountsAssumption DEF FindReferrer, CodeOf
  <2>2. Become(c, st)
    BY <1>2 DEF FindReferrer
  <2> HIDE DEF k
  <2>3. st \in CallState
    BY <1>0, <2>1, StepsAndKinds DEF CallState
  <2>4. Sound(st)
    BY <1>0, <1>2, <2>1 DEF Sound, CallState, FindReferrer
  <2> QED
    BY <2>2, <2>3, <2>4
<1>3. CASE FindUses(c)
  <2> DEFINE st == [call[c] EXCEPT !.at = "uses.save", !.count = uses[call[c].code]]
  <2>1. call[c].code \in Codes /\ uses[call[c].code] \in Nat
    BY <1>3 DEF FindUses, Sound, TypeOK
  <2>2. st \in CallState
    BY <1>0, <2>1, StepsAndKinds DEF CallState
  <2>3. Sound(st)
    BY <1>0, <1>3, <2>1 DEF Sound, CallState, FindUses
  <2> QED
    BY <1>3, <2>2, <2>3 DEF FindUses
<1>4. CASE SaveUses(c)
  <2> DEFINE st == [call[c] EXCEPT !.at = "user.select", !.code = None, !.count = 0]
  <2>1. st \in CallState
    BY <1>0, StepsAndKinds DEF CallState
  <2>2. Sound(st)
    BY <1>0, <1>4 DEF Sound, CallState, SaveUses
  <2> QED
    BY <1>4, <2>1, <2>2 DEF SaveUses
<1> QED
  BY <1>1, <1>2, <1>3, <1>4

LEMMA TokenCall ==
  ASSUME TypeOK, NEW c \in Calls, Sound(call[c]),
         \/ RemoveToken(c) \/ FindSpentToken(c) \/ RemoveSpentToken(c)
         \/ FindToken(c) \/ ReplaceToken(c)
         \/ \E uuid \in Uuids : InsertToken(c, uuid)
  PROVE  \E st \in CallState : Sound(st) /\ Become(c, st)
<1>0. call[c] \in CallState
  BY DEF TypeOK
<1>1. CASE RemoveToken(c)
  <2> DEFINE st == [call[c] EXCEPT !.token = None, !.removing = FALSE]
  <2>1. st \in CallState /\ Sound(st)
    BY <1>0 DEF Sound, CallState
  <2> QED
    BY <1>1, <2>1, IdleCall DEF RemoveToken
<1>2. ASSUME NEW step \in {"spent.remove", "token.remove"},
             step = "spent.remove" => call[c].at = "spent.find",
             step = "token.remove" => call[c].at = "token.find",
             Become(c, [call[c] EXCEPT !.at = step, !.token = tokens[call[c].user].uuid])
      PROVE  \E st \in CallState : Sound(st) /\ Become(c, st)
  <2>1. tokens[call[c].user].uuid \in Uuids \cup {None}
    BY <1>2, LoadedRow DEF Sound
  <2>2. [call[c] EXCEPT !.at = step, !.token = tokens[call[c].user].uuid] \in CallState
    BY <1>0, <2>1, StepsAndKinds DEF CallState
  <2>3. Sound([call[c] EXCEPT !.at = step, !.token = tokens[call[c].user].uuid])
    BY <1>0, <1>2 DEF Sound, CallState
  <2> QED
    BY <1>2, <2>2, <2>3
<1>3. CASE FindSpentToken(c)
  BY <1>2, <1>3, IdleCall DEF FindSpentToken
<1>4. ASSUME call[c].at \in {"token.find", "token.remove"}, NEW t \in Uuids \cup {None}
      PROVE  LET st == [call[c] EXCEPT !.at = "token.insert", !.token = t]
             IN st \in CallState /\ Sound(st)
  BY <1>0, <1>4, StepsAndKinds DEF Sound, CallState
<1>5. CASE FindToken(c)
  <2>1. CASE Goto(c, "token.insert")
    <3>1. [call[c] EXCEPT !.at = "token.insert"]
             = [call[c] EXCEPT !.at = "token.insert", !.token = call[c].token]
      BY <1>0 DEF CallState
    <3>2. call[c].token \in Uuids \cup {None}
      BY <1>0 DEF CallState
    <3> QED
      BY <1>4, <1>5, <2>1, <3>1, <3>2 DEF FindToken, Goto
  <2> QED
    BY <1>2, <1>5, <2>1 DEF FindToken
<1>6. CASE ReplaceToken(c)
  BY <1>4, <1>6 DEF ReplaceToken
<1>7. CASE RemoveSpentToken(c) \/ \E uuid \in Uuids : InsertToken(c, uuid)
  BY <1>7, IdleCall DEF RemoveSpentToken, InsertToken
<1> QED
  BY <1>1, <1>3, <1>5, <1>6, <1>7

LEMMA AbortCall ==
  ASSUME TypeOK, NEW c \in Calls, Sound(call[c]), Abort(c)
  PROVE  \E st \in CallState : Sound(st) /\ Become(c, st)
<1>0. call[c] \in CallState /\ call[c].at # "idle"
  BY DEF TypeOK, Abort
<1>1. LET st == [call[c] EXCEPT !.token = None, !.removing = FALSE]
      IN st \in CallState /\ Sound(st)
  BY <1>0 DEF Sound, CallState
<1> QED
  BY <1>0, <1>1, IdleCall, SavedCall DEF Abort

LEMMA CallSteps ==
  ASSUME TypeOK, NEW c \in Calls, Sound(call[c]), Start(c) \/ Advance(c) \/ Abort(c)
  PROVE  \E st \in CallState : Sound(st) /\ Become(c, st)
  BY StartCall, SignupCall, SaveCall, ActivateCall, TokenCall, AbortCall DEF Advance

-----------------------------------------------------------------------------
(* The tables keep their types. *)

LEMMA UsersStep ==
  ASSUME TypeOK, NEW c \in Calls, Sound(call[c]), Start(c) \/ Advance(c) \/ Abort(c)
  PROVE  users' \in [Users -> UserRow]
<1>1. ASSUME NEW row \in UserRow, call[c].at # "idle",
             users' = [users EXCEPT ![call[c].user] = row]
      PROVE  users' \in [Users -> UserRow]
  BY <1>1 DEF TypeOK, Sound
<1>2. CASE InsertUser(c)
  <2> DEFINE row == [status |-> IF call[c].kind = "sandbox" THEN "ACTIVE" ELSE "PENDING",
                     password |-> call[c].password, referralCode |-> None,
                     referredBy |-> IF call[c].entity.referredBy = NotLoaded
                                    THEN None ELSE call[c].entity.referredBy]
  <2>1. row \in UserRow
    BY EntityColumns DEF UserRow, Status
  <2>2. call[c].at # "idle" /\ users' = [users EXCEPT ![call[c].user] = row]
    BY <1>2 DEF InsertUser
  <2> QED
    BY <1>1, <2>1, <2>2
<1>3. CASE UpdateUser(c)
  <2> DEFINE old == users[call[c].user]
             e == call[c].entity
             row == [status |-> Written(e.status, old.status),
                     password |-> Written(e.password, old.password),
                     referralCode |-> Written(e.referralCode, old.referralCode),
                     referredBy |-> Written(e.referredBy, old.referredBy)]
  <2>1. e \in Entity /\ old \in UserRow
    BY <1>3, EntityColumns DEF UpdateUser, Sound, TypeOK
  <2>2. call[c].at # "idle" /\ users' = [users EXCEPT ![call[c].user] = row]
    BY <1>3 DEF UpdateUser
  <2> HIDE DEF e, old
  <2>3. row \in UserRow
    BY <2>1 DEF UserRow, Entity, Written
  <2> QED
    BY <1>1, <2>2, <2>3
<1>4. CASE UNCHANGED users
  BY <1>4 DEF TypeOK
<1>5. CASE Start(c)
  BY <1>4, <1>5, StartCall
<1>6. CASE Advance(c)
  BY <1>2, <1>3, <1>4, <1>6
     DEF Advance, FindReferralCode, FindOwner, UpdateOne, SelectUser, CreateCode,
         FindReferrer, FindUses, SaveUses, RemoveToken, FindSpentToken,
         RemoveSpentToken, FindToken, ReplaceToken, InsertToken
<1> QED
  BY <1>4, <1>5, <1>6 DEF Abort

(* How a step changes the tokens. *)
LEMMA TokensStep ==
  ASSUME NEW c \in Calls, Start(c) \/ Advance(c) \/ Abort(c), TypeOK
  PROVE  \/ UNCHANGED tokens
         \/ /\ call[c].at # "idle" \/ call[c].removing
            /\ DeleteToken(c)
            /\ RemoveToken(c) \/ RemoveSpentToken(c) \/ ReplaceToken(c)
         \/ \E uuid \in Uuids : InsertToken(c, uuid)
<1>1. CASE Start(c)
  BY <1>1, StartCall
<1>2. CASE Advance(c)
  BY <1>2
     DEF Advance, FindReferralCode, FindOwner, InsertUser, UpdateOne, SelectUser,
         UpdateUser, CreateCode, FindReferrer, FindUses, SaveUses, RemoveToken,
         FindSpentToken, RemoveSpentToken, FindToken, ReplaceToken
<1> QED
  BY <1>1, <1>2 DEF Abort

LEMMA TokensTyped ==
  ASSUME TypeOK, NEW c \in Calls, Start(c) \/ Advance(c) \/ Abort(c)
  PROVE  tokens' \in [Users -> TokenRow]
<1>1. NoToken \in TokenRow
  BY DEF NoToken, TokenRow
<1>2. CASE DeleteToken(c)
  BY <1>1, <1>2 DEF DeleteToken, TypeOK
<1>3. ASSUME NEW uuid \in Uuids, InsertToken(c, uuid)
      PROVE  tokens' \in [Users -> TokenRow]
  <2>1. call[c].type \in {"none", "EMAIL", "PASSWORD"}
    BY DEF TypeOK, CallState
  <2>2. [type |-> call[c].type, uuid |-> uuid, recent |-> TRUE] \in TokenRow
    BY <2>1 DEF TokenRow
  <2> QED
    BY <1>3, <2>2 DEF InsertToken, TypeOK
<1> QED
  BY <1>2, <1>3, TokensStep DEF TypeOK

(* How a step changes the counts. *)
LEMMA UsesStep ==
  ASSUME NEW c \in Calls, Start(c) \/ Advance(c) \/ Abort(c), TypeOK
  PROVE  \/ UNCHANGED uses
         \/ \E k \in Codes : CreateCode(c, k)
         \/ SaveUses(c)
<1>1. CASE Start(c)
  BY <1>1, StartCall
<1>2. CASE Advance(c)
  BY <1>2
     DEF Advance, FindReferralCode, FindOwner, InsertUser, UpdateOne, SelectUser,
         UpdateUser, FindReferrer, FindUses, RemoveToken, FindSpentToken,
         RemoveSpentToken, FindToken, ReplaceToken, InsertToken
<1> QED
  BY <1>1, <1>2 DEF Abort

LEMMA TypeStep ==
  ASSUME TypeOK, NEW c \in Calls, Sound(call[c]), Start(c) \/ Advance(c) \/ Abort(c)
  PROVE  TypeOK' /\ Sound(call'[c])
<1>1. call[c].count \in Nat
  BY DEF TypeOK, CallState
<1>2. uses' \in [Codes -> Nat \cup {None}]
  <2>1. ASSUME NEW n \in Nat, NEW k, uses' = [uses EXCEPT ![k] = n]
        PROVE  uses' \in [Codes -> Nat \cup {None}]
    <3>1. n \in Nat \cup {None}
      OBVIOUS
    <3> DEFINE Count == Nat \cup {None}
    <3> HIDE DEF Count
    <3>2. uses \in [Codes -> Count] /\ n \in Count
      BY <3>1 DEF TypeOK, Count
    <3>3. uses' \in [Codes -> Count]
      BY <2>1, <3>2
    <3> QED
      BY <3>3 DEF Count
  <2>2. CASE SaveUses(c)
    <3>1. call[c].count + 1 \in Nat
      BY <1>1
    <3>2. uses' = [uses EXCEPT ![call[c].code] = call[c].count + 1]
      BY <2>2 DEF SaveUses
    <3> QED
      BY <2>1, <3>1, <3>2
  <2>3. ASSUME NEW k \in Codes, CreateCode(c, k)
        PROVE  uses' \in [Codes -> Nat \cup {None}]
    BY <2>1, <2>3 DEF CreateCode
  <2> QED
    BY <2>2, <2>3, UsesStep DEF TypeOK
<1>3. PICK st \in CallState : Sound(st) /\ Become(c, st)
  BY CallSteps
<1>4. call' \in [Calls -> CallState] /\ call'[c] = st
  BY <1>3 DEF Become, TypeOK
<1> QED
  BY <1>2, <1>3, <1>4, UsersStep, TokensTyped DEF TypeOK

(* The type invariant needs Sound, and both hold. *)
TypedCalls == TypeOK /\ \A c \in Calls : Sound(call[c])

LEMMA TypedInit ==
  ASSUME Init
  PROVE  TypedCalls
<1>1. NoUser \in UserRow /\ NoToken \in TokenRow
  BY DEF NoUser, NoToken, UserRow, TokenRow, Status
<1> QED
  BY <1>1, IdleCall DEF Init, TypedCalls, TypeOK

LEMMA ElapseTyped ==
  ASSUME TypeOK, NEW u \in Users, Elapse(u)
  PROVE  TypeOK'
<1>1. [tokens[u] EXCEPT !.recent = FALSE] \in TokenRow
  BY DEF TypeOK, TokenRow
<1>2. tokens' = [tokens EXCEPT ![u] = [tokens[u] EXCEPT !.recent = FALSE]]
  BY DEF Elapse
<1> QED
  BY <1>1, <1>2 DEF Elapse, TypeOK

LEMMA TypedNext ==
  ASSUME TypedCalls, [Next]_vars
  PROVE  TypedCalls'
<1> USE DEF TypedCalls
<1>1. ASSUME NEW c \in Calls, Start(c) \/ Advance(c) \/ Abort(c)
      PROVE  TypedCalls'
  <2>1. TypeOK' /\ Sound(call'[c])
    BY <1>1, TypeStep
  <2>2. \A d \in Calls \ {c} : call'[d] = call[d]
    BY <1>1, CallSteps, Becomes
  <2>3. ASSUME NEW d \in Calls
        PROVE  Sound(call'[d])
    BY <2>1, <2>2
  <2> QED
    BY <2>1, <2>3
<1>2. ASSUME NEW u \in Users, Elapse(u)
      PROVE  TypedCalls'
  BY <1>2, ElapseTyped DEF Elapse
<1>3. CASE UNCHANGED vars
  BY <1>3 DEF vars, TypeOK, Sound
<1> QED
  BY <1>1, <1>2, <1>3 DEF Next

(* Every variable keeps its type. *)
THEOREM TypeCorrect == Spec => []TypeOK
<1>1. TypedCalls => TypeOK
  BY DEF TypedCalls
<1> QED
  BY <1>1, TypedInit, TypedNext, PTL DEF Spec

-----------------------------------------------------------------------------
(* The token a call holds: none, the one it has held, or the one it has     *)
(* found, which is recent only when it is to be used up.                    *)
FromBefore(c, st) ==
  \/ st.token = None
  \/ st.token = call[c].token /\ st.kind = call[c].kind /\ st.user = call[c].user
  \/ /\ st.token = tokens[st.user].uuid
     /\ st.kind \in {"verify", "activate", "restore"} \/ ~tokens[st.user].recent

LEMMA TokenHeld ==
  ASSUME TypedCalls, NEW c \in Calls, Start(c) \/ Advance(c) \/ Abort(c)
  PROVE  FromBefore(c, call'[c])
<1>0. TypeOK /\ Sound(call[c]) /\ call[c] \in CallState
  BY DEF TypedCalls, TypeOK
<1>1. ASSUME NEW st, Become(c, st), FromBefore(c, st)
      PROVE  FromBefore(c, call'[c])
  BY <1>0, <1>1, Becomes
<1>2. CASE Start(c)
  <2>1. ASSUME NEW u \in Users, NEW password \in Passwords, NEW k \in Codes,
               Signup(c, u, password, k)
        PROVE  FromBefore(c, call'[c])
    BY <1>1, <2>1 DEF Signup, Idle, FromBefore
  <2>2. ASSUME NEW u \in Users, NEW password \in Passwords,
               SandboxCreate(c, u, password) \/ RestorePassword(c, u, password)
        PROVE  FromBefore(c, call'[c])
    BY <1>1, <2>2 DEF SandboxCreate, RestorePassword, Idle, FromBefore
  <2>3. ASSUME NEW u \in Users,
               \/ SandboxActivate(c, u) \/ EmailVerification(c, u) \/ LoadProfile(c, u)
               \/ ResendVerificationEmail(c, u) \/ ForgotPassword(c, u)
        PROVE  FromBefore(c, call'[c])
    BY <1>1, <2>3 DEF SandboxActivate, EmailVerification, LoadProfile, SendTo,
                      ResendVerificationEmail, ForgotPassword, Idle, FromBefore
  <2> QED
    BY <1>2, <2>1, <2>2, <2>3 DEF Start
<1>3. FromBefore(c, Idle) /\ FromBefore(c, Saved(call[c]))
  BY DEF FromBefore, Saved, Idle
<1>4. CASE FindReferralCode(c) \/ UpdateOne(c) \/ SelectUser(c)
  BY <1>0, <1>1, <1>4 DEF FindReferralCode, UpdateOne, SelectUser, Goto, FromBefore, CallState
<1>5. CASE FindOwner(c)
  BY <1>0, <1>1, <1>5 DEF FindOwner, FromBefore, CallState
<1>6. CASE InsertUser(c) \/ UpdateUser(c)
  BY <1>0, <1>1, <1>3, <1>6 DEF InsertUser, UpdateUser, AfterSave, FromBefore, CallState
<1>7. CASE (\E k \in Codes : CreateCode(c, k)) \/ FindReferrer(c) \/ FindUses(c) \/ SaveUses(c)
  BY <1>0, <1>1, <1>7 DEF CreateCode, FindReferrer, FindUses, SaveUses, FromBefore, CallState
<1>8. CASE RemoveToken(c) \/ RemoveSpentToken(c) \/ ReplaceToken(c)
  BY <1>0, <1>1, <1>3, <1>8 DEF RemoveToken, RemoveSpentToken, ReplaceToken, FromBefore, CallState
<1>9. CASE FindToken(c)
  BY <1>0, <1>1, <1>9 DEF FindToken, Goto, FromBefore, CallState
<1>10. CASE FindSpentToken(c)
  BY <1>0, <1>1, <1>3, <1>10 DEF FindSpentToken, FromBefore, CallState, Sound
<1>11. CASE \E uuid \in Uuids : InsertToken(c, uuid)
  BY <1>1, <1>3, <1>11 DEF InsertToken
<1>12. CASE Abort(c)
  BY <1>0, <1>1, <1>3, <1>12 DEF Abort, FromBefore, CallState
<1> QED
  BY <1>2, <1>4, <1>5, <1>6, <1>7, <1>8, <1>9, <1>10, <1>11, <1>12 DEF Advance

(* A recent token has a row, and a call that holds it is using it up. *)
RecentTokens ==
  /\ \A c \in Calls : TokenInHand(c)
  /\ \A u \in Users : tokens[u].recent => tokens[u].uuid # None /\ tokens[u].type # "none"

LEMMA RecentInit ==
  ASSUME Init
  PROVE  RecentTokens
  BY DEF Init, RecentTokens, TokenInHand, NoToken

LEMMA RecentNext ==
  ASSUME TypedCalls, RecentTokens, [Next]_vars
  PROVE  RecentTokens'
<1>1. ASSUME NEW c \in Calls, Start(c) \/ Advance(c) \/ Abort(c),
             \A u \in Users : tokens'[u].recent => tokens'[u] = tokens[u]
      PROVE  RecentTokens'
  <2>1. \A d \in Calls \ {c} : call'[d] = call[d]
    BY <1>1, CallSteps, Becomes DEF TypedCalls
  <2>2. FromBefore(c, call'[c])
    BY <1>1, TokenHeld
  <2>3. ASSUME NEW d \in Calls, NEW u \in Users,
               Holds(d, u)', call'[d].token = tokens'[u].uuid, tokens'[u].recent
        PROVE  Spending(d, u)'
    <3>1. tokens'[u] = tokens[u] /\ tokens[u].recent /\ tokens[u].uuid # None
      BY <1>1, <2>3 DEF RecentTokens
    <3>2. CASE d # c
      BY <2>1, <2>3, <3>1, <3>2 DEF RecentTokens, TokenInHand, Holds, Spending
    <3>3. CASE d = c
      BY <2>2, <2>3, <3>1, <3>3 DEF RecentTokens, TokenInHand, Holds, Spending, FromBefore
    <3> QED
      BY <3>2, <3>3
  <2> QED
    BY <1>1, <2>3 DEF RecentTokens, TokenInHand
<1>2. ASSUME NEW c \in Calls, NEW uuid \in Uuids, InsertToken(c, uuid)
      PROVE  RecentTokens'
  <2>0. TypeOK /\ call[c].user \in Users
    BY <1>2 DEF TypedCalls, Sound, InsertToken
  <2>1. /\ call'[c] = Idle
        /\ \A d \in Calls \ {c} : call'[d] = call[d]
    BY <1>2, <2>0, Becomes DEF InsertToken
  <2>2. uuid # None
    BY AccountsAssumption
  <2>3. /\ tokens'[call[c].user] = [type |-> call[c].type, uuid |-> uuid, recent |-> TRUE]
        /\ \A u \in Users \ {call[c].user} : tokens'[u] = tokens[u]
    BY <1>2, <2>0 DEF InsertToken, TypeOK
  <2>4. ASSUME NEW d \in Calls, NEW u \in Users,
               Holds(d, u)', call'[d].token = tokens'[u].uuid, tokens'[u].recent
        PROVE  Spending(d, u)'
    <3>1. CASE d = c
      <4>1. call'[d].user = None
        BY <2>1, <3>1 DEF Idle
      <4> QED
        BY <2>4, <4>1, AccountsAssumption DEF Holds
    <3>2. CASE d # c
      <4>1. call'[d] = call[d] /\ call[d].token # uuid
        BY <1>2, <2>1, <3>2 DEF InsertToken
      <4>2. tokens'[u] = tokens[u]
        BY <2>3, <2>4, <4>1
      <4> QED
        BY <2>4, <4>1, <4>2 DEF RecentTokens, TokenInHand, Holds, Spending
    <3> QED
      BY <3>1, <3>2
  <2>5. call[c].type # "none"
    BY <1>2 DEF TypedCalls, Sound, InsertToken
  <2>6. ASSUME NEW u \in Users, tokens'[u].recent
        PROVE  tokens'[u].uuid # None /\ tokens'[u].type # "none"
    BY <2>2, <2>3, <2>5, <2>6 DEF RecentTokens
  <2> QED
    BY <2>4, <2>6 DEF RecentTokens, TokenInHand
<1>3. ASSUME NEW c \in Calls, Start(c) \/ Advance(c) \/ Abort(c)
      PROVE  RecentTokens'
  <2>1. CASE DeleteToken(c)
    <3>1. ASSUME NEW u \in Users, tokens'[u].recent
          PROVE  tokens'[u] = tokens[u]
      BY <2>1, <3>1 DEF DeleteToken, TypedCalls, TypeOK, NoToken
    <3> QED
      BY <1>1, <1>3, <3>1
  <2> QED
    BY <1>1, <1>2, <1>3, <2>1, TokensStep DEF TypedCalls
<1>4. ASSUME NEW u \in Users, Elapse(u)
      PROVE  RecentTokens'
  <2>1. /\ UNCHANGED call
        /\ \A v \in Users : tokens'[v].recent => tokens'[v] = tokens[v]
    BY <1>4 DEF Elapse, TypedCalls, TypeOK, TokenRow
  <2> QED
    BY <2>1 DEF RecentTokens, TokenInHand, Holds, Spending
<1>5. CASE UNCHANGED vars
  BY <1>5 DEF vars, RecentTokens, TokenInHand, Holds, Spending
<1> QED
  BY <1>3, <1>4, <1>5 DEF Next

(* The link in a mail stands for the resend interval, unless it is used. *)
THEOREM MailedLinksStand == Spec => MailedLinkStands
<1>1. Init => TypedCalls /\ RecentTokens
  BY TypedInit, RecentInit
<1>2. TypedCalls /\ RecentTokens /\ [Next]_vars => TypedCalls' /\ RecentTokens'
  BY TypedNext, RecentNext
<1>3. ASSUME TypedCalls, RecentTokens, [Next]_vars,
             NEW u \in Users, tokens[u].recent, \A c \in Calls : ~Spending(c, u)
      PROVE  tokens'[u].uuid = tokens[u].uuid
  <2>1. ASSUME NEW c \in Calls, Start(c) \/ Advance(c) \/ Abort(c)
        PROVE  tokens'[u].uuid = tokens[u].uuid
    <3>1. CASE DeleteToken(c)
      <4>1. ~(call[c].user = u /\ tokens[u].uuid = call[c].token)
        BY <1>3, <2>1 DEF RecentTokens, TokenInHand, Holds
      <4> QED
        BY <3>1, <4>1 DEF DeleteToken, TypedCalls, TypeOK
    <3>2. CASE \E uuid \in Uuids : InsertToken(c, uuid)
      <4>1. u # call[c].user
        BY <1>3, <3>2 DEF InsertToken, RecentTokens
      <4> QED
        BY <3>2, <4>1 DEF InsertToken, TypedCalls, TypeOK
    <3> QED
      BY <1>3, <2>1, <3>1, <3>2, TokensStep DEF TypedCalls
  <2>2. ASSUME NEW v \in Users, Elapse(v)
        PROVE  tokens'[u].uuid = tokens[u].uuid
    BY <2>2 DEF Elapse, TypedCalls, TypeOK, TokenRow
  <2> QED
    BY <1>3, <2>1, <2>2 DEF Next, vars
<1>4. TypedCalls /\ RecentTokens /\ [Next]_vars =>
        [\A u \in Users : tokens[u].recent /\ (\A c \in Calls : ~Spending(c, u))
            => tokens'[u].uuid = tokens[u].uuid]_vars
  BY <1>3
<1> QED
  BY <1>1, <1>2, <1>4, PTL DEF Spec, MailedLinkStands

-----------------------------------------------------------------------------
(* The entity a call holds: its status and its password are those of the    *)
(* row, or what the call held before.  The one that brings a new status     *)
(* brings ACTIVE; a new password comes with a signup of a user that is not  *)
(* active, or a restorePassword.                                            *)
Loaded(c, st, u) ==
  /\ \/ st.entity.status \in {NotLoaded, "ACTIVE", users[u].status}
     \/ call[c].user = u /\ st.entity.status = call[c].entity.status
  /\ \/ users[u].status # "ACTIVE"
     \/ st.kind = "restore"
     \/ call[c].user = u /\ Registering(c)
     \/ /\ ~(/\ st.kind = "update"
            /\ st.at \notin {"token.find", "token.remove", "token.insert"})
        /\ \/ st.entity.password \in {NotLoaded, users[u].password}
           \/ call[c].user = u /\ st.entity.password = call[c].entity.password

LEMMA EntityHeld ==
  ASSUME TypedCalls, NEW c \in Calls, Start(c) \/ Advance(c) \/ Abort(c),
         NEW u \in Users, call'[c].user = u
  PROVE  Loaded(c, call'[c], u)
<1>0. TypeOK /\ Sound(call[c]) /\ call[c] \in CallState
  BY DEF TypedCalls, TypeOK
<1>1. ASSUME NEW st, Become(c, st), st.user = u => Loaded(c, st, u)
      PROVE  Loaded(c, call'[c], u)
  BY <1>0, <1>1, Becomes
<1>2. CASE Start(c)
  <2>1. ASSUME NEW v \in Users, NEW password \in Passwords, NEW k \in Codes,
               Signup(c, v, password, k)
        PROVE  Loaded(c, call'[c], u)
    BY <1>1, <2>1 DEF Signup, Idle, NoEntity, Loaded
  <2>2. ASSUME NEW v \in Users, NEW password \in Passwords,
               SandboxCreate(c, v, password) \/ RestorePassword(c, v, password)
        PROVE  Loaded(c, call'[c], u)
    BY <1>1, <2>2 DEF SandboxCreate, RestorePassword, Idle, NoEntity, Loaded
  <2>3. ASSUME NEW v \in Users, EmailVerification(c, v) \/ LoadProfile(c, v)
        PROVE  Loaded(c, call'[c], u)
    BY <1>1, <2>3 DEF EmailVerification, LoadProfile, Idle, NoEntity, Loaded
  <2>4. ASSUME NEW v \in Users, SandboxActivate(c, v)
        PROVE  Loaded(c, call'[c], u)
    BY <1>0, <1>1, <2>4 DEF SandboxActivate, Idle, NoEntity, Loaded, TypeOK, UserRow
  <2>5. ASSUME NEW v \in Users, ResendVerificationEmail(c, v) \/ ForgotPassword(c, v)
        PROVE  Loaded(c, call'[c], u)
    BY <1>1, <2>5 DEF ResendVerificationEmail, ForgotPassword, SendTo, Idle, NoEntity, Loaded
  <2> QED
    BY <1>2, <2>1, <2>2, <2>3, <2>4, <2>5 DEF Start
<1>3. Idle.user # u
  BY AccountsAssumption DEF Idle
<1>4. Loaded(c, Saved(call[c]), u) \/ Saved(call[c]).user # u
  BY <1>0, <1>3 DEF Loaded, Saved, Idle, NoEntity, Registering, Sound
<1>5. CASE FindReferralCode(c)
  BY <1>0, <1>1, <1>5 DEF FindReferralCode, Goto, Loaded, CallState, Registering
<1>6. CASE FindOwner(c)
  <2>1. PICK owner : Become(c, [call[c] EXCEPT
                !.at = InsertOrFind(call[c].kind), !.code = None,
                !.entity = [call[c].entity EXCEPT !.referredBy = owner]])
    BY <1>6 DEF FindOwner
  <2>2. call[c].entity \in Entity
    BY <1>0, EntityColumns
  <2>3. call[c].at = "owner.find"
    BY <1>6 DEF FindOwner
  <2> QED
    BY <1>0, <1>1, <2>1, <2>2, <2>3 DEF Loaded, CallState, Entity, Registering, InsertOrFind
<1>7. CASE InsertUser(c)
  BY <1>0, <1>1, <1>3, <1>7 DEF InsertUser, Loaded, CallState, Registering, NoEntity
<1>8. CASE UpdateOne(c)
  BY <1>0, <1>1, <1>8 DEF UpdateOne, Loaded, CallState, Registering, Entity, Sound
<1>9. CASE SelectUser(c)
  BY <1>0, <1>1, <1>9 DEF SelectUser, Loaded, CallState, Registering, Differing
<1>10. CASE UpdateUser(c)
  BY <1>0, <1>1, <1>4, <1>10
     DEF UpdateUser, AfterSave, Loaded, CallState, Registering, NoEntity
<1>11. ASSUME NEW k \in Codes, CreateCode(c, k)
       PROVE  Loaded(c, call'[c], u)
  BY <1>0, <1>1, <1>11 DEF CreateCode, Loaded, CallState, Registering, Entity
<1>12. CASE FindReferrer(c) \/ FindUses(c) \/ SaveUses(c)
  BY <1>0, <1>1, <1>12 DEF FindReferrer, FindUses, SaveUses, Loaded, CallState, Registering
<1>13. CASE RemoveToken(c)
  BY <1>0, <1>1, <1>3, <1>13 DEF RemoveToken, Loaded, CallState, Registering
<1>14. CASE RemoveSpentToken(c) \/ \E uuid \in Uuids : InsertToken(c, uuid)
  BY <1>1, <1>3, <1>14 DEF RemoveSpentToken, InsertToken
<1>15. CASE FindToken(c) \/ ReplaceToken(c)
  BY <1>0, <1>1, <1>15 DEF FindToken, ReplaceToken, Goto, Loaded, CallState, Registering
<1>16. CASE FindSpentToken(c)
  BY <1>0, <1>1, <1>3, <1>16 DEF FindSpentToken, Loaded, CallState, Registering, Sound
<1>17. CASE Abort(c)
  BY <1>0, <1>1, <1>3, <1>4, <1>17 DEF Abort, Loaded, CallState, Registering
<1> QED
  BY <1>2, <1>5, <1>6, <1>7, <1>8, <1>9, <1>10, <1>11, <1>12, <1>13, <1>14, <1>15,
     <1>16, <1>17 DEF Advance

(* The row of u: written by InsertUser when it is not there, and by the     *)
(* save of an entity of u.                                                  *)
LEMMA RowStep ==
  ASSUME TypeOK, NEW c \in Calls, Start(c) \/ Advance(c) \/ Abort(c),
         NEW u \in Users, users[u].status = "ACTIVE"
  PROVE  \/ users'[u] = users[u]
         \/ /\ Holds(c, u)
            /\ users'[u].status = Written(call[c].entity.status, "ACTIVE")
            /\ users'[u].password = Written(call[c].entity.password, users[u].password)
<1>1. CASE Start(c)
  BY <1>1, StartCall
<1>2. CASE InsertUser(c)
  BY <1>2 DEF InsertUser, TypeOK
<1>3. CASE UpdateUser(c)
  <2>1. CASE call[c].user = u
    BY <1>3, <2>1 DEF UpdateUser, TypeOK, Holds
  <2>2. CASE call[c].user # u
    BY <1>3, <2>2 DEF UpdateUser, TypeOK
  <2> QED
    BY <2>1, <2>2
<1>4. CASE Advance(c)
  BY <1>2, <1>3, <1>4
     DEF Advance, FindReferralCode, FindOwner, UpdateOne, SelectUser, CreateCode,
         FindReferrer, FindUses, SaveUses, RemoveToken, FindSpentToken,
         RemoveSpentToken, FindToken, ReplaceToken, InsertToken
<1> QED
  BY <1>1, <1>4 DEF Abort

LEMMA VerifiedStays ==
  ASSUME TypedCalls, NEW c \in Calls, Start(c) \/ Advance(c) \/ Abort(c),
         NEW u \in Users, Verified(u)
  PROVE  Verified(u)'
<1>0. TypeOK
  BY DEF TypedCalls
<1>1. users'[u].status = "ACTIVE"
  BY <1>0, RowStep DEF Verified, Written, Holds
<1>2. \A d \in Calls \ {c} : call'[d] = call[d]
  BY CallSteps, Becomes DEF TypedCalls
<1>3. ASSUME NEW d \in Calls, Holds(d, u)'
      PROVE  call'[d].entity.status \in {NotLoaded, "ACTIVE"}
  <2>1. CASE d = c
    BY <1>3, <2>1, EntityHeld DEF Loaded, Verified, Holds
  <2>2. CASE d # c
    BY <1>2, <1>3, <2>2 DEF Verified, Holds
  <2> QED
    BY <2>1, <2>2
<1> QED
  BY <1>1, <1>3 DEF Verified

LEMMA PasswordStays ==
  ASSUME TypedCalls, NEW c \in Calls, Start(c) \/ Advance(c) \/ Abort(c),
         NEW u \in Users, PasswordKept(u)
  PROVE  /\ users'[u].password = users[u].password
         /\ PasswordKept(u)' \/ \E d \in Calls : Holds(d, u)' /\ Restoring(d)'
<1>0. TypeOK
  BY DEF TypedCalls
<1>1. users'[u].password = users[u].password
  BY <1>0, RowStep DEF PasswordKept, Verified, Written, Holds
<1>2. Verified(u)'
  BY VerifiedStays DEF PasswordKept
<1>3. \A d \in Calls \ {c} : call'[d] = call[d]
  BY CallSteps, Becomes DEF TypedCalls
<1>4. ASSUME NEW d \in Calls, Holds(d, u)', ~Restoring(c)' \/ ~Holds(c, u)'
      PROVE  /\ ~Registering(d)' /\ ~Restoring(d)'
             /\ call'[d].entity.password \in {NotLoaded, users[u].password}
  <2>1. CASE d = c
    <3>1. Loaded(c, call'[c], u)
      BY <1>4, <2>1, EntityHeld DEF Holds
    <3> QED
      BY <1>4, <2>1, <3>1 DEF Loaded, PasswordKept, Verified, Holds, Registering, Restoring
  <2>2. CASE d # c
    BY <1>3, <1>4, <2>2 DEF PasswordKept, Holds, Registering, Restoring
  <2> QED
    BY <2>1, <2>2
<1> QED
  BY <1>1, <1>2, <1>4 DEF PasswordKept

(* An active user stays active, whatever calls run side by side. *)
THEOREM ActiveStays == Spec => ActiveIsFinal
<1>1. ASSUME TypedCalls, [Next]_vars, NEW u \in Users, Verified(u)
      PROVE  Verified(u)' 
  <2>1. ASSUME NEW v \in Users, Elapse(v)
        PROVE  Verified(u)'
    BY <1>1, <2>1 DEF Elapse, Verified, Holds
  <2> QED
    BY <1>1, <2>1, VerifiedStays DEF Next, vars, Verified, Holds
<1>2. TypedCalls /\ [Next]_vars => [\A u \in Users : Verified(u) => Verified(u)']_vars
  BY <1>1
<1> QED
  BY <1>2, TypedInit, TypedNext, PTL DEF Spec, ActiveIsFinal

(* The password of an active user is changed by restorePassword alone. *)
THEOREM PasswordsStay == Spec => OnlyRestoreChangesPassword
<1>1. ASSUME TypedCalls, [Next]_vars, NEW u \in Users, PasswordKept(u)
      PROVE  /\ users'[u].password = users[u].password
             /\ PasswordKept(u)' \/ \E c \in Calls : Holds(c, u)' /\ Restoring(c)'
  <2>1. ASSUME UNCHANGED <<users, call>>
        PROVE  users'[u].password = users[u].password /\ PasswordKept(u)'
    BY <1>1, <2>1 DEF PasswordKept, Verified, Holds, Registering, Restoring
  <2> QED
    BY <1>1, <2>1, PasswordStays DEF Next, Elapse, vars
<1>2. TypedCalls /\ [Next]_vars =>
        [\A u \in Users : PasswordKept(u) =>
            /\ users'[u].password = users[u].password
            /\ PasswordKept(u)' \/ \E c \in Calls : Holds(c, u)' /\ Restoring(c)']_vars
  BY <1>1
<1> QED
  BY <1>2, TypedInit, TypedNext, PTL DEF Spec, OnlyRestoreChangesPassword

-----------------------------------------------------------------------------
(* Counts and codes: what a step does to them is one of the ways in which   *)
(* counters that are read and written back may proceed.                     *)
CountsAdvance(k) ==
  Proceeds(Counts(k), Counts(k)', Uncounted, Uncounted', Cardinality(Issued),
           Cardinality(Issued)')

CountsTyped == /\ IsFiniteSet(Issued) /\ Cardinality(Issued) \in Nat
               /\ \A k \in Codes : Counts(k) \subseteq Nat

LEMMA IssuedCount == TypeOK => CountsTyped
<1> SUFFICES ASSUME TypeOK
             PROVE  CountsTyped
  OBVIOUS
<1>1. IsFiniteSet(Issued)
  BY AccountsAssumption, FS_Subset DEF Issued
<1>2. \A c \in Calls : call[c].count \in Nat
  BY DEF TypeOK, CallState
<1>3. ASSUME NEW k \in Codes
      PROVE  Counts(k) \subseteq Nat
  <2>1. uses[k] \in Nat \cup {None}
    BY DEF TypeOK
  <2>2. {uses[k]} \ {None} \subseteq Nat
    BY <2>1
  <2>3. {call[c].count + 1 : c \in Writing(k)} \subseteq Nat
    BY <1>2 DEF Writing
  <2> QED
    BY <2>2, <2>3 DEF Counts
<1> QED
  BY <1>1, <1>3, FS_CardinalityType DEF CountsTyped

(* A step of a call that does not read, write or issue a code. *)
NoCount(c) ==
  \/ call'[c].at \notin {"referrer.find", "uses.find", "uses.save"}
  \/ call[c].at = "referrer.find" /\ call'[c].at = "uses.find"
  \/ /\ call'[c].at = call[c].at /\ call'[c].code = call[c].code
     /\ call'[c].count = call[c].count

LEMMA NotCounting ==
  ASSUME TypeOK, NEW c \in Calls, \A d \in Calls \ {c} : call'[d] = call[d],
         NEW k \in Codes, UNCHANGED uses, NoCount(c)
  PROVE  CountsAdvance(k)
<1>1. Uncounted' \subseteq Uncounted
  BY DEF Uncounted, NoCount
<1>2. /\ Writing(k)' \subseteq Writing(k)
      /\ \A d \in Writing(k)' : call'[d].count = call[d].count
  BY DEF Writing, NoCount
<1>3. Counts(k)' \subseteq Counts(k)
  BY <1>2 DEF Counts
<1>4. Cardinality(Issued)' = Cardinality(Issued) /\ Cardinality(Issued) \in Nat
  BY IssuedCount DEF Issued, CountsTyped
<1> QED
  BY <1>1, <1>3, <1>4 DEF CountsAdvance, Proceeds

LEMMA IssueCode ==
  ASSUME TypeOK, NEW c \in Calls, \A d \in Calls \ {c} : call'[d] = call[d],
         NEW k \in Codes, NEW j \in Codes, CreateCode(c, j), j # SeedCode
  PROVE  CountsAdvance(k)
<1>0. call'[c].at = "referrer.find"
  <2>1. call'[c] = [call[c] EXCEPT !.at = "referrer.find",
                                !.entity = [call[c].entity EXCEPT !.referralCode = j]]
    BY Becomes DEF CreateCode
  <2>2. call[c] \in CallState
    BY DEF TypeOK
  <2> QED
    BY <2>1, <2>2 DEF CallState
<1>1. Uncounted' \subseteq Uncounted \cup {c}
  BY DEF Uncounted
<1>2. /\ Writing(k)' \subseteq Writing(k)
      /\ \A d \in Writing(k)' : call'[d] = call[d]
  BY <1>0 DEF Writing
<1>3. uses'[k] \in {0, uses[k]}
  BY DEF CreateCode, TypeOK
<1>4. Counts(k)' \subseteq Counts(k)
  BY <1>2, <1>3 DEF Counts
<1>5. Cardinality(Issued)' = Cardinality(Issued) + 1
  <2>1. Issued' = Issued \cup {j} /\ j \notin Issued
    <3>1. 0 # None
      BY AccountsAssumption
    <3>2. uses \in [Codes -> Nat \cup {None}]
      BY DEF TypeOK
    <3>3. uses[j] = None /\ uses' = [uses EXCEPT ![j] = 0]
      BY DEF CreateCode
    <3> QED
      BY <3>1, <3>2, <3>3 DEF Issued
  <2> QED
    BY <2>1, IssuedCount, FS_AddElement DEF CountsTyped
<1> QED
  BY <1>1, <1>4, <1>5 DEF CountsAdvance, Proceeds

LEMMA ReadUses ==
  ASSUME TypeOK, NEW c \in Calls, \A d \in Calls \ {c} : call'[d] = call[d],
         NEW k \in Codes, FindUses(c)
  PROVE  CountsAdvance(k)
<1>0. /\ call'[c].at = "uses.save" /\ call'[c].code = call[c].code
      /\ call'[c].count = uses[call[c].code]
  <2>1. call'[c] = [call[c] EXCEPT !.at = "uses.save", !.count = uses[call[c].code]]
    BY Becomes DEF FindUses
  <2>2. call[c] \in CallState
    BY DEF TypeOK
  <2> QED
    BY <2>1, <2>2 DEF CallState
<1>1. c \in Uncounted /\ Uncounted' = Uncounted \ {c}
  BY <1>0 DEF Uncounted, FindUses
<1>2. Writing(k)' \subseteq Writing(k) \cup {c} /\ (Writing(k)' \subseteq Writing(k) \/ k = call[c].code)
  BY <1>0 DEF Writing
<1>3. \A d \in Writing(k) : d # c /\ call'[d] = call[d]
  BY DEF Writing, FindUses
<1>4. UNCHANGED uses
  BY DEF FindUses
<1>5. Cardinality(Issued)' = Cardinality(Issued)
  BY <1>4 DEF Issued
<1>6. CASE Writing(k)' \subseteq Writing(k)
  <2>1. Counts(k)' \subseteq Counts(k)
    BY <1>3, <1>4, <1>6 DEF Counts
  <2>2. Uncounted' \subseteq Uncounted /\ Cardinality(Issued) <= Cardinality(Issued)'
    BY <1>1, <1>5, IssuedCount DEF CountsTyped
  <2> QED
    BY <2>1, <2>2 DEF CountsAdvance, Proceeds
<1>7. CASE k = call[c].code
  <2>1. uses[k] \in Counts(k)
    BY <1>7 DEF Counts, FindUses
  <2>2. Counts(k)' \subseteq Counts(k) \cup {uses[k] + 1}
    BY <1>0, <1>2, <1>3, <1>4, <1>7 DEF Counts
  <2> QED
    BY <1>1, <1>5, <2>1, <2>2 DEF CountsAdvance, Proceeds
<1> QED
  BY <1>2, <1>6, <1>7

LEMMA WriteUses ==
  ASSUME TypeOK, NEW c \in Calls, \A d \in Calls \ {c} : call'[d] = call[d],
         NEW k \in Codes, SaveUses(c), uses[call[c].code] # None
  PROVE  CountsAdvance(k)
<1>0. call'[c].at = "user.select"
  <2>1. call'[c] = [call[c] EXCEPT !.at = "user.select", !.code = None, !.count = 0]
    BY Becomes DEF SaveUses
  <2>2. call[c] \in CallState
    BY DEF TypeOK
  <2> QED
    BY <2>1, <2>2 DEF CallState
<1>1. Uncounted' \subseteq Uncounted
  BY <1>0 DEF Uncounted
<1>2. Writing(k)' \subseteq Writing(k) /\ \A d \in Writing(k)' : call'[d] = call[d]
  BY <1>0 DEF Writing
<1>3. \/ uses'[k] = uses[k]
      \/ c \in Writing(k) /\ uses'[k] = call[c].count + 1
  <2>1. uses \in [Codes -> Nat \cup {None}]
    BY DEF TypeOK
  <2>2. uses' = [uses EXCEPT ![call[c].code] = call[c].count + 1] /\ call[c].at = "uses.save"
    BY DEF SaveUses
  <2> DEFINE n == call[c].count + 1
  <2> HIDE DEF n
  <2>5. uses' = [uses EXCEPT ![call[c].code] = n]
    BY <2>2 DEF n
  <2>3. CASE call[c].code = k
    <3>1. c \in Writing(k)
      BY <2>2, <2>3 DEF Writing
    <3> QED
      BY <2>1, <2>2, <2>3, <3>1
  <2>4. CASE call[c].code # k
    BY <2>1, <2>4, <2>5
  <2> QED
    BY <2>3, <2>4
<1>4. Counts(k)' \subseteq Counts(k)
  BY <1>2, <1>3 DEF Counts
<1>5. Cardinality(Issued)' = Cardinality(Issued) /\ Cardinality(Issued) \in Nat
  <2>1. call[c].count + 1 \in Nat
    BY DEF TypeOK, CallState
  <2>2. uses \in [Codes -> Nat \cup {None}] /\ call[c].count + 1 # None
    BY <2>1, AccountsAssumption DEF TypeOK
  <2>3. uses' = [uses EXCEPT ![call[c].code] = call[c].count + 1]
    BY DEF SaveUses
  <2>4. \A j \in Codes : uses'[j] = None <=> uses[j] = None
    BY <2>2, <2>3
  <2>5. Issued' = Issued
    BY <2>4 DEF Issued
  <2> QED
    BY <2>5, IssuedCount DEF CountsTyped
<1> QED
  BY <1>1, <1>4, <1>5 DEF CountsAdvance, Proceeds

(* The calls that are at a step of this kind are few. *)
LEMMA OtherSteps ==
  ASSUME TypedCalls, NEW c \in Calls, Start(c) \/ Advance(c) \/ Abort(c)
  PROVE  \/ NoCount(c) /\ UNCHANGED uses
         \/ (\E k \in Codes : CreateCode(c, k)) \/ FindUses(c) \/ SaveUses(c)
<1>0. TypeOK /\ Sound(call[c]) /\ call[c] \in CallState
  BY DEF TypedCalls, TypeOK
<1>1. ASSUME NEW st, Become(c, st),
             \/ st.at \notin {"referrer.find", "uses.find", "uses.save"}
             \/ call[c].at = "referrer.find" /\ st.at = "uses.find"
             \/ st.at = call[c].at /\ st.code = call[c].code /\ st.count = call[c].count
      PROVE  NoCount(c)
  BY <1>0, <1>1, Becomes DEF NoCount
<1>2. CASE Start(c)
  <2>1. ASSUME NEW u \in Users, NEW password \in Passwords, NEW k \in Codes,
               Signup(c, u, password, k)
        PROVE  NoCount(c)
    BY <1>1, <2>1 DEF Signup, Idle, WithReferral, InsertOrFind
  <2>2. ASSUME NEW u \in Users, NEW password \in Passwords,
               SandboxCreate(c, u, password) \/ RestorePassword(c, u, password)
        PROVE  NoCount(c)
    BY <1>1, <2>2 DEF SandboxCreate, RestorePassword, Idle
  <2>3. ASSUME NEW u \in Users,
               \/ SandboxActivate(c, u) \/ EmailVerification(c, u) \/ LoadProfile(c, u)
               \/ ResendVerificationEmail(c, u) \/ ForgotPassword(c, u)
        PROVE  NoCount(c)
    BY <1>1, <2>3 DEF SandboxActivate, EmailVerification, LoadProfile, SendTo,
                      ResendVerificationEmail, ForgotPassword, Idle, WithReferral
  <2> QED
    BY <1>0, <1>2, <2>1, <2>2, <2>3, StartCall DEF Start
<1>3. Idle.at = "idle" /\ Saved(call[c]).at \in {"idle", "saved"}
  BY DEF Idle, Saved
<1>4. CASE FindReferralCode(c) \/ FindOwner(c) \/ UpdateOne(c) \/ SelectUser(c)
  <2>1. CASE FindOwner(c)
    <3>1. PICK owner : Become(c, [call[c] EXCEPT
              !.at = InsertOrFind(call[c].kind), !.code = None,
              !.entity = [call[c].entity EXCEPT !.referredBy = owner]])
      BY <2>1 DEF FindOwner
    <3>2. [call[c] EXCEPT
              !.at = InsertOrFind(call[c].kind), !.code = None,
              !.entity = [call[c].entity EXCEPT !.referredBy = owner]].at
            \in {"user.insert", "user.find"}
      BY <1>0 DEF InsertOrFind, CallState
    <3> QED
      BY <1>1, <2>1, <3>1, <3>2 DEF FindOwner
  <2>2. CASE FindReferralCode(c) \/ SelectUser(c)
    BY <1>0, <1>1, <2>2 DEF FindReferralCode, SelectUser, Goto, CallState
  <2>3. CASE UpdateOne(c)
    BY <1>0, <1>1, <2>3 DEF UpdateOne, CallState
  <2> QED
    BY <1>4, <2>1, <2>2, <2>3
<1>5. CASE InsertUser(c) \/ UpdateUser(c)
  BY <1>0, <1>1, <1>3, <1>5 DEF InsertUser, UpdateUser, AfterSave, CallState
<1>6. CASE FindReferrer(c)
  BY <1>0, <1>1, <1>6 DEF FindReferrer, CallState
<1>7. CASE RemoveToken(c) \/ RemoveSpentToken(c) \/ ReplaceToken(c)
  BY <1>0, <1>1, <1>3, <1>7 DEF RemoveToken, RemoveSpentToken, ReplaceToken, CallState
<1>8. CASE FindToken(c) \/ FindSpentToken(c)
  BY <1>0, <1>1, <1>3, <1>8 DEF FindToken, FindSpentToken, Goto, CallState
<1>9. CASE \E uuid \in Uuids : InsertToken(c, uuid)
  BY <1>1, <1>3, <1>9 DEF InsertToken
<1>10. CASE Abort(c)
  BY <1>0, <1>1, <1>3, <1>10 DEF Abort, CallState
<1> QED
  BY <1>2, <1>4, <1>5, <1>6, <1>7, <1>8, <1>9, <1>10 DEF Advance

(* Codes are never dropped, and a call that saves a count has found it. *)
CodesFound ==
  /\ uses[SeedCode] # None
  /\ \A c \in Calls : call[c].at = "uses.save" => uses[call[c].code] # None

LEMMA FoundStays ==
  ASSUME TypedCalls, CodesFound, NEW c \in Calls, Start(c) \/ Advance(c) \/ Abort(c)
  PROVE  CodesFound'
<1>0. TypeOK /\ Sound(call[c]) /\ call[c] \in CallState
  BY DEF TypedCalls, TypeOK
<1>1. \A k \in Codes : uses[k] # None => uses'[k] # None
  <2>1. /\ 0 # None /\ call[c].count + 1 # None
        /\ uses \in [Codes -> Nat \cup {None}]
    BY <1>0, AccountsAssumption DEF CallState, TypeOK
  <2> QED
    BY <1>0, <2>1, UsesStep DEF CreateCode, SaveUses
<1>2. \A d \in Calls \ {c} : call'[d] = call[d]
  BY CallSteps, Becomes DEF TypedCalls
<1>3. ASSUME NEW d \in Calls, call[d].at = "uses.save"
      PROVE  call[d].code \in Codes
  BY <1>3 DEF TypedCalls, Sound
<1>4. ASSUME call'[c].at = "uses.save"
      PROVE  uses'[call'[c].code] # None
  <2>1. CASE NoCount(c)
    BY <1>1, <1>3, <1>4, <2>1 DEF NoCount, CodesFound
  <2>2. CASE FindUses(c)
    <3>1. call'[c] = [call[c] EXCEPT !.at = "uses.save", !.count = uses[call[c].code]]
      BY <1>0, <2>2, Becomes DEF FindUses
    <3> QED
      BY <1>0, <2>2, <3>1 DEF FindUses, CallState
  <2>3. CASE SaveUses(c)
    <3>1. call'[c] = [call[c] EXCEPT !.at = "user.select", !.code = None, !.count = 0]
      BY <1>0, <2>3, Becomes DEF SaveUses
    <3> QED
      BY <1>0, <1>4, <3>1 DEF CallState
  <2>4. ASSUME NEW k \in Codes, CreateCode(c, k)
        PROVE  FALSE
    <3>1. call'[c] = [call[c] EXCEPT !.at = "referrer.find",
                                !.entity = [call[c].entity EXCEPT !.referralCode = k]]
      BY <1>0, <2>4, Becomes DEF CreateCode
    <3> QED
      BY <1>0, <1>4, <3>1 DEF CallState
  <2> QED
    BY <2>1, <2>2, <2>3, <2>4, OtherSteps
<1> QED
  BY <1>1, <1>2, <1>3, <1>4, AccountsAssumption DEF CodesFound

LEMMA CountsNext ==
  ASSUME TypedCalls, CodesFound, CountsInv, [Next]_vars
  PROVE  CodesFound' /\ CountsInv'
<1>0. TypedCalls'
  BY TypedNext
<1>1. ASSUME NEW c \in Calls, Start(c) \/ Advance(c) \/ Abort(c)
      PROVE  CodesFound' /\ CountsInv'
  <2>1. \A d \in Calls \ {c} : call'[d] = call[d]
    BY <1>1, CallSteps, Becomes DEF TypedCalls
  <2>2. ASSUME NEW k \in Codes
        PROVE  CountsAdvance(k)
    <3>1. CASE NoCount(c) /\ UNCHANGED uses
      BY <2>1, <3>1, NotCounting DEF TypedCalls
    <3>2. ASSUME NEW j \in Codes, CreateCode(c, j)
          PROVE  CountsAdvance(k)
      <4>1. j # SeedCode
        BY <3>2 DEF CreateCode, CodesFound
      <4> QED
        BY <2>1, <3>2, <4>1, IssueCode DEF TypedCalls
    <3>3. CASE FindUses(c)
      BY <2>1, <3>3, ReadUses DEF TypedCalls
    <3>4. CASE SaveUses(c)
      <4>1. uses[call[c].code] # None
        BY <3>4 DEF SaveUses, CodesFound
      <4> QED
        BY <2>1, <3>4, <4>1, WriteUses DEF TypedCalls
    <3> QED
      BY <1>1, <3>1, <3>2, <3>3, <3>4, OtherSteps
  <2>3. ASSUME NEW k \in Codes
        PROVE  Counted(Counts(k), Uncounted, Cardinality(Issued))'
    <3>1. Counts(k) \subseteq Nat /\ Cardinality(Issued) \in Nat
      BY IssuedCount DEF TypedCalls, CountsTyped
    <3>2. Counts(k)' \subseteq Nat /\ Cardinality(Issued)' \in Nat
      <4>1. (TypeOK => CountsTyped)'
        BY IssuedCount, PTL
      <4> QED
        BY <1>0, <4>1 DEF TypedCalls, CountsTyped
    <3>3. Counted(Counts(k), Uncounted, Cardinality(Issued))
      BY DEF CountsInv, Counted
    <3>4. Uncounted \in SUBSET Calls /\ Uncounted' \in SUBSET Calls /\ IsFiniteSet(Calls)
      BY AccountsAssumption DEF Uncounted
    <3>5. Proceeds(Counts(k), Counts(k)', Uncounted, Uncounted', Cardinality(Issued),
                   Cardinality(Issued)')
      BY <2>2 DEF CountsAdvance
    <3>6. Counted(Counts(k)', Uncounted', Cardinality(Issued)')
      BY <3>1, <3>2, <3>3, <3>4, <3>5, ReadThenWrite
    <3> QED
      BY <3>6 DEF Counted
  <2> QED
    BY <1>1, <2>3, FoundStays DEF CountsInv, Counted
<1>2. CASE UNCHANGED <<uses, call>>
  BY <1>2 DEF CodesFound, CountsInv, Counts, Writing, Uncounted, Issued
<1> QED
  BY <1>1, <1>2 DEF Next, Elapse, vars

LEMMA CountsInit ==
  ASSUME Init
  PROVE  CodesFound /\ CountsInv
<1>1. Uncounted = {} /\ \A k \in Codes : Writing(k) = {}
  BY DEF Init, Idle, Uncounted, Writing
<1>2. 0 # None
  BY AccountsAssumption
<1>3. ASSUME NEW k \in Codes
      PROVE  Counts(k) = {0}
  BY <1>1, <1>3 DEF Init, Counts
<1>4. Cardinality(Uncounted) = 0
  BY <1>1, FS_EmptySet
<1>5. Cardinality(Issued) \in Nat
  BY TypedInit, IssuedCount DEF TypedCalls, CountsTyped
<1> QED
  BY <1>1, <1>2, <1>3, <1>4, <1>5, AccountsAssumption DEF Init, CountsInv, CodesFound, Idle

(* The inductive invariant. *)
LEMMA Inductive == Spec => []IInv
<1>1. Init => TypedCalls /\ RecentTokens /\ CodesFound /\ CountsInv
  BY TypedInit, RecentInit, CountsInit
<1>2. TypedCalls /\ RecentTokens /\ CodesFound /\ CountsInv /\ [Next]_vars
        => TypedCalls' /\ RecentTokens' /\ CodesFound' /\ CountsInv'
  BY TypedNext, RecentNext, CountsNext
<1>3. TypedCalls /\ RecentTokens /\ CodesFound /\ CountsInv => IInv
  BY DEF TypedCalls, RecentTokens, CodesFound, IInv
<1> QED
  BY <1>1, <1>2, <1>3, PTL DEF Spec

(* No code counts more uses than codes have been issued. *)
THEOREM UsesAreIssued == Spec => []UsesWereIssued
<1>1. IInv => UsesWereIssued
  <2>1. ASSUME IInv, NEW k \in Codes, uses[k] # None
        PROVE  uses[k] <= Cardinality(Issued)
    <3>1. uses[k] \in Counts(k) /\ uses[k] \in Nat
      BY <2>1 DEF Counts, IInv, TypeOK
    <3>2. uses[k] + Cardinality(Uncounted) <= Cardinality(Issued)
      BY <2>1, <3>1 DEF IInv, CountsInv
    <3>3. IsFiniteSet(Uncounted)
      BY AccountsAssumption, FS_Subset DEF Uncounted
    <3>4. Cardinality(Uncounted) \in Nat
      BY <3>3, FS_CardinalityType
    <3>5. Cardinality(Issued) \in Nat
      BY <2>1, IssuedCount DEF IInv, CountsTyped
    <3> QED
      BY <3>1, <3>2, <3>4, <3>5
  <2> QED
    BY <2>1 DEF UsesWereIssued
<1> QED
  BY <1>1, Inductive, PTL
=============================================================================
