-------------------------- MODULE WalletAuthProofs --------------------------
(* Theorems about WalletAuth for every value of its constants. *)
EXTENDS WalletAuth, CountingLemmas

LEMMA InitType == Init => TypeOK
<1> SUFFICES ASSUME Init PROVE TypeOK
  OBVIOUS
<1>1. NoKey \in KeyRow /\ NoSession \in SessionRow /\ NoChallenge \in ChallengeRow
  BY DEF NoKey, NoSession, NoChallenge, KeyRow, SessionRow, ChallengeRow
<1>2. Idle \in RequestState
  BY DEF Idle, RequestState, Steps, Columns
<1> QED
  BY <1>1, <1>2 DEF Init, TypeOK

LEMMA BecomeType ==
  ASSUME TypeOK, NEW r \in Requests, NEW st \in RequestState, Become(r, st)
  PROVE  req' \in [Requests -> RequestState]
  BY DEF TypeOK, Become

LEMMA FinishType ==
  ASSUME TypeOK, NEW r \in Requests, Finish(r)
  PROVE  req' \in [Requests -> RequestState]
<1>1. Idle \in RequestState
  BY DEF Idle, RequestState, Steps, Columns
<1> QED
  BY <1>1, BecomeType DEF Finish

LEMMA AdvanceType ==
  ASSUME TypeOK, NEW r \in Requests, NEW step \in Steps, Advance(r, step)
  PROVE  req' \in [Requests -> RequestState]
<1>1. [req[r] EXCEPT !.at = step] \in RequestState
  BY DEF TypeOK, RequestState
<1> QED
  BY <1>1, BecomeType DEF Advance

(* The request after a step that also sets one of its locals. *)
LEMMA LocalTypes ==
  ASSUME TypeOK, NEW r \in Requests, NEW step \in Steps
  PROVE  /\ \A d \in SUBSET Columns :
              [req[r] EXCEPT !.at = step, !.dirty = d] \in RequestState
         /\ \A v \in SUBSET Tokens :
              [req[r] EXCEPT !.at = step, !.victims = v] \in RequestState
         /\ \A e \in Nat :
              [req[r] EXCEPT !.at = step, !.expires = e] \in RequestState
         /\ \A f \in SUBSET Keys :
              [req[r] EXCEPT !.at = step, !.found = f] \in RequestState
         /\ \A w \in Wallets, u \in SUBSET Keys, f \in SUBSET Keys :
              [req[r] EXCEPT !.at = step, !.wallet = w, !.revoked = u,
                             !.found = f] \in RequestState
<1>1. req[r] \in RequestState
  BY DEF TypeOK
<1> QED
  BY <1>1 DEF RequestState

LEMMA InitiateAuthType ==
  ASSUME TypeOK, NEW r \in Requests, InitiateAuth(r)
  PROVE  TypeOK'
<1> USE LimitsAssumption
<1>1. ASSUME NEW w \in Wallets, CleanupExpiredChallenges(r, w) PROVE TypeOK'
  <2>1. req' \in [Requests -> RequestState]
    BY <1>1 DEF CleanupExpiredChallenges, Begin, Become, TypeOK, Idle, RequestState, Steps, Columns
  <2>2. challenges' \in [Codes -> ChallengeRow]
    BY <1>1 DEF CleanupExpiredChallenges, TypeOK, ChallengeRow
  <2> QED
    BY <1>1, <2>1, <2>2 DEF CleanupExpiredChallenges, TypeOK
<1>2. ASSUME NEW c \in Codes, StoreChallenge(r, c) PROVE TypeOK'
  <2>1. req' \in [Requests -> RequestState]
    BY <1>2, FinishType DEF StoreChallenge
  <2>2. challenges' \in [Codes -> ChallengeRow]
    BY <1>2 DEF StoreChallenge, TypeOK, ChallengeRow, RequestState
  <2> QED
    BY <1>2, <2>1, <2>2 DEF StoreChallenge, TypeOK
<1> QED
  BY <1>1, <1>2 DEF InitiateAuth

LEMMA RegisterKeyType ==
  ASSUME TypeOK, NEW r \in Requests, RegisterKey(r)
  PROVE  TypeOK'
<1> USE LimitsAssumption
<1>1. ASSUME NEW w \in Wallets, NEW k \in Keys, NEW c \in Codes,
             FindChallenge(r, w, k, c)
      PROVE TypeOK'
  <2>1. req' \in [Requests -> RequestState]
    BY <1>1 DEF FindChallenge, Begin, Become, TypeOK, Idle, RequestState, Steps, Columns
  <2> QED
    BY <1>1, <2>1 DEF FindChallenge, TypeOK
<1>2. CASE CountKeys(r)
  <2>1. req' \in [Requests -> RequestState]
    BY <1>2, FinishType, AdvanceType DEF CountKeys, Steps
  <2> QED
    BY <1>2, <2>1 DEF CountKeys, TypeOK
<1>3. CASE FindPublicKey(r)
  <2>1. req' \in [Requests -> RequestState]
    BY <1>3, FinishType, AdvanceType DEF FindPublicKey, Steps
  <2> QED
    BY <1>3, <2>1 DEF FindPublicKey, TypeOK
<1>4. CASE InsertKey(r)
  <2>1. req' \in [Requests -> RequestState]
    BY <1>4, FinishType, AdvanceType DEF InsertKey, Steps
  <2>2. \A lifetime \in KeyLifetimes :
           [status |-> "active", wallet |-> req[r].wallet,
            expiresAt |-> now + lifetime] \in KeyRow
    <3>1. now \in Nat /\ req[r].wallet \in Wallets \cup {None}
      BY DEF TypeOK, RequestState
    <3>2. \A lifetime \in KeyLifetimes : now + lifetime \in Nat
      BY <3>1
    <3> QED
      BY <3>1, <3>2 DEF KeyRow
  <2>3. keys' \in [Keys -> KeyRow]
    BY <1>4, <2>2 DEF InsertKey, TypeOK
  <2> QED
    BY <1>4, <2>1, <2>3 DEF InsertKey, TypeOK
<1>5. CASE LoadChallenge(r)
  <2>1. req' \in [Requests -> RequestState]
    BY <1>5, LocalTypes, BecomeType DEF LoadChallenge, ChallengeDirty, Steps
  <2> QED
    BY <1>5, <2>1 DEF LoadChallenge, TypeOK
<1>6. CASE WriteChallenge(r)
  <2>1. req' \in [Requests -> RequestState]
    BY <1>6, FinishType DEF WriteChallenge
  <2>2. challenges' \in [Codes -> ChallengeRow]
    BY <1>6 DEF WriteChallenge, TypeOK, ChallengeRow
  <2> QED
    BY <1>6, <2>1, <2>2 DEF WriteChallenge, TypeOK
<1> QED
  BY <1>1, <1>2, <1>3, <1>4, <1>5, <1>6 DEF RegisterKey

LEMMA AuthenticateType ==
  ASSUME TypeOK, NEW r \in Requests, Authenticate(r)
  PROVE  TypeOK'
<1> USE LimitsAssumption
<1>1. ASSUME NEW w \in Wallets, NEW k \in Keys, FindActiveKey(r, w, k)
      PROVE TypeOK'
  <2>1. req' \in [Requests -> RequestState]
    BY <1>1 DEF FindActiveKey, Begin, Become, TypeOK, Idle, RequestState, Steps, Columns
  <2> QED
    BY <1>1, <2>1 DEF FindActiveKey, TypeOK
<1>2. CASE FindOldSessions(r)
  <2>1. ASSUME NEW old \in SessionsToDeactivate(ActiveSessions(req[r].key))
        PROVE  old \subseteq Tokens
    BY <2>1 DEF SessionsToDeactivate, ActiveSessions
  <2>2. req' \in [Requests -> RequestState]
    BY <1>2, <2>1, LocalTypes, BecomeType, AdvanceType DEF FindOldSessions, Steps
  <2> QED
    BY <1>2, <2>2 DEF FindOldSessions, TypeOK
<1>3. CASE DeactivateOldSessions(r)
  <2>1. req' \in [Requests -> RequestState]
    BY <1>3, LocalTypes, BecomeType DEF DeactivateOldSessions, Steps
  <2>2. sessions' \in [Tokens -> SessionRow]
    BY <1>3 DEF DeactivateOldSessions, DeactivateSessions, TypeOK, SessionRow
  <2> QED
    BY <1>3, <2>1, <2>2 DEF DeactivateOldSessions, TypeOK
<1>4. ASSUME NEW t \in Tokens, InsertSession(r, t) PROVE TypeOK'
  <2>1. req' \in [Requests -> RequestState]
    BY <1>4, AdvanceType DEF InsertSession, Steps
  <2>2. /\ req[r].wallet \in Wallets \cup {None}
        /\ req[r].key \in Keys \cup {None}
        /\ now \in Nat /\ now + SESSION_EXPIRY \in Nat
    BY DEF TypeOK, RequestState
  <2>3. sessions' \in [Tokens -> SessionRow]
    <3> DEFINE row == [status |-> "active", wallet |-> req[r].wallet,
                       key |-> req[r].key, expiresAt |-> now + SESSION_EXPIRY,
                       createdAt |-> now]
    <3>1. row \in SessionRow
      BY <2>2 DEF SessionRow
    <3>2. sessions' = [sessions EXCEPT ![t] = row]
      BY <1>4 DEF InsertSession
    <3> HIDE DEF row
    <3> QED
      BY <3>1, <3>2 DEF TypeOK
  <2> QED
    BY <1>4, <2>1, <2>3 DEF InsertSession, TypeOK
<1>5. CASE LoadKey(r)
  <2>1. req' \in [Requests -> RequestState]
    BY <1>5, LocalTypes, BecomeType DEF LoadKey, Steps, Columns
  <2> QED
    BY <1>5, <2>1 DEF LoadKey, TypeOK
<1>6. CASE WriteKey(r)
  <2>1. req' \in [Requests -> RequestState]
    BY <1>6, FinishType DEF WriteKey
  <2>2. keys' \in [Keys -> KeyRow]
    BY <1>6 DEF WriteKey, TypeOK, KeyRow
  <2> QED
    BY <1>6, <2>1, <2>2 DEF WriteKey, TypeOK
<1> QED
  BY <1>1, <1>2, <1>3, <1>4, <1>5, <1>6 DEF Authenticate

LEMMA LoadSessionType ==
  ASSUME TypeOK, NEW r \in Requests, NEW next \in Steps, LoadSession(r, next)
  PROVE  req' \in [Requests -> RequestState]
<1>1. PICK dirty \in SUBSET Columns :
        Become(r, [req[r] EXCEPT !.at = next, !.dirty = dirty])
  BY DEF LoadSession, Columns
<1> QED
  BY <1>1, LocalTypes, BecomeType

LEMMA WriteSessionType ==
  ASSUME TypeOK, NEW r \in Requests, WriteSession(r)
  PROVE  sessions' \in [Tokens -> SessionRow]
<1>1. CASE req[r].token \in Tokens
  <2>1. sessions[req[r].token] \in SessionRow /\ req[r].expires \in Nat
    BY <1>1 DEF TypeOK, RequestState
  <2> QED
    BY <1>1, <2>1 DEF WriteSession, TypeOK, SessionRow
<1>2. CASE req[r].token \notin Tokens
  BY <1>2 DEF WriteSession, TypeOK
<1> QED
  BY <1>1, <1>2

LEMMA RefreshTokenType ==
  ASSUME TypeOK, NEW r \in Requests, RefreshToken(r)
  PROVE  TypeOK'
<1> USE LimitsAssumption
<1>1. ASSUME NEW t \in Tokens, NEW w \in Wallets, FindSessionToRefresh(r, t, w)
      PROVE TypeOK'
  <2>1. sessions[t].key \in Keys \cup {None}
    BY DEF TypeOK, SessionRow
  <2>2. req' \in [Requests -> RequestState]
    BY <1>1, <2>1 DEF FindSessionToRefresh, Begin, Become, TypeOK, Idle, RequestState,
                      Steps, Columns
  <2> QED
    BY <1>1, <2>2 DEF FindSessionToRefresh, TypeOK
<1>2. CASE RefreshCheckKey(r)
  <2>1. req' \in [Requests -> RequestState]
    <3>1. now + SESSION_EXPIRY \in Nat
      BY DEF TypeOK
    <3> QED
      BY <1>2, <3>1, FinishType, LocalTypes, BecomeType DEF RefreshCheckKey, Steps
  <2> QED
    BY <1>2, <2>1 DEF RefreshCheckKey, TypeOK
<1>3. CASE RefreshLoad(r)
  <2>1. req' \in [Requests -> RequestState]
    BY <1>3, LoadSessionType DEF RefreshLoad, Steps
  <2> QED
    BY <1>3, <2>1 DEF RefreshLoad, LoadSession, TypeOK
<1>4. CASE RefreshWrite(r)
  <2>1. req' \in [Requests -> RequestState]
    BY <1>4, FinishType DEF RefreshWrite
  <2> QED
    BY <1>4, <2>1, WriteSessionType DEF RefreshWrite, TypeOK
<1> QED
  BY <1>1, <1>2, <1>3, <1>4 DEF RefreshToken

LEMMA ValidateSessionType ==
  ASSUME TypeOK, NEW r \in Requests, ValidateSession(r)
  PROVE  TypeOK'
<1>1. ASSUME NEW t \in Tokens,
             NEW then \in {"answer", "revoke.keys", "revoke.session"},
             FindSessionToValidate(r, t, then)
      PROVE TypeOK'
  <2>1. sessions[t].key \in Keys \cup {None} /\ sessions[t].expiresAt \in Nat
    BY DEF TypeOK, SessionRow
  <2>2. req' \in [Requests -> RequestState]
    BY <1>1, <2>1 DEF FindSessionToValidate, Begin, Become, TypeOK, Idle, RequestState,
                      Steps, Columns
  <2> QED
    BY <1>1, <2>2 DEF FindSessionToValidate, TypeOK
<1>2. CASE ValidateCheckKey(r)
  <2>1. req' \in [Requests -> RequestState]
    BY <1>2, FinishType, AdvanceType DEF ValidateCheckKey, Steps
  <2> QED
    BY <1>2, <2>1 DEF ValidateCheckKey, TypeOK
<1>3. CASE ValidateLoad(r)
  <2>1. req' \in [Requests -> RequestState]
    BY <1>3, LoadSessionType DEF ValidateLoad, Steps
  <2> QED
    BY <1>3, <2>1 DEF ValidateLoad, LoadSession, TypeOK
<1>4. CASE ValidateWrite(r)
  <2>1. req[r].then \in {"answer", "revoke.keys", "revoke.session"}
    BY DEF TypeOK, RequestState
  <2>2. [Idle EXCEPT !.at = req[r].then] \in RequestState \/ req[r].then = "answer"
    BY <2>1 DEF Idle, RequestState, Steps, Columns
  <2>3. req' \in [Requests -> RequestState]
    BY <1>4, <2>2, FinishType, BecomeType DEF ValidateWrite
  <2> QED
    BY <1>4, <2>3, WriteSessionType DEF ValidateWrite, TypeOK
<1> QED
  BY <1>1, <1>2, <1>3, <1>4 DEF ValidateSession

LEMMA DeactivateType ==
  ASSUME TypeOK, NEW S, DeactivateSessions(S)
  PROVE  sessions' \in [Tokens -> SessionRow]
  BY DEF DeactivateSessions, TypeOK, SessionRow

LEMMA RevokeKeysType ==
  ASSUME TypeOK, NEW r \in Requests, RevokeKeys(r)
  PROVE  TypeOK'
<1>1. ASSUME NEW w \in Wallets, NEW S \in SUBSET Keys, RevokeActiveKeys(r, w, S)
      PROVE TypeOK'
  <2>1. WhereClause(w, S) \subseteq Keys
    BY DEF WhereClause
  <2>2. req' \in [Requests -> RequestState]
    BY <1>1, <2>1, LocalTypes, BecomeType DEF RevokeActiveKeys, Steps
  <2>3. keys' \in [Keys -> KeyRow]
    BY <1>1 DEF RevokeActiveKeys, TypeOK, KeyRow
  <2> QED
    BY <1>1, <2>2, <2>3 DEF RevokeActiveKeys, TypeOK
<1>2. CASE FindKeysOfWallet(r)
  <2>1. WhereClause(req[r].wallet, req[r].found) \subseteq Keys
    BY DEF WhereClause, ActiveKeys
  <2>2. req' \in [Requests -> RequestState]
    BY <1>2, <2>1, FinishType, LocalTypes, BecomeType DEF FindKeysOfWallet, Steps
  <2> QED
    BY <1>2, <2>2 DEF FindKeysOfWallet, TypeOK
<1>3. CASE RevokeSessionsOfKeys(r)
  BY <1>3, FinishType, DeactivateType DEF RevokeSessionsOfKeys, TypeOK
<1>4. \A S \in {Keys} \cup {{k} : k \in Keys} : S \in SUBSET Keys
  OBVIOUS
<1> QED
  BY <1>1, <1>2, <1>3, <1>4 DEF RevokeKeys

(* The tables and the requests' locals keep their types.                    *)
THEOREM TypeCorrect == Spec => []TypeOK
<1>1. TypeOK /\ [Next]_vars => TypeOK'
  <2> SUFFICES ASSUME TypeOK, [Next]_vars PROVE TypeOK'
    OBVIOUS
  <2>1. CASE Tick
    BY <2>1 DEF Tick, TypeOK
  <2>2. ASSUME NEW r \in Requests, NEW t \in Tokens, RevokeSession(r, t)
        PROVE TypeOK'
    BY <2>2, FinishType, DeactivateType DEF RevokeSession, TypeOK
  <2>3. ASSUME NEW r \in Requests, Abort(r) PROVE TypeOK'
    BY <2>3, FinishType DEF Abort, TypeOK
  <2>4. CASE UNCHANGED vars
    BY <2>4 DEF vars, TypeOK
  <2> QED
    BY <2>1, <2>2, <2>3, <2>4, InitiateAuthType, RegisterKeyType, AuthenticateType,
       RefreshTokenType, ValidateSessionType, RevokeKeysType DEF Next
<1> QED
  BY InitType, <1>1, PTL DEF Spec

-----------------------------------------------------------------------------
(* Who writes which table, and how a request comes to hold a row. *)

LEMMA KeyWriters ==
  ASSUME [Next]_vars
  PROVE  \/ UNCHANGED keys
         \/ \E r \in Requests :
              \/ InsertKey(r)
              \/ WriteKey(r)
              \/ \E w \in Wallets, S \in SUBSET Keys : RevokeActiveKeys(r, w, S)
  BY DEF Next, vars, Tick, Abort, InitiateAuth, CleanupExpiredChallenges,
     StoreChallenge, RegisterKey, FindChallenge, CountKeys, FindPublicKey,
     LoadChallenge, WriteChallenge, Authenticate, FindActiveKey, FindOldSessions,
     DeactivateOldSessions, InsertSession, LoadKey, RefreshToken,
     FindSessionToRefresh, RefreshCheckKey, RefreshLoad, RefreshWrite, LoadSession,
     ValidateSession, FindSessionToValidate, ValidateCheckKey, ValidateLoad,
     ValidateWrite, RevokeKeys, FindKeysOfWallet, RevokeSessionsOfKeys, RevokeSession

LEMMA SessionWriters ==
  ASSUME [Next]_vars
  PROVE  \/ UNCHANGED sessions
         \/ \E r \in Requests :
              \/ WriteSession(r)
                 /\ req[r].at \in {"refresh.write", "validate.write"}
              \/ \E t \in Tokens : InsertSession(r, t)
              \/ \E S \in SUBSET Tokens : DeactivateSessions(S)
<1>1. ASSUME NEW r \in Requests, DeactivateOldSessions(r) \/ RevokeSessionsOfKeys(r)
                                \/ \E t \in Tokens : RevokeSession(r, t)
      PROVE  \E S \in SUBSET Tokens : DeactivateSessions(S)
  <2>1. \A S : DeactivateSessions(S) => DeactivateSessions(S \cap Tokens)
    BY DEF DeactivateSessions
  <2> QED
    BY <1>1, <2>1 DEF DeactivateOldSessions, RevokeSessionsOfKeys, RevokeSession
<1> QED
  BY <1>1 DEF Next, vars, Tick, Abort, InitiateAuth, CleanupExpiredChallenges,
     StoreChallenge, RegisterKey, FindChallenge, CountKeys, FindPublicKey, InsertKey,
     LoadChallenge, WriteChallenge, Authenticate, FindActiveKey, FindOldSessions,
     LoadKey, WriteKey, RefreshToken, FindSessionToRefresh, RefreshCheckKey,
     RefreshLoad, RefreshWrite, LoadSession, ValidateSession,
     FindSessionToValidate, ValidateCheckKey, ValidateLoad, ValidateWrite,
     RevokeKeys, RevokeActiveKeys, FindKeysOfWallet

LEMMA ChallengeWriters ==
  ASSUME [Next]_vars
  PROVE  \/ UNCHANGED challenges
         \/ \E r \in Requests :
              \/ \E w \in Wallets : CleanupExpiredChallenges(r, w)
              \/ \E c \in Codes : StoreChallenge(r, c)
              \/ WriteChallenge(r)
  BY DEF Next, vars, Tick, Abort, InitiateAuth, RegisterKey, FindChallenge,
     CountKeys, FindPublicKey, InsertKey, LoadChallenge, Authenticate,
     FindActiveKey, FindOldSessions, DeactivateOldSessions, InsertSession, LoadKey,
     WriteKey, RefreshToken, FindSessionToRefresh, RefreshCheckKey, RefreshLoad,
     RefreshWrite, LoadSession, ValidateSession, FindSessionToValidate,
     ValidateCheckKey, ValidateLoad, ValidateWrite, RevokeKeys, RevokeActiveKeys,
     FindKeysOfWallet, RevokeSessionsOfKeys, RevokeSession

(* A request changes its own locals only. *)
LEMMA ReqWriters ==
  ASSUME [Next]_vars, ~UNCHANGED req
  PROVE  \E p \in Requests :
           /\ \/ InitiateAuth(p) \/ RegisterKey(p) \/ Authenticate(p)
              \/ RefreshToken(p) \/ ValidateSession(p) \/ RevokeKeys(p)
              \/ \E t \in Tokens : RevokeSession(p, t)
              \/ Abort(p)
           /\ \E st : Become(p, st)
<1>1. PICK p \in Requests :
        \/ InitiateAuth(p) \/ RegisterKey(p) \/ Authenticate(p)
        \/ RefreshToken(p) \/ ValidateSession(p) \/ RevokeKeys(p)
        \/ \E t \in Tokens : RevokeSession(p, t)
        \/ Abort(p)
  BY DEF Next, vars, Tick
<1> DEFINE Acts == \E st : Become(p, st)
<1>a. (\E st : Begin(p, st)) \/ (\E step : Advance(p, step)) \/ Finish(p) => Acts
  BY Zenon DEF Begin, Advance, Finish
<1>b. ASSUME NEW next, LoadSession(p, next) PROVE Acts
  BY <1>b, Zenon DEF LoadSession
<1>2. InitiateAuth(p) \/ RegisterKey(p) => Acts
  BY <1>a, Zenon DEF InitiateAuth, CleanupExpiredChallenges, StoreChallenge,
     RegisterKey, FindChallenge, CountKeys, FindPublicKey, InsertKey, LoadChallenge,
     WriteChallenge
<1>3. Authenticate(p) => Acts
  BY <1>a, Zenon DEF Authenticate, FindActiveKey, FindOldSessions,
     DeactivateOldSessions, InsertSession, LoadKey, WriteKey
<1>4. RefreshToken(p) \/ ValidateSession(p) => Acts
  BY <1>a, <1>b, Zenon DEF RefreshToken, FindSessionToRefresh, RefreshCheckKey,
     RefreshLoad, RefreshWrite, ValidateSession, FindSessionToValidate,
     ValidateCheckKey, ValidateLoad, ValidateWrite
<1>5. RevokeKeys(p) => Acts
  BY <1>a, Zenon DEF RevokeKeys, RevokeActiveKeys, FindKeysOfWallet,
     RevokeSessionsOfKeys
<1>6. (\E t \in Tokens : RevokeSession(p, t)) \/ Abort(p) => Acts
  BY <1>a, Zenon DEF RevokeSession, Abort
<1> QED
  BY <1>1, <1>2, <1>3, <1>4, <1>5, <1>6

AuthSteps == {"auth.sessions", "auth.deactivate", "auth.insert", "auth.load",
              "auth.write"}

(* A request takes hold of a key, session or challenge row only by a query  *)
(* that finds the row live; from then on it keeps the row until it ends.    *)
HoldsSame(r) ==
    /\ req'[r].key = req[r].key
    /\ req'[r].code = req[r].code
    /\ req'[r].token = req[r].token
    /\ req'[r].at \in AuthSteps => /\ req[r].at \in AuthSteps
                                   /\ req'[r].wallet = req[r].wallet

HoldsNothing(r) ==
    /\ req'[r].key = None /\ req'[r].code = None /\ req'[r].token = None
    /\ req'[r].at \notin AuthSteps

TakesHold(r) ==
    \/ \E w \in Wallets, k \in Keys, c \in Codes : FindChallenge(r, w, k, c)
    \/ \E w \in Wallets, k \in Keys : FindActiveKey(r, w, k)
    \/ \E t \in Tokens, w \in Wallets : FindSessionToRefresh(r, t, w)
    \/ \E t \in Tokens, then \in {"answer", "revoke.keys", "revoke.session"} :
          FindSessionToValidate(r, t, then)

LEMMA HoldsOwn ==
  ASSUME TypeOK, NEW r \in Requests, ~UNCHANGED req,
         \/ InitiateAuth(r) \/ RegisterKey(r) \/ Authenticate(r)
         \/ RefreshToken(r) \/ ValidateSession(r) \/ RevokeKeys(r)
         \/ \E t \in Tokens : RevokeSession(r, t)
         \/ Abort(r)
  PROVE  HoldsSame(r) \/ HoldsNothing(r) \/ TakesHold(r)
<1> SUFFICES ASSUME ~TakesHold(r)
             PROVE  HoldsSame(r) \/ HoldsNothing(r)
  OBVIOUS
<1> USE DEF AuthSteps
<1>a. req[r] \in RequestState /\ req \in [Requests -> RequestState]
  BY DEF TypeOK
<1>b. ASSUME NEW st, Become(r, st) PROVE req'[r] = st
  BY <1>a, <1>b DEF Become
<1>c. Finish(r) => HoldsNothing(r)
  BY <1>b DEF Finish, HoldsNothing, Idle
<1>d. \A step : Advance(r, step) /\ (step \in AuthSteps => req[r].at \in AuthSteps)
                => HoldsSame(r)
  BY <1>a, <1>b DEF Advance, HoldsSame, RequestState
<1>1. ASSUME NEW w \in Wallets, CleanupExpiredChallenges(r, w)
      PROVE  HoldsNothing(r)
  BY <1>1, <1>b DEF CleanupExpiredChallenges, Begin, HoldsNothing, Idle
<1>2. (\E c \in Codes : StoreChallenge(r, c)) => HoldsNothing(r)
  BY <1>c DEF StoreChallenge
<1>3. CountKeys(r) \/ FindPublicKey(r) \/ InsertKey(r) => HoldsSame(r) \/ HoldsNothing(r)
  BY <1>c, <1>d DEF CountKeys, FindPublicKey, InsertKey
<1>4. LoadChallenge(r) => HoldsSame(r)
  BY <1>a, <1>b DEF LoadChallenge, HoldsSame, RequestState
<1>5. WriteChallenge(r) \/ WriteKey(r) \/ RefreshWrite(r) \/ RevokeSessionsOfKeys(r)
      \/ Abort(r) \/ (\E t \in Tokens : RevokeSession(r, t)) => HoldsNothing(r)
  BY <1>c DEF WriteChallenge, WriteKey, RefreshWrite, RevokeSessionsOfKeys, Abort,
     RevokeSession
<1>6. FindOldSessions(r) => HoldsSame(r)
  BY <1>a, <1>b, <1>d DEF FindOldSessions, HoldsSame, RequestState
<1>7. DeactivateOldSessions(r) => HoldsSame(r)
  BY <1>a, <1>b DEF DeactivateOldSessions, HoldsSame, RequestState
<1>8. (\E t \in Tokens : InsertSession(r, t)) => HoldsSame(r)
  BY <1>d DEF InsertSession
<1>9. LoadKey(r) => HoldsSame(r)
  BY <1>a, <1>b DEF LoadKey, HoldsSame, RequestState
<1>10. ASSUME NEW next, next \notin AuthSteps, LoadSession(r, next)
       PROVE  HoldsSame(r)
  <2>1. PICK dirty : Become(r, [req[r] EXCEPT !.at = next, !.dirty = dirty])
    BY <1>10 DEF LoadSession
  <2> QED
    BY <1>a, <1>b, <1>10, <2>1 DEF HoldsSame, RequestState
<1>11. RefreshCheckKey(r) => HoldsSame(r) \/ HoldsNothing(r)
  BY <1>a, <1>b, <1>c DEF RefreshCheckKey, HoldsSame, RequestState
<1>12. RefreshLoad(r) \/ ValidateLoad(r) => HoldsSame(r)
  BY <1>10 DEF RefreshLoad, ValidateLoad
<1>13. ValidateCheckKey(r) => HoldsSame(r) \/ HoldsNothing(r)
  BY <1>c, <1>d DEF ValidateCheckKey
<1>14. ValidateWrite(r) => HoldsNothing(r)
  BY <1>a, <1>b, <1>c DEF ValidateWrite, HoldsNothing, Idle, RequestState
<1>15. ASSUME NEW w \in Wallets, NEW S, RevokeActiveKeys(r, w, S)
       PROVE  HoldsSame(r)
  BY <1>a, <1>b, <1>15 DEF RevokeActiveKeys, HoldsSame, RequestState
<1>16. FindKeysOfWallet(r) => HoldsSame(r) \/ HoldsNothing(r)
  BY <1>a, <1>b, <1>c DEF FindKeysOfWallet, HoldsSame, RequestState
<1> QED
  BY <1>1, <1>2, <1>3, <1>4, <1>5, <1>6, <1>7, <1>8, <1>9, <1>11, <1>12, <1>13,
     <1>14, <1>15, <1>16
  DEF InitiateAuth, RegisterKey, Authenticate, RefreshToken, ValidateSession,
      RevokeKeys, TakesHold

LEMMA Holds ==
  ASSUME TypeOK, [Next]_vars, NEW r \in Requests
  PROVE  HoldsSame(r) \/ HoldsNothing(r) \/ TakesHold(r)
<1>1. CASE UNCHANGED req
  BY <1>1 DEF HoldsSame
<1>2. CASE ~UNCHANGED req
  <2>1. PICK p \in Requests :
          /\ \/ InitiateAuth(p) \/ RegisterKey(p) \/ Authenticate(p)
             \/ RefreshToken(p) \/ ValidateSession(p) \/ RevokeKeys(p)
             \/ \E t \in Tokens : RevokeSession(p, t)
             \/ Abort(p)
          /\ \E st : Become(p, st)
    BY <1>2, ReqWriters
  <2>2. CASE p = r
    BY <1>2, <2>1, <2>2, HoldsOwn
  <2>3. CASE p # r
    <3>1. req'[r] = req[r]
      BY <2>1, <2>3 DEF Become, TypeOK
    <3> QED
      BY <3>1 DEF HoldsSame
  <2> QED
    BY <2>2, <2>3
<1> QED
  BY <1>1, <1>2

(* A registered key keeps its wallet and is never removed. *)
LEMMA KeysStay ==
  ASSUME TypeOK, [Next]_vars, NEW k \in Keys, keys[k].status # "none"
  PROVE  keys'[k].status # "none" /\ keys'[k].wallet = keys[k].wallet
<1>1. ASSUME NEW r \in Requests, InsertKey(r)
      PROVE  keys'[k] = keys[k]
  BY <1>1 DEF InsertKey, TypeOK
<1>2. ASSUME NEW r \in Requests, WriteKey(r)
      PROVE  keys'[k].status # "none" /\ keys'[k].wallet = keys[k].wallet
  BY <1>2 DEF WriteKey, TypeOK, KeyRow
<1>3. ASSUME NEW r \in Requests, NEW w \in Wallets, NEW S, RevokeActiveKeys(r, w, S)
      PROVE  keys'[k].status # "none" /\ keys'[k].wallet = keys[k].wallet
  BY <1>3 DEF RevokeActiveKeys, TypeOK, KeyRow
<1> QED
  BY <1>1, <1>2, <1>3, KeyWriters

-----------------------------------------------------------------------------
(* An authenticate in flight holds a registered key of its own wallet. *)
AuthHoldsRegisteredKey ==
    \A r \in Requests : req[r].at \in AuthSteps =>
        /\ req[r].key \in Keys
        /\ keys[req[r].key].status # "none"
        /\ keys[req[r].key].wallet = req[r].wallet

LEMMA AuthHoldsStep ==
  ASSUME TypeOK, AuthHoldsRegisteredKey, [Next]_vars
  PROVE  AuthHoldsRegisteredKey'
<1> SUFFICES ASSUME NEW r \in Requests, req'[r].at \in AuthSteps
             PROVE  /\ req'[r].key \in Keys
                    /\ keys'[req'[r].key].status # "none"
                    /\ keys'[req'[r].key].wallet = req'[r].wallet
  BY DEF AuthHoldsRegisteredKey
<1>1. CASE HoldsSame(r)
  BY <1>1, KeysStay DEF HoldsSame, AuthHoldsRegisteredKey
<1>2. CASE HoldsNothing(r)
  BY <1>2 DEF HoldsNothing
<1>3. CASE TakesHold(r)
  <2>a. \A st : Begin(r, st) => req'[r] = st
    BY DEF Begin, Become, TypeOK
  <2>1. PICK w \in Wallets, k \in Keys : FindActiveKey(r, w, k)
    <3>1. ASSUME NEW w \in Wallets, NEW k \in Keys, NEW c \in Codes,
                 FindChallenge(r, w, k, c)
          PROVE  FALSE
      BY <2>a, <3>1 DEF FindChallenge, Idle, AuthSteps
    <3>2. ASSUME NEW t \in Tokens, NEW w \in Wallets, FindSessionToRefresh(r, t, w)
          PROVE  FALSE
      BY <2>a, <3>2 DEF FindSessionToRefresh, Idle, AuthSteps
    <3>3. ASSUME NEW t \in Tokens, NEW then, FindSessionToValidate(r, t, then)
          PROVE  FALSE
      BY <2>a, <3>3 DEF FindSessionToValidate, Idle, AuthSteps
    <3> QED
      BY <1>3, <3>1, <3>2, <3>3 DEF TakesHold
  <2>2. req'[r].key = k /\ req'[r].wallet = w
    BY <2>a, <2>1 DEF FindActiveKey, Idle
  <2> QED
    BY <2>1, <2>2 DEF FindActiveKey
<1> QED
  BY <1>1, <1>2, <1>3, Holds

(* A refreshToken or validateSession in flight holds a session row that     *)
(* exists, so its save updates that row and never creates one.              *)
HeldSessionsExist ==
    \A r \in Requests, t \in Tokens : HoldsSession(r, t) => sessions[t].status # "none"

LEMMA SessionsStay ==
  ASSUME TypeOK, [Next]_vars, NEW t \in Tokens, sessions[t].status # "none"
  PROVE  /\ sessions'[t].status # "none"
         /\ sessions'[t].key = sessions[t].key
         /\ sessions'[t].wallet = sessions[t].wallet
<1>1. ASSUME NEW r \in Requests, WriteSession(r)
      PROVE  /\ sessions'[t].status # "none"
             /\ sessions'[t].key = sessions[t].key
             /\ sessions'[t].wallet = sessions[t].wallet
  BY <1>1 DEF WriteSession, TypeOK, SessionRow
<1>2. ASSUME NEW r \in Requests, NEW u \in Tokens, InsertSession(r, u)
      PROVE  sessions'[t] = sessions[t]
  BY <1>2 DEF InsertSession, TypeOK
<1>3. ASSUME NEW S \in SUBSET Tokens, DeactivateSessions(S)
      PROVE  /\ sessions'[t].status # "none"
             /\ sessions'[t].key = sessions[t].key
             /\ sessions'[t].wallet = sessions[t].wallet
  BY <1>3 DEF DeactivateSessions, TypeOK, SessionRow
<1> QED
  BY <1>1, <1>2, <1>3, SessionWriters

LEMMA HeldSessionsStep ==
  ASSUME TypeOK, HeldSessionsExist, [Next]_vars
  PROVE  HeldSessionsExist'
<1> SUFFICES ASSUME NEW r \in Requests, NEW t \in Tokens, req'[r].token = t
             PROVE  sessions'[t].status # "none"
  BY DEF HeldSessionsExist, HoldsSession
<1>1. CASE HoldsSame(r)
  BY <1>1, SessionsStay DEF HoldsSame, HeldSessionsExist, HoldsSession
<1>2. CASE HoldsNothing(r)
  BY <1>2, NoneAssumption DEF HoldsNothing
<1>3. CASE TakesHold(r)
  <2>a. \A st : Begin(r, st) => req'[r] = st
    BY DEF Begin, Become, TypeOK
  <2>1. ASSUME NEW w \in Wallets, NEW k \in Keys, NEW c \in Codes,
               FindChallenge(r, w, k, c)
        PROVE  FALSE
    BY <2>a, <2>1, NoneAssumption DEF FindChallenge, Idle
  <2>2. ASSUME NEW w \in Wallets, NEW k \in Keys, FindActiveKey(r, w, k)
        PROVE  FALSE
    BY <2>a, <2>2, NoneAssumption DEF FindActiveKey, Idle
  <2>3. ASSUME NEW u \in Tokens, NEW w \in Wallets, FindSessionToRefresh(r, u, w)
        PROVE  sessions'[t].status # "none"
    BY <2>a, <2>3 DEF FindSessionToRefresh, LiveSession, Idle
  <2>4. ASSUME NEW u \in Tokens, NEW then, FindSessionToValidate(r, u, then)
        PROVE  sessions'[t].status # "none"
    BY <2>a, <2>4 DEF FindSessionToValidate, LiveSession, Idle
  <2> QED
    BY <1>3, <2>1, <2>2, <2>3, <2>4 DEF TakesHold
<1> QED
  BY <1>1, <1>2, <1>3, Holds

LEMMA ConsistentStep ==
  ASSUME TypeOK, AuthHoldsRegisteredKey, HeldSessionsExist, SessionKeyConsistent,
         [Next]_vars
  PROVE  SessionKeyConsistent'
<1> SUFFICES ASSUME NEW t \in Tokens, sessions'[t].status # "none"
             PROVE  /\ sessions'[t].key \in Keys
                    /\ keys'[sessions'[t].key].status # "none"
                    /\ keys'[sessions'[t].key].wallet = sessions'[t].wallet
  BY DEF SessionKeyConsistent
<1>1. CASE sessions[t].status # "none"
  BY <1>1, SessionsStay, KeysStay DEF SessionKeyConsistent
<1>2. CASE sessions[t].status = "none"
  <2>1. ASSUME NEW r \in Requests, WriteSession(r) PROVE FALSE
    <3>1. req[r].token # t
      BY <1>2 DEF HeldSessionsExist, HoldsSession
    <3> QED
      BY <1>2, <2>1, <3>1 DEF WriteSession, TypeOK
  <2>2. ASSUME NEW S \in SUBSET Tokens, DeactivateSessions(S) PROVE FALSE
    BY <1>2, <2>2 DEF DeactivateSessions, TypeOK, SessionRow
  <2>3. PICK r \in Requests, u \in Tokens : InsertSession(r, u)
    BY <1>2, <2>1, <2>2, SessionWriters
  <2>4. t = u
    BY <1>2, <2>3 DEF InsertSession, TypeOK
  <2>5. sessions'[t].key = req[r].key /\ sessions'[t].wallet = req[r].wallet
    BY <2>3, <2>4 DEF InsertSession, TypeOK
  <2>6. req[r].at \in AuthSteps /\ UNCHANGED keys
    BY <2>3 DEF InsertSession, AuthSteps
  <2> QED
    BY <2>5, <2>6 DEF AuthHoldsRegisteredKey
<1> QED
  BY <1>1, <1>2

(* Every session belongs to a registered key of its own wallet: what        *)
(* validateSession puts on a request is a pair registerKey stored.          *)
THEOREM SessionKeyAlwaysConsistent == Spec => []SessionKeyConsistent
<1> DEFINE IInv == /\ AuthHoldsRegisteredKey
                   /\ HeldSessionsExist
                   /\ SessionKeyConsistent
<1>1. Init => IInv
  BY NoneAssumption DEF Init, AuthHoldsRegisteredKey, HeldSessionsExist,
     SessionKeyConsistent, HoldsSession, Idle, NoSession, AuthSteps
<1>2. TypeOK /\ IInv /\ [Next]_vars => IInv'
  BY AuthHoldsStep, HeldSessionsStep, ConsistentStep
<1>3. IInv => SessionKeyConsistent
  OBVIOUS
<1> QED
  BY <1>1, <1>2, <1>3, TypeCorrect, PTL DEF Spec

-----------------------------------------------------------------------------
(* What a request can take hold of. *)
LEMMA TakesLive ==
  ASSUME TypeOK, NEW r \in Requests, TakesHold(r)
  PROVE  /\ UNCHANGED <<now, keys, sessions, challenges>>
         /\ req'[r].at \in AuthSteps => /\ req'[r].key \in Keys
                                        /\ keys[req'[r].key].status = "active"
         /\ \A t \in Tokens : req'[r].token = t => sessions[t].status = "active"
         /\ \A c \in Codes : req'[r].code = c => /\ challenges[c].status = "unused"
                                                /\ Unexpired(challenges[c])
<1>a. \A st : Begin(r, st) => req'[r] = st
  BY DEF Begin, Become, TypeOK
<1> USE NoneAssumption DEF AuthSteps
<1>1. ASSUME NEW w \in Wallets, NEW k \in Keys, NEW c \in Codes,
             FindChallenge(r, w, k, c)
      PROVE  /\ req'[r].at \notin AuthSteps
             /\ req'[r].token = None
             /\ req'[r].code = c
             /\ challenges[c].status = "unused" /\ Unexpired(challenges[c])
  BY <1>a, <1>1 DEF FindChallenge, Idle
<1>2. ASSUME NEW w \in Wallets, NEW k \in Keys, FindActiveKey(r, w, k)
      PROVE  /\ req'[r].key = k /\ req'[r].token = None /\ req'[r].code = None
             /\ keys[k].status = "active"
  BY <1>a, <1>2 DEF FindActiveKey, Idle
<1>3. ASSUME NEW t \in Tokens,
             \/ \E w \in Wallets : FindSessionToRefresh(r, t, w)
             \/ \E then \in {"answer", "revoke.keys", "revoke.session"} :
                   FindSessionToValidate(r, t, then)
      PROVE  /\ req'[r].at \notin AuthSteps
             /\ req'[r].token = t /\ req'[r].code = None
             /\ sessions[t].status = "active"
  <2>1. ASSUME NEW w \in Wallets, FindSessionToRefresh(r, t, w)
        PROVE  /\ req'[r].at = "refresh.key"
               /\ req'[r].token = t /\ req'[r].code = None
               /\ sessions[t].status = "active"
    BY <1>a, <2>1 DEF FindSessionToRefresh, LiveSession, Idle
  <2>2. ASSUME NEW then, FindSessionToValidate(r, t, then)
        PROVE  /\ req'[r].at = "validate.key"
               /\ req'[r].token = t /\ req'[r].code = None
               /\ sessions[t].status = "active"
    BY <1>a, <2>2 DEF FindSessionToValidate, LiveSession, Idle
  <2> QED
    BY <1>3, <2>1, <2>2
<1>4. UNCHANGED <<now, keys, sessions, challenges>>
  BY DEF TakesHold, FindChallenge, FindActiveKey, FindSessionToRefresh,
     FindSessionToValidate
<1> DEFINE Live ==
      /\ req'[r].at \in AuthSteps => /\ req'[r].key \in Keys
                                     /\ keys[req'[r].key].status = "active"
      /\ \A t \in Tokens : req'[r].token = t => sessions[t].status = "active"
      /\ \A c \in Codes : req'[r].code = c => /\ challenges[c].status = "unused"
                                             /\ Unexpired(challenges[c])
<1>5. CASE \E w \in Wallets, k \in Keys, c \in Codes : FindChallenge(r, w, k, c)
  <2>1. Live
    BY <1>1, <1>5
  <2> QED
    BY <1>4, <2>1
<1>6. CASE \E w \in Wallets, k \in Keys : FindActiveKey(r, w, k)
  <2>1. Live
    BY <1>2, <1>6
  <2> QED
    BY <1>4, <2>1
<1>7. CASE \E t \in Tokens :
             \/ \E w \in Wallets : FindSessionToRefresh(r, t, w)
             \/ \E then \in {"answer", "revoke.keys", "revoke.session"} :
                   FindSessionToValidate(r, t, then)
  <2>1. PICK t \in Tokens :
             \/ \E w \in Wallets : FindSessionToRefresh(r, t, w)
             \/ \E then \in {"answer", "revoke.keys", "revoke.session"} :
                   FindSessionToValidate(r, t, then)
    BY <1>7
  <2>2. Live
    BY <1>3, <2>1
  <2> QED
    BY <1>4, <2>2
<1> QED
  BY <1>5, <1>6, <1>7 DEF TakesHold

LEMMA RevokedStep ==
  ASSUME TypeOK, [Next]_vars, NEW k \in Keys, RevokedForGood(k)
  PROVE  RevokedForGood(k)'
<1>1. keys[k].status = "revoked"
      /\ \A r \in Requests : ~(req[r].key = k /\ req[r].at \in AuthSteps)
  BY DEF RevokedForGood, HoldsKey, AuthSteps
<1>2. ASSUME NEW r \in Requests PROVE ~(req'[r].key = k /\ req'[r].at \in AuthSteps)
  <2>1. CASE HoldsSame(r)
    BY <1>1, <2>1 DEF HoldsSame
  <2>2. CASE HoldsNothing(r)
    BY <2>2 DEF HoldsNothing
  <2>3. CASE TakesHold(r)
    BY <1>1, <2>3, TakesLive
  <2> QED
    BY <2>1, <2>2, <2>3, Holds
<1>3. keys'[k].status = "revoked"
  <2>1. ASSUME NEW r \in Requests, InsertKey(r) PROVE keys'[k].status = "revoked"
    BY <1>1, <2>1 DEF InsertKey, TypeOK
  <2>2. ASSUME NEW r \in Requests, WriteKey(r) PROVE keys'[k].status = "revoked"
    BY <1>1, <2>2 DEF WriteKey, TypeOK, AuthSteps
  <2>3. ASSUME NEW r \in Requests, NEW w \in Wallets, NEW S, RevokeActiveKeys(r, w, S)
        PROVE  keys'[k].status = "revoked"
    BY <1>1, <2>3 DEF RevokeActiveKeys, TypeOK, KeyRow
  <2> QED
    BY <1>1, <2>1, <2>2, <2>3, KeyWriters
<1> QED
  BY <1>2, <1>3 DEF RevokedForGood, HoldsKey, AuthSteps

-----------------------------------------------------------------------------
(* Where each handler can bring a request to. *)
GuardSteps == Checked \cup {"revoke.find", "revoke.sessions"}

LEMMA Reaches ==
  ASSUME TypeOK, [Next]_vars, NEW r \in Requests,
         req'[r] # req[r], req'[r].at \in GuardSteps
  PROVE  \/ RefreshCheckKey(r)
         \/ RefreshLoad(r) /\ req'[r].at = "refresh.write"
         \/ ValidateCheckKey(r)
         \/ ValidateLoad(r) /\ req'[r].at = "validate.write"
         \/ \E w \in Wallets, S \in SUBSET Keys : RevokeActiveKeys(r, w, S)
         \/ FindKeysOfWallet(r)
<1> USE DEF GuardSteps, Checked
<1>a. req[r] \in RequestState /\ req \in [Requests -> RequestState]
  BY DEF TypeOK
<1>b. ASSUME NEW st, Become(r, st) PROVE st.at \in GuardSteps /\ req'[r] = st
  BY <1>a, <1>b DEF Become
<1>c. ~Finish(r)
  BY <1>b DEF Finish, Idle
<1>d. ASSUME NEW step, Advance(r, step) PROVE step \in GuardSteps
  BY <1>a, <1>b, <1>d DEF Advance, RequestState
<1>e. ASSUME NEW st, Begin(r, st), st.at \notin GuardSteps PROVE FALSE
  BY <1>b, <1>e DEF Begin
<1>f. ASSUME NEW step, NEW d, Become(r, [req[r] EXCEPT !.at = step, !.dirty = d])
      PROVE  step \in GuardSteps /\ req'[r].at = step
  <2>1. [req[r] EXCEPT !.at = step, !.dirty = d].at = step
    BY <1>a DEF RequestState
  <2> QED
    BY <1>b, <1>f, <2>1
<1>g. ASSUME NEW step, NEW v, Become(r, [req[r] EXCEPT !.at = step, !.victims = v])
      PROVE  step \in GuardSteps
  <2>1. [req[r] EXCEPT !.at = step, !.victims = v].at = step
    BY <1>a DEF RequestState
  <2> QED
    BY <1>b, <1>g, <2>1
<1>1. PICK p \in Requests :
        /\ \/ InitiateAuth(p) \/ RegisterKey(p) \/ Authenticate(p)
           \/ RefreshToken(p) \/ ValidateSession(p) \/ RevokeKeys(p)
           \/ \E t \in Tokens : RevokeSession(p, t)
           \/ Abort(p)
        /\ \E st : Become(p, st)
  BY ReqWriters
<1>2. p = r
  BY <1>a, <1>1 DEF Become
<1>3. ~InitiateAuth(r)
  <2>1. ASSUME NEW w \in Wallets, CleanupExpiredChallenges(r, w) PROVE FALSE
    BY <1>e, <2>1 DEF CleanupExpiredChallenges, Idle
  <2> QED
    BY <1>c, <2>1 DEF InitiateAuth, StoreChallenge
<1>4. ~RegisterKey(r)
  <2>1. ASSUME NEW w \in Wallets, NEW k \in Keys, NEW c \in Codes,
               FindChallenge(r, w, k, c)
        PROVE  FALSE
    BY <1>e, <2>1 DEF FindChallenge, Idle
  <2>2. ~CountKeys(r) /\ ~FindPublicKey(r) /\ ~InsertKey(r)
    BY <1>c, <1>d DEF CountKeys, FindPublicKey, InsertKey
  <2>3. ~LoadChallenge(r) /\ ~WriteChallenge(r)
    BY <1>c, <1>f DEF LoadChallenge, WriteChallenge
  <2> QED
    BY <2>1, <2>2, <2>3 DEF RegisterKey
<1>5. ~Authenticate(r)
  <2>1. ASSUME NEW w \in Wallets, NEW k \in Keys, FindActiveKey(r, w, k) PROVE FALSE
    BY <1>e, <2>1 DEF FindActiveKey, Idle
  <2>2. ~FindOldSessions(r) /\ ~DeactivateOldSessions(r)
    <3>1. ASSUME NEW v
          PROVE  /\ ~Become(r, [req[r] EXCEPT !.at = "auth.deactivate", !.victims = v])
                 /\ ~Become(r, [req[r] EXCEPT !.at = "auth.insert", !.victims = v])
      <4>1. "auth.deactivate" \notin GuardSteps /\ "auth.insert" \notin GuardSteps
        OBVIOUS
      <4> HIDE DEF GuardSteps
      <4> QED
        BY <1>g, <4>1
    <3>2. ~Advance(r, "auth.insert")
      BY <1>d
    <3>3. ~FindOldSessions(r)
      BY <3>1, <3>2, Zenon DEF FindOldSessions
    <3>4. ~DeactivateOldSessions(r)
      BY <3>1, Zenon DEF DeactivateOldSessions
    <3> QED
      BY <3>3, <3>4
  <2>3. ~LoadKey(r) /\ ~WriteKey(r) /\ \A t \in Tokens : ~InsertSession(r, t)
    <3>1. ASSUME NEW d
          PROVE  ~Become(r, [req[r] EXCEPT !.at = "auth.write", !.dirty = d])
      <4>1. "auth.write" \notin GuardSteps
        OBVIOUS
      <4> HIDE DEF GuardSteps
      <4> QED
        BY <1>f, <4>1
    <3>2. ~LoadKey(r)
      BY <3>1, Zenon DEF LoadKey
    <3> QED
      BY <1>c, <1>d, <3>2 DEF WriteKey, InsertSession
  <2> QED
    BY <2>1, <2>2, <2>3 DEF Authenticate
<1>6. ASSUME NEW next, LoadSession(r, next) PROVE req'[r].at = next
  BY <1>6, <1>f, Zenon DEF LoadSession
<1>7. RefreshToken(r) => \/ RefreshCheckKey(r)
                         \/ RefreshLoad(r) /\ req'[r].at = "refresh.write"
  <2>1. ASSUME NEW t \in Tokens, NEW w \in Wallets, FindSessionToRefresh(r, t, w)
        PROVE  FALSE
    BY <1>e, <2>1 DEF FindSessionToRefresh, Idle
  <2> QED
    BY <1>c, <1>6, <2>1 DEF RefreshToken, RefreshLoad, RefreshWrite
<1>8. ValidateSession(r) => \/ ValidateCheckKey(r)
                            \/ ValidateLoad(r) /\ req'[r].at = "validate.write"
  <2>1. ASSUME NEW t \in Tokens, NEW then, FindSessionToValidate(r, t, then)
        PROVE  FALSE
    BY <1>e, <2>1 DEF FindSessionToValidate, Idle
  <2>2. ~ValidateWrite(r)
    <3>1. ~Become(r, [Idle EXCEPT !.at = req[r].then])
      BY <1>a, <1>b DEF Idle, RequestState
    <3> QED
      BY <1>c, <3>1 DEF ValidateWrite
  <2> QED
    BY <1>6, <2>1, <2>2 DEF ValidateSession, ValidateLoad
<1>9. RevokeKeys(r) => \/ \E w \in Wallets, S \in SUBSET Keys : RevokeActiveKeys(r, w, S)
                       \/ FindKeysOfWallet(r)
  BY <1>c DEF RevokeKeys, RevokeSessionsOfKeys
<1>10. ~Abort(r) /\ \A t \in Tokens : ~RevokeSession(r, t)
  BY <1>c DEF RevokeSession, Abort
<1>11. RefreshToken(r) \/ ValidateSession(r) \/ RevokeKeys(r)
  BY <1>1, <1>2, <1>3, <1>4, <1>5, <1>10, Zenon
<1> QED
  BY <1>7, <1>8, <1>9, <1>11, Zenon

(* A request past its first query holds a session with the key it belongs   *)
(* to.                                                                      *)
SessionsKeyHeld ==
    \A r \in Requests, t \in Tokens : HoldsSession(r, t) => sessions[t].key = req[r].key

LEMMA SessionsKeyHeldStep ==
  ASSUME TypeOK, HeldSessionsExist, SessionsKeyHeld, [Next]_vars
  PROVE  SessionsKeyHeld'
<1> SUFFICES ASSUME NEW r \in Requests, NEW t \in Tokens, req'[r].token = t
             PROVE  sessions'[t].key = req'[r].key
  BY DEF SessionsKeyHeld, HoldsSession
<1>1. CASE HoldsSame(r)
  <2>1. req[r].token = t /\ req[r].key = req'[r].key
    BY <1>1 DEF HoldsSame
  <2>2. sessions[t].status # "none" /\ sessions[t].key = req[r].key
    BY <2>1 DEF HeldSessionsExist, SessionsKeyHeld, HoldsSession
  <2> QED
    BY <2>1, <2>2, SessionsStay
<1>2. CASE HoldsNothing(r)
  BY <1>2, NoneAssumption DEF HoldsNothing
<1>3. CASE TakesHold(r)
  <2>a. \A st : Begin(r, st) => req'[r] = st
    BY DEF Begin, Become, TypeOK
  <2>b. UNCHANGED sessions
    BY <1>3, TakesLive
  <2>1. ASSUME NEW w \in Wallets, NEW k \in Keys, NEW c \in Codes,
               FindChallenge(r, w, k, c)
        PROVE  FALSE
    BY <2>a, <2>1, NoneAssumption DEF FindChallenge, Idle
  <2>2. ASSUME NEW w \in Wallets, NEW k \in Keys, FindActiveKey(r, w, k)
        PROVE  FALSE
    BY <2>a, <2>2, NoneAssumption DEF FindActiveKey, Idle
  <2>3. ASSUME NEW u \in Tokens, NEW w \in Wallets, FindSessionToRefresh(r, u, w)
        PROVE  sessions[t].key = req'[r].key
    <3>1. req'[r].token = u /\ req'[r].key = sessions[u].key
      BY <2>a, <2>3 DEF FindSessionToRefresh, Idle
    <3> QED
      BY <3>1
  <2>4. ASSUME NEW u \in Tokens, NEW then, FindSessionToValidate(r, u, then)
        PROVE  sessions[t].key = req'[r].key
    <3>1. req'[r].token = u /\ req'[r].key = sessions[u].key
      BY <2>a, <2>4 DEF FindSessionToValidate, Idle
    <3> QED
      BY <3>1
  <2> QED
    BY <1>3, <2>b, <2>1, <2>2, <2>3, <2>4 DEF TakesHold
<1> QED
  BY <1>1, <1>2, <1>3, Holds

(* Only the check of the key lets a session be used. *)
LEMMA AdmittedStep ==
  ASSUME TypeOK, HeldSessionsExist, SessionsKeyHeld, [Next]_vars,
         NEW k \in Keys, RevokedForGood(k), NEW r \in Requests, Admitted(r, k)'
  PROVE  Admitted(r, k)
<1> DEFINE t == req'[r].token
<1>1. req'[r].at \in Checked /\ t \in Tokens /\ sessions'[t].key = k
  BY DEF Admitted
<1>2. HoldsSame(r)
  <2>1. ~HoldsNothing(r)
    BY <1>1, NoneAssumption DEF HoldsNothing
  <2>2. ~TakesHold(r)
    <3>a. ASSUME NEW st, Begin(r, st), st.at \notin Checked PROVE FALSE
      BY <1>1, <3>a DEF Begin, Become, TypeOK
    <3>1. ASSUME NEW w \in Wallets, NEW k1 \in Keys, NEW c \in Codes,
                 FindChallenge(r, w, k1, c)
          PROVE  FALSE
      BY <3>1, <3>a DEF FindChallenge, Idle, Checked
    <3>2. ASSUME NEW w \in Wallets, NEW k1 \in Keys, FindActiveKey(r, w, k1) PROVE FALSE
      BY <3>2, <3>a DEF FindActiveKey, Idle, Checked
    <3>3. ASSUME NEW u \in Tokens, NEW w \in Wallets, FindSessionToRefresh(r, u, w)
          PROVE  FALSE
      BY <3>3, <3>a DEF FindSessionToRefresh, Idle, Checked
    <3>4. ASSUME NEW u \in Tokens, NEW then, FindSessionToValidate(r, u, then) PROVE FALSE
      BY <3>4, <3>a DEF FindSessionToValidate, Idle, Checked
    <3> QED
      BY <3>1, <3>2, <3>3, <3>4 DEF TakesHold
  <2> QED
    BY <2>1, <2>2, Holds
<1>3. req[r].token = t /\ sessions[t].key = k /\ req[r].key = k
  <2>1. req[r].token = t
    BY <1>2 DEF HoldsSame
  <2>2. sessions[t].status # "none" /\ sessions[t].key = req[r].key
    BY <1>1, <2>1 DEF HeldSessionsExist, SessionsKeyHeld, HoldsSession
  <2> QED
    BY <1>1, <2>1, <2>2, SessionsStay
<1>4. keys[k].status = "revoked"
  BY DEF RevokedForGood
<1>5. req[r].at \in Checked
  <2>1. CASE req'[r] = req[r]
    BY <1>1, <2>1
  <2>2. CASE req'[r] # req[r]
    <3>a. req[r] \in RequestState /\ req \in [Requests -> RequestState]
      BY DEF TypeOK
    <3>b. ~Finish(r)
      BY <1>1, <3>a DEF Finish, Become, Idle, Checked
    <3>1. ~RefreshCheckKey(r) /\ ~ValidateCheckKey(r)
      BY <1>3, <1>4, <3>b DEF RefreshCheckKey, ValidateCheckKey
    <3>2. ~FindKeysOfWallet(r)
      <4>1. ASSUME NEW f
            PROVE  ~Become(r, [req[r] EXCEPT !.at = "revoke.sessions", !.found = f])
        BY <1>1, <3>a DEF Become, RequestState, Checked
      <4> QED
        BY <3>b, <4>1, Zenon DEF FindKeysOfWallet
    <3>3. ASSUME NEW w \in Wallets, NEW S, RevokeActiveKeys(r, w, S) PROVE FALSE
      BY <1>1, <3>a, <3>3 DEF RevokeActiveKeys, Become, RequestState, Checked
    <3>4. RefreshLoad(r) \/ ValidateLoad(r)
      BY <1>1, <2>2, <3>1, <3>2, <3>3, Reaches DEF GuardSteps
    <3> QED
      BY <3>4 DEF RefreshLoad, ValidateLoad, Checked
  <2> QED
    BY <2>1, <2>2
<1> QED
  BY <1>1, <1>3, <1>5 DEF Admitted

(* revokeKeys is final once no authenticate that read the key as active is  *)
(* still in flight: the key stays revoked, and the sessions that it has     *)
(* kept are of no use to anybody who does not hold one past the check.      *)
THEOREM RevokedKeysStayRevoked == Spec => RevocationIsFinal
<1> DEFINE IInv == HeldSessionsExist /\ SessionsKeyHeld
<1>1. Init => IInv
  BY NoneAssumption DEF Init, HeldSessionsExist, SessionsKeyHeld, HoldsSession, Idle
<1>2. TypeOK /\ IInv /\ [Next]_vars => IInv'
  BY HeldSessionsStep, SessionsKeyHeldStep
<1>3. TypeOK /\ IInv /\ [Next]_vars =>
        [\A k \in Keys : RevokedForGood(k) =>
            /\ RevokedForGood(k)'
            /\ \A r \in Requests : Admitted(r, k)' => Admitted(r, k)]_vars
  BY RevokedStep, AdmittedStep
<1> QED
  BY <1>1, <1>2, <1>3, TypeCorrect, PTL DEF Spec, RevocationIsFinal

(* A request that runs alone finds no key between the UPDATE of revokeKeys  *)
(* and the query for the sessions: the rows it looks for are active, and it *)
(* has just revoked them.                                                   *)
NothingLeft ==
    \A r \in Requests : Requests = {r} /\ req[r].at = "revoke.find" =>
        WhereClause(req[r].wallet, req[r].found) = {}

LEMMA NothingLeftStep ==
  ASSUME TypeOK, NothingLeft, SessionsRevokedInRace, [Next]_vars
  PROVE  NothingLeft' /\ SessionsRevokedInRace'
<1> SUFFICES ASSUME NEW r \in Requests, Requests = {r}
             PROVE  /\ req'[r].at = "revoke.find" =>
                          WhereClause(req[r].wallet, req[r].found)' = {}
                    /\ req'[r].at # "revoke.sessions"
  BY DEF NothingLeft, SessionsRevokedInRace
<1>a. req[r] \in RequestState /\ req \in [Requests -> RequestState]
  BY DEF TypeOK
<1>1. CASE req'[r] = req[r]
  <2>1. req[r].at # "revoke.sessions"
    BY DEF SessionsRevokedInRace
  <2>2. ASSUME req[r].at = "revoke.find"
        PROVE  WhereClause(req[r].wallet, req[r].found)' = {}
    <3>1. UNCHANGED keys
      BY <2>2, KeyWriters DEF InsertKey, WriteKey, RevokeActiveKeys
    <3>2. WhereClause(req[r].wallet, req[r].found) = {}
      BY <2>2 DEF NothingLeft
    <3> QED
      BY <1>1, <3>1, <3>2 DEF WhereClause, ActiveKeys
  <2> QED
    BY <1>1, <2>1, <2>2
<1>2. CASE req'[r] # req[r] /\ req'[r].at \in {"revoke.find", "revoke.sessions"}
  <2>a. ~Finish(r)
    BY <1>2, <1>a DEF Finish, Become, Idle
  <2>1. ~RefreshCheckKey(r)
    BY <1>2, <1>a, <2>a DEF RefreshCheckKey, Become, RequestState
  <2>2. ~ValidateCheckKey(r)
    BY <1>2, <1>a, <2>a DEF ValidateCheckKey, Advance, Become, RequestState
  <2>3. ~FindKeysOfWallet(r)
    BY <2>a DEF FindKeysOfWallet, NothingLeft
  <2>4. PICK w \in Wallets, S \in SUBSET Keys : RevokeActiveKeys(r, w, S)
    BY <1>2, <2>1, <2>2, <2>3, Reaches DEF GuardSteps
  <2>5. req'[r].at = "revoke.find" /\ req'[r].wallet = w /\ req'[r].found = S
    BY <1>a, <2>4 DEF RevokeActiveKeys, Become, RequestState
  <2>6. \A k \in Keys : k \in S /\ keys[k].wallet = w => keys'[k].status # "active"
    BY <2>4 DEF RevokeActiveKeys, WhereClause, ActiveKeys, TypeOK, KeyRow
  <2>7. \A k \in Keys : keys'[k].wallet = keys[k].wallet
    BY <2>4 DEF RevokeActiveKeys, TypeOK, KeyRow
  <2> QED
    BY <2>5, <2>6, <2>7 DEF WhereClause, ActiveKeys
<1> QED
  BY <1>1, <1>2

(* revokeKeys comes to the sessions of the keys that it has revoked only in *)
(* a race with another request; the sessions of a client that revokes its   *)
(* keys while nothing else runs are all left active.                        *)
THEOREM AloneRevokesNoSession == Spec => []SessionsRevokedInRace
<1>1. Init => NothingLeft /\ SessionsRevokedInRace
  BY DEF Init, NothingLeft, SessionsRevokedInRace, Idle
<1>2. TypeOK /\ NothingLeft /\ SessionsRevokedInRace /\ [Next]_vars
      => NothingLeft' /\ SessionsRevokedInRace'
  BY NothingLeftStep
<1> QED
  BY <1>1, <1>2, TypeCorrect, PTL DEF Spec

LEMMA DeactivatedStep ==
  ASSUME TypeOK, [Next]_vars, NEW t \in Tokens, DeactivatedForGood(t)
  PROVE  DeactivatedForGood(t)'
<1>1. sessions[t].status = "inactive" /\ \A r \in Requests : req[r].token # t
  BY DEF DeactivatedForGood, HoldsSession
<1>2. ASSUME NEW r \in Requests PROVE req'[r].token # t
  <2>1. CASE HoldsSame(r)
    BY <1>1, <2>1 DEF HoldsSame
  <2>2. CASE HoldsNothing(r)
    BY <2>2, NoneAssumption DEF HoldsNothing
  <2>3. CASE TakesHold(r)
    BY <1>1, <2>3, TakesLive
  <2> QED
    BY <2>1, <2>2, <2>3, Holds
<1>3. sessions'[t].status = "inactive"
  <2>1. ASSUME NEW r \in Requests, WriteSession(r)
        PROVE  sessions'[t].status = "inactive"
    BY <1>1, <2>1 DEF WriteSession, TypeOK
  <2>2. ASSUME NEW r \in Requests, NEW u \in Tokens, InsertSession(r, u)
        PROVE  sessions'[t].status = "inactive"
    BY <1>1, <2>2 DEF InsertSession, TypeOK
  <2>3. ASSUME NEW S \in SUBSET Tokens, DeactivateSessions(S)
        PROVE  sessions'[t].status = "inactive"
    BY <1>1, <2>3 DEF DeactivateSessions, TypeOK
  <2> QED
    BY <1>1, <2>1, <2>2, <2>3, SessionWriters
<1> QED
  BY <1>2, <1>3 DEF DeactivatedForGood, HoldsSession

(* A deactivated session stays inactive once no refreshToken or             *)
(* validateSession that read it as active is still in flight.               *)
THEOREM DeactivatedSessionsStayInactive == Spec => DeactivationIsFinal
<1>1. TypeOK /\ [Next]_vars =>
        [\A t \in Tokens : DeactivatedForGood(t) => DeactivatedForGood(t)']_vars
  BY DeactivatedStep
<1> QED
  BY <1>1, TypeCorrect, PTL DEF Spec, DeactivationIsFinal

LEMMA ClockAdvances == ASSUME TypeOK, [Next]_vars PROVE now' \in Nat /\ now' >= now
<1>1. Tick \/ UNCHANGED now
  BY DEF Next, vars, Abort, InitiateAuth, CleanupExpiredChallenges,
     StoreChallenge, RegisterKey, FindChallenge, CountKeys, FindPublicKey, InsertKey,
     LoadChallenge, WriteChallenge, Authenticate, FindActiveKey, FindOldSessions,
     DeactivateOldSessions, InsertSession, LoadKey, WriteKey, RefreshToken,
     FindSessionToRefresh, RefreshCheckKey, RefreshLoad, RefreshWrite, LoadSession,
     ValidateSession, FindSessionToValidate, ValidateCheckKey, ValidateLoad,
     ValidateWrite, RevokeKeys, RevokeActiveKeys, FindKeysOfWallet,
     RevokeSessionsOfKeys, RevokeSession
<1> QED
  BY <1>1 DEF Tick, TypeOK

(* A used, expired or deleted challenge that no registerKey holds admits no *)
(* further registration.                                                    *)
THEOREM SpentChallengesStaySpent == Spec => SpentChallengeIsFinal
<1>1. ASSUME TypeOK, [Next]_vars, NEW c \in Codes, Spent(c)
      PROVE  Spent(c)'
  <2>1. /\ \/ challenges[c].status \in {"used", "deleted"}
           \/ challenges[c].status = "unused" /\ ~Unexpired(challenges[c])
        /\ \A r \in Requests : req[r].code # c
    BY <1>1 DEF Spent, HoldsChallenge
  <2>2. ASSUME NEW r \in Requests PROVE req'[r].code # c
    <3>1. CASE HoldsSame(r)
      BY <2>1, <3>1 DEF HoldsSame
    <3>2. CASE HoldsNothing(r)
      BY <3>2, NoneAssumption DEF HoldsNothing
    <3>3. CASE TakesHold(r)
      BY <1>1, <2>1, <3>3, TakesLive
    <3> QED
      BY <1>1, <3>1, <3>2, <3>3, Holds
  <2>3. \/ challenges'[c].status \in {"used", "deleted"}
        \/ /\ challenges'[c].status = "unused"
           /\ challenges[c].status = "unused"
           /\ challenges'[c].expiresAt = challenges[c].expiresAt
    <3>1. ASSUME NEW r \in Requests, NEW w \in Wallets, CleanupExpiredChallenges(r, w)
          PROVE  challenges'[c] = challenges[c] \/ challenges'[c].status = "deleted"
      BY <1>1, <3>1 DEF CleanupExpiredChallenges, TypeOK, ChallengeRow
    <3>2. ASSUME NEW r \in Requests, NEW d \in Codes, StoreChallenge(r, d)
          PROVE  challenges'[c] = challenges[c]
      BY <1>1, <2>1, <3>2 DEF StoreChallenge, TypeOK
    <3>3. ASSUME NEW r \in Requests, WriteChallenge(r)
          PROVE  challenges'[c] = challenges[c]
      BY <1>1, <2>1, <3>3 DEF WriteChallenge, TypeOK
    <3> QED
      BY <1>1, <2>1, <3>1, <3>2, <3>3, ChallengeWriters
  <2>4. challenges[c].status = "unused" => ~(challenges[c].expiresAt > now')
    <3>1. challenges[c].expiresAt \in Nat /\ now \in Nat
      BY <1>1 DEF TypeOK, ChallengeRow
    <3> QED
      BY <1>1, <2>1, <3>1, ClockAdvances DEF Unexpired
  <2> QED
    BY <2>2, <2>3, <2>4 DEF Spent, HoldsChallenge, Unexpired
<1>2. TypeOK /\ [Next]_vars =>
        [\A c \in Codes : Spent(c) => Spent(c)']_vars
  BY <1>1
<1> QED
  BY <1>2, TypeCorrect, PTL DEF Spec, SpentChallengeIsFinal

-----------------------------------------------------------------------------
CountSteps == {"register.find", "register.insert"}
EntrySteps == CountSteps \cup {"auth.deactivate", "auth.insert"}

(* What lets a request go on to an insert: the count of registerKey and the *)
(* list of cleanupOldSessions.                                              *)
LEMMA Enters ==
  ASSUME TypeOK, [Next]_vars, NEW r \in Requests,
         req'[r] # req[r], req'[r].at \in EntrySteps
  PROVE  CountKeys(r) \/ FindPublicKey(r) \/ FindOldSessions(r) \/ DeactivateOldSessions(r)
<1> USE DEF EntrySteps, CountSteps
<1>a. /\ req[r] \in RequestState /\ req \in [Requests -> RequestState]
      /\ req'[r].at \in EntrySteps
  BY DEF TypeOK
<1>b. ASSUME NEW st, Become(r, st), st.at \notin EntrySteps PROVE FALSE
  BY <1>a, <1>b DEF Become
<1>c. ~Finish(r)
  BY <1>b DEF Finish, Idle
<1>d. ASSUME NEW step, Advance(r, step) PROVE step \in EntrySteps
  <2>1. [req[r] EXCEPT !.at = step].at = step
    BY <1>a DEF RequestState
  <2> QED
    BY <1>b, <1>d, <2>1 DEF Advance
<1>e. \A st : Begin(r, st) => Become(r, st)
  BY DEF Begin
<1>f. ASSUME NEW step, step \notin EntrySteps, NEW d
      PROVE  /\ ~Become(r, [req[r] EXCEPT !.at = step, !.dirty = d])
             /\ ~Become(r, [req[r] EXCEPT !.at = step, !.found = d])
  <2>1. [req[r] EXCEPT !.at = step, !.dirty = d].at = step
    BY <1>a DEF RequestState
  <2>2. [req[r] EXCEPT !.at = step, !.found = d].at = step
    BY <1>a DEF RequestState
  <2>3. ~Become(r, [req[r] EXCEPT !.at = step, !.dirty = d])
    BY <1>b, <1>f, <2>1
  <2>4. ~Become(r, [req[r] EXCEPT !.at = step, !.found = d])
    BY <1>b, <1>f, <2>2
  <2> QED
    BY <2>3, <2>4
<1>1. PICK p \in Requests :
        /\ \/ InitiateAuth(p) \/ RegisterKey(p) \/ Authenticate(p)
           \/ RefreshToken(p) \/ ValidateSession(p) \/ RevokeKeys(p)
           \/ \E t \in Tokens : RevokeSession(p, t)
           \/ Abort(p)
        /\ \E st : Become(p, st)
  BY <1>a, ReqWriters
<1>2. p = r
  BY <1>a, <1>1 DEF Become
<1>3. ~InitiateAuth(r)
  <2>1. ASSUME NEW v \in Wallets, CleanupExpiredChallenges(r, v) PROVE FALSE
    BY <1>b, <1>e, <2>1 DEF CleanupExpiredChallenges, Idle
  <2> QED
    BY <1>c, <2>1 DEF InitiateAuth, StoreChallenge
<1>4. Authenticate(r) => FindOldSessions(r) \/ DeactivateOldSessions(r)
  <2>1. ASSUME NEW v \in Wallets, NEW k \in Keys, FindActiveKey(r, v, k) PROVE FALSE
    BY <1>b, <1>e, <2>1 DEF FindActiveKey, Idle
  <2>2. ~LoadKey(r)
    <3>1. ASSUME NEW d PROVE ~Become(r, [req[r] EXCEPT !.at = "auth.write", !.dirty = d])
      <4>1. "auth.write" \notin EntrySteps
        OBVIOUS
      <4> HIDE DEF EntrySteps, CountSteps
      <4> QED
        BY <1>f, <4>1, Zenon
    <3> QED
      BY <3>1, Zenon DEF LoadKey
  <2>3. \A t \in Tokens : ~InsertSession(r, t)
    BY <1>d DEF InsertSession
  <2> QED
    BY <1>c, <2>1, <2>2, <2>3 DEF Authenticate, WriteKey
<1>5. ASSUME NEW next, next \notin EntrySteps, LoadSession(r, next) PROVE FALSE
  BY <1>5, <1>f, Zenon DEF LoadSession
<1>6. ~RefreshToken(r)
  <2>1. ASSUME NEW t \in Tokens, NEW v \in Wallets, FindSessionToRefresh(r, t, v)
        PROVE  FALSE
    BY <1>b, <1>e, <2>1 DEF FindSessionToRefresh, Idle
  <2>2. ~RefreshCheckKey(r)
    <3>1. ASSUME NEW e
          PROVE  ~Become(r, [req[r] EXCEPT !.at = "refresh.load", !.expires = e])
      <4>1. [req[r] EXCEPT !.at = "refresh.load", !.expires = e].at = "refresh.load"
        BY <1>a DEF RequestState
      <4> QED
        BY <1>b, <4>1
    <3> QED
      BY <1>c, <3>1, Zenon DEF RefreshCheckKey
  <2>3. ~RefreshLoad(r)
    BY <1>5 DEF RefreshLoad
  <2> QED
    BY <1>c, <2>1, <2>2, <2>3 DEF RefreshToken, RefreshWrite
<1>7. ~ValidateSession(r)
  <2>1. ASSUME NEW t \in Tokens, NEW then, FindSessionToValidate(r, t, then)
        PROVE  FALSE
    BY <1>b, <1>e, <2>1 DEF FindSessionToValidate, Idle
  <2>2. ~ValidateCheckKey(r)
    BY <1>c, <1>d DEF ValidateCheckKey
  <2>3. ~ValidateLoad(r)
    BY <1>5 DEF ValidateLoad
  <2>4. ~ValidateWrite(r)
    <3>1. ASSUME Become(r, [Idle EXCEPT !.at = req[r].then]) PROVE FALSE
      <4>1. [Idle EXCEPT !.at = req[r].then].at = req[r].then
        BY DEF Idle
      <4>2. req[r].then \notin EntrySteps
        BY <1>a DEF RequestState
      <4> QED
        BY <1>b, <3>1, <4>1, <4>2
    <3> QED
      BY <1>c, <3>1 DEF ValidateWrite
  <2> QED
    BY <2>1, <2>2, <2>3, <2>4 DEF ValidateSession
<1>8. ~RevokeKeys(r)
  <2>1. ASSUME NEW v \in Wallets, NEW S, RevokeActiveKeys(r, v, S) PROVE FALSE
    <3> DEFINE st == [req[r] EXCEPT !.at = "revoke.find", !.wallet = v,
                                    !.revoked = WhereClause(v, S), !.found = S]
    <3>1. st.at = "revoke.find"
      BY <1>a DEF RequestState
    <3>2. Become(r, st)
      BY <2>1 DEF RevokeActiveKeys
    <3> HIDE DEF st
    <3> QED
      BY <1>b, <3>1, <3>2
  <2>2. ~FindKeysOfWallet(r)
    <3>1. ASSUME NEW f PROVE ~Become(r, [req[r] EXCEPT !.at = "revoke.sessions", !.found = f])
      <4>1. "revoke.sessions" \notin EntrySteps
        OBVIOUS
      <4> HIDE DEF EntrySteps, CountSteps
      <4> QED
        BY <1>f, <4>1, Zenon
    <3> QED
      BY <1>c, <3>1, Zenon DEF FindKeysOfWallet
  <2> QED
    BY <1>c, <2>1, <2>2 DEF RevokeKeys, RevokeSessionsOfKeys
<1>9. RegisterKey(r) => CountKeys(r) \/ FindPublicKey(r)
  <2>1. ASSUME NEW v \in Wallets, NEW k \in Keys, NEW c \in Codes,
               FindChallenge(r, v, k, c)
        PROVE  FALSE
    BY <1>b, <1>e, <2>1 DEF FindChallenge, Idle
  <2>2. ~InsertKey(r)
    BY <1>c, <1>d DEF InsertKey
  <2>3. ~LoadChallenge(r) /\ ~WriteChallenge(r)
    <3>1. ASSUME NEW d PROVE ~Become(r, [req[r] EXCEPT !.at = "register.write", !.dirty = d])
      <4>1. "register.write" \notin EntrySteps
        OBVIOUS
      <4> HIDE DEF EntrySteps, CountSteps
      <4> QED
        BY <1>f, <4>1, Zenon
    <3> QED
      BY <1>c, <3>1, Zenon DEF LoadChallenge, WriteChallenge
  <2> QED
    BY <2>1, <2>2, <2>3 DEF RegisterKey
<1> QED
  BY <1>1, <1>2, <1>3, <1>4, <1>6, <1>7, <1>8, <1>9, <1>c DEF RevokeSession, Abort

(* Only the count of registerKey lets a request go on to the insert. *)
LEMMA PassesCount ==
  ASSUME TypeOK, [Next]_vars, NEW w \in Wallets, NEW r \in Requests,
         r \in PastCount(w)', r \notin PastCount(w)
  PROVE  /\ CountKeys(r)
         /\ req[r].wallet = w
         /\ Cardinality(ActiveKeys(w)) < MAX_KEYS_PER_WALLET
         /\ req' = [req EXCEPT ![r].at = "register.find"]
<1> USE DEF CountSteps
<1>a. /\ req[r] \in RequestState /\ req \in [Requests -> RequestState]
      /\ req'[r].at \in CountSteps /\ req'[r].wallet = w
      /\ ~(req[r].at \in CountSteps /\ req[r].wallet = w)
  BY DEF TypeOK, PastCount
<1>c. ~Finish(r)
  BY <1>a DEF Finish, Become, Idle
<1>d. ASSUME NEW step, Advance(r, step)
      PROVE  /\ step \in CountSteps /\ req[r].wallet = w
             /\ req' = [req EXCEPT ![r].at = step]
  <2>1. req'[r] = [req[r] EXCEPT !.at = step]
    BY <1>a, <1>d DEF Advance, Become
  <2>2. req'[r].at = step /\ req'[r].wallet = req[r].wallet
    BY <1>a, <2>1 DEF RequestState
  <2> QED
    BY <1>a, <1>d, <2>2 DEF Advance, Become
<1>1. CountKeys(r) \/ FindPublicKey(r) \/ FindOldSessions(r) \/ DeactivateOldSessions(r)
  BY <1>a, Enters DEF EntrySteps
<1>2. ~FindPublicKey(r)
  BY <1>a, <1>c, <1>d DEF FindPublicKey
<1>3. ~FindOldSessions(r)
  <2>1. ASSUME NEW v
        PROVE  ~Become(r, [req[r] EXCEPT !.at = "auth.deactivate", !.victims = v])
    <3>1. [req[r] EXCEPT !.at = "auth.deactivate", !.victims = v].at = "auth.deactivate"
      BY <1>a DEF RequestState
    <3> QED
      BY <1>a, <3>1 DEF Become
  <2>2. ~Advance(r, "auth.insert")
    BY <1>d
  <2> QED
    BY <2>1, <2>2, Zenon DEF FindOldSessions
<1>4. ~DeactivateOldSessions(r)
  BY <1>a DEF DeactivateOldSessions, Become, RequestState
<1> QED
  BY <1>1, <1>2, <1>3, <1>4, <1>c, <1>d DEF CountKeys

(* A key becomes a candidate only when it is inserted. *)
LEMMA CandidateEnters ==
  ASSUME TypeOK, AuthHoldsRegisteredKey, [Next]_vars, NEW w \in Wallets,
         NEW k \in Candidates(w)', k \notin Candidates(w)
  PROVE  /\ keys[k].status = "none"
         /\ \E r \in Requests : InsertKey(r) /\ req[r].key = k
<1>0. k \in Keys /\ keys'[k].wallet = w
      /\ \/ keys'[k].status = "active"
         \/ keys'[k].status = "revoked" /\ \E r \in Requests : HoldsKey(r, k)'
  BY DEF Candidates
<1>1. CASE keys[k].status = "none"
  <2>1. ASSUME NEW r \in Requests, WriteKey(r) PROVE keys'[k] = keys[k]
    <3>1. "status" \in req[r].dirty => req[r].key # k
      BY <1>1, <2>1 DEF WriteKey, AuthHoldsRegisteredKey, AuthSteps
    <3> QED
      BY <2>1, <3>1 DEF WriteKey, TypeOK
  <2>2. ASSUME NEW r \in Requests, NEW v \in Wallets, NEW S, RevokeActiveKeys(r, v, S)
        PROVE  keys'[k] = keys[k]
    BY <1>0, <1>1, <2>2 DEF RevokeActiveKeys, WhereClause, ActiveKeys, TypeOK
  <2>3. PICK r \in Requests : InsertKey(r)
    BY <1>0, <1>1, <2>1, <2>2, KeyWriters
  <2>4. req[r].key = k
    BY <1>0, <1>1, <2>3 DEF InsertKey, TypeOK
  <2> QED
    BY <1>1, <2>3, <2>4
<1>2. CASE keys[k].status # "none"
  <2>1. keys[k].wallet = w
    BY <1>0, <1>2, KeysStay
  <2>2. keys[k].status = "revoked"
        /\ \A r \in Requests : ~(req[r].key = k /\ req[r].at \in AuthSteps)
    BY <1>0, <1>2, <2>1 DEF Candidates, HoldsKey, AuthSteps, TypeOK, KeyRow
  <2>3. RevokedForGood(k)
    BY <2>2 DEF RevokedForGood, HoldsKey, AuthSteps
  <2>4. RevokedForGood(k)'
    BY <1>0, <2>3, RevokedStep
  <2> QED
    BY <1>0, <2>4 DEF RevokedForGood
<1> QED
  BY <1>1, <1>2

(* The count of registerKey: the keys that are active, the authenticates    *)
(* that may bring one back, and the registrations past the count, of which  *)
(* there is one more now, are all bounded.                                  *)
LEMMA CountPasses ==
  ASSUME TypeOK, [Next]_vars, NEW w \in Wallets, NEW r \in Requests,
         IsFiniteSet(Candidates(w)),
         r \in PastCount(w)', r \notin PastCount(w)
  PROVE  /\ IsFiniteSet(Candidates(w)')
         /\ Cardinality(Candidates(w)') + Cardinality(PastCount(w)')
               <= MAX_KEYS_PER_WALLET - 1 + Cardinality(Requests)
<1> DEFINE Holders == {q \in Requests : req[q].at \in AuthSteps}
           Held == {req[q].key : q \in Holders}
<1>1. /\ CountKeys(r)
      /\ Cardinality(ActiveKeys(w)) < MAX_KEYS_PER_WALLET
      /\ req' = [req EXCEPT ![r].at = "register.find"]
  BY PassesCount
<1>2. IsFiniteSet(ActiveKeys(w))
  <2>1. ActiveKeys(w) \subseteq Candidates(w)
    BY DEF ActiveKeys, Candidates
  <2> QED
    BY <2>1, FS_Subset
<1>3. /\ IsFiniteSet(Holders) /\ IsFiniteSet(PastCount(w)')
      /\ IsFiniteSet(Holders \cup PastCount(w)')
      /\ Cardinality(Holders \cup PastCount(w)') <= Cardinality(Requests)
  <2>1. /\ Holders \subseteq Requests /\ PastCount(w)' \subseteq Requests
        /\ Holders \cup PastCount(w)' \subseteq Requests
    BY DEF PastCount
  <2> QED
    BY <2>1, FS_Subset, RequestsAssumption
<1>4. Holders \cap PastCount(w)' = {}
  <2>1. \A q \in Requests \ {r} : req'[q] = req[q]
    BY <1>1 DEF TypeOK
  <2>2. r \notin Holders
    BY <1>1 DEF CountKeys, AuthSteps
  <2> QED
    BY <2>1, <2>2 DEF PastCount, AuthSteps
<1>5. Cardinality(Holders) + Cardinality(PastCount(w)') <= Cardinality(Requests)
  <2>1. /\ Cardinality(Holders) \in Nat /\ Cardinality(PastCount(w)') \in Nat
        /\ Cardinality(Requests) \in Nat
    BY <1>3, FS_CardinalityType, RequestsAssumption
  <2>2. Cardinality(Holders \cup PastCount(w)')
           = Cardinality(Holders) + Cardinality(PastCount(w)')
             - Cardinality(Holders \cap PastCount(w)')
    BY <1>3, FS_Union
  <2>3. Cardinality(Holders \cap PastCount(w)') = 0
    BY <1>4, FS_EmptySet
  <2> QED
    BY <1>3, <2>1, <2>2, <2>3
<1>6. IsFiniteSet(Held) /\ Cardinality(Held) <= Cardinality(Holders)
  <2>1. [q \in Holders |-> req[q].key] \in Surjection(Holders, Held)
    BY DEF Surjection
  <2> QED
    BY <1>3, <2>1, FS_Surjection
<1>7. Candidates(w)' \subseteq ActiveKeys(w) \cup Held
  <2>1. UNCHANGED keys /\ \A q \in Requests : req'[q].at \in AuthSteps =>
                            q \in Holders /\ req'[q] = req[q]
    BY <1>1 DEF CountKeys, TypeOK, AuthSteps, RequestState
  <2> QED
    BY <2>1 DEF Candidates, ActiveKeys, HoldsKey, AuthSteps
<1>8. /\ IsFiniteSet(ActiveKeys(w) \cup Held)
      /\ Cardinality(ActiveKeys(w) \cup Held)
            <= Cardinality(ActiveKeys(w)) + Cardinality(Held)
  <2>1. /\ IsFiniteSet(ActiveKeys(w) \cup Held)
        /\ Cardinality(ActiveKeys(w) \cup Held)
              = Cardinality(ActiveKeys(w)) + Cardinality(Held)
                - Cardinality(ActiveKeys(w) \cap Held)
    BY <1>2, <1>6, FS_Union
  <2>2. IsFiniteSet(ActiveKeys(w) \cap Held)
    BY <1>2, FS_Intersection
  <2> QED
    BY <1>2, <1>6, <2>1, <2>2, FS_CardinalityType
<1>9. /\ IsFiniteSet(Candidates(w)')
      /\ Cardinality(Candidates(w)') <= Cardinality(ActiveKeys(w) \cup Held)
  BY <1>7, <1>8, FS_Subset
<1>10. {Cardinality(Candidates(w)'), Cardinality(PastCount(w)'), Cardinality(Holders),
        Cardinality(Held), Cardinality(ActiveKeys(w)),
        Cardinality(ActiveKeys(w) \cup Held), Cardinality(Requests)} \subseteq Nat
  BY <1>2, <1>3, <1>6, <1>8, <1>9, FS_CardinalityType, RequestsAssumption
<1> QED
  BY <1>1, <1>5, <1>6, <1>8, <1>9, <1>10, LimitsAssumption

LEMMA KeysInvStep ==
  ASSUME TypeOK, AuthHoldsRegisteredKey, KeysInv, [Next]_vars
  PROVE  KeysInv'
<1> SUFFICES ASSUME NEW w \in Wallets
             PROVE  /\ IsFiniteSet(Candidates(w)')
                    /\ Cardinality(Candidates(w)') + Cardinality(PastCount(w)')
                          <= MAX_KEYS_PER_WALLET - 1 + Cardinality(Requests)
  BY DEF KeysInv
<1>1. /\ IsFiniteSet(Candidates(w))
      /\ Cardinality(Candidates(w)) + Cardinality(PastCount(w))
            <= MAX_KEYS_PER_WALLET - 1 + Cardinality(Requests)
  BY DEF KeysInv
<1>2. CASE ~(PastCount(w)' \subseteq PastCount(w))
  <2>1. PICK r \in Requests : r \in PastCount(w)' /\ r \notin PastCount(w)
    BY <1>2 DEF PastCount
  <2> QED
    BY <1>1, <2>1, CountPasses
<1>3. CASE PastCount(w)' \subseteq PastCount(w)
  <2>1. \/ Candidates(w)' \subseteq Candidates(w)
        \/ \E k, r : /\ k \notin Candidates(w)
                     /\ Candidates(w)' = Candidates(w) \cup {k}
                     /\ r \in PastCount(w) /\ PastCount(w)' = PastCount(w) \ {r}
    <3> SUFFICES ASSUME NEW k \in Candidates(w)', k \notin Candidates(w)
                 PROVE  \E r : /\ Candidates(w)' = Candidates(w) \cup {k}
                               /\ r \in PastCount(w)
                               /\ PastCount(w)' = PastCount(w) \ {r}
      OBVIOUS
    <3>1. k \in Keys /\ keys'[k].wallet = w
      BY DEF Candidates
    <3>2. keys[k].status = "none"
      BY CandidateEnters
    <3>3. PICK r \in Requests : InsertKey(r) /\ req[r].key = k
      BY CandidateEnters
    <3>4. /\ req[r].wallet = w /\ req[r].at = "register.insert"
          /\ \A j \in Keys \ {k} : keys'[j] = keys[j]
          /\ req' = [req EXCEPT ![r] = [req[r] EXCEPT !.at = "register.load"]]
      BY <3>1, <3>2, <3>3 DEF InsertKey, TypeOK, Advance, Become
    <3>5. req[r] \in RequestState /\ req \in [Requests -> RequestState]
      BY DEF TypeOK
    <3>6. /\ req'[r].at = "register.load"
          /\ \A q \in Requests \ {r} : req'[q] = req[q]
      BY <3>4, <3>5 DEF RequestState
    <3>7. r \in PastCount(w) /\ PastCount(w)' = PastCount(w) \ {r}
      BY <3>4, <3>6 DEF PastCount
    <3>8. \A q \in Requests, j \in Keys : HoldsKey(q, j)' = HoldsKey(q, j)
      BY <3>4, <3>6 DEF HoldsKey
    <3>9. Candidates(w)' = Candidates(w) \cup {k}
      BY <3>1, <3>4, <3>8 DEF Candidates
    <3> QED
      BY <3>7, <3>9
  <2>2. PastCount(w) \subseteq Requests /\ PastCount(w)' \subseteq Requests
    BY DEF PastCount
  <2>3. /\ MAX_KEYS_PER_WALLET - 1 + Cardinality(Requests) \in Nat
        /\ Cardinality(Requests) <= MAX_KEYS_PER_WALLET - 1 + Cardinality(Requests)
    BY RequestsAssumption, LimitsAssumption, FS_CardinalityType
  <2>4. PICK N \in Nat : N = MAX_KEYS_PER_WALLET - 1 + Cardinality(Requests)
    BY <2>3
  <2> QED
    BY <1>1, <1>3, <2>1, <2>2, <2>3, <2>4, RequestsAssumption, Counting
<1> QED
  BY <1>2, <1>3

(* MAX_KEYS_PER_WALLET is exceeded at most by one key per request that runs *)
(* concurrently with another, although registerKey counts in one query and  *)
(* inserts in another, and although authenticate can bring a revoked key    *)
(* back.                                                                    *)
THEOREM ActiveKeysStayBounded == Spec => []ActiveKeysBounded
<1> DEFINE IInv == AuthHoldsRegisteredKey /\ KeysInv
<1>1. Init => IInv
  <2> SUFFICES ASSUME Init PROVE IInv
    OBVIOUS
  <2>1. AuthHoldsRegisteredKey
    BY DEF Init, AuthHoldsRegisteredKey, Idle, AuthSteps
  <2>2. \A w \in Wallets : Candidates(w) = {} /\ PastCount(w) = {}
    BY DEF Init, Candidates, PastCount, NoKey, Idle
  <2> QED
    <3>1. MAX_KEYS_PER_WALLET \in Nat \ {0} /\ Cardinality(Requests) \in Nat
      BY FS_CardinalityType, RequestsAssumption, LimitsAssumption
    <3> QED
      BY <2>1, <2>2, <3>1, FS_EmptySet DEF KeysInv
<1>2. TypeOK /\ IInv /\ [Next]_vars => IInv'
  BY AuthHoldsStep, KeysInvStep
<1>3. IInv => ActiveKeysBounded
  <2> SUFFICES ASSUME KeysInv, NEW w \in Wallets
               PROVE  Cardinality(ActiveKeys(w))
                         < MAX_KEYS_PER_WALLET + Cardinality(Requests)
    BY DEF ActiveKeysBounded
  <2>1. ActiveKeys(w) \subseteq Candidates(w) /\ PastCount(w) \subseteq Requests
    BY DEF ActiveKeys, Candidates, PastCount
  <2>2. /\ IsFiniteSet(Candidates(w)) /\ IsFiniteSet(ActiveKeys(w))
        /\ IsFiniteSet(PastCount(w))
        /\ Cardinality(ActiveKeys(w)) <= Cardinality(Candidates(w))
    BY <2>1, FS_Subset, RequestsAssumption DEF KeysInv
  <2>3. {Cardinality(Candidates(w)), Cardinality(ActiveKeys(w)),
         Cardinality(PastCount(w)), Cardinality(Requests)} \subseteq Nat
    BY <2>2, FS_CardinalityType, RequestsAssumption
  <2> QED
    BY <2>2, <2>3, LimitsAssumption DEF KeysInv
<1> QED
  BY <1>1, <1>2, <1>3, TypeCorrect, PTL DEF Spec

-----------------------------------------------------------------------------
(* The sessions of a key.  A session that is active, or that a refreshToken *)
(* or validateSession in flight may make active again, is a candidate.      *)
SessionCandidates(k) ==
    {t \in Tokens : /\ sessions[t].key = k
                    /\ \/ sessions[t].status = "active"
                       \/ /\ sessions[t].status = "inactive"
                          /\ \E r \in Requests : HoldsSession(r, t)}

Inserting(k) == {r \in Requests : req[r].at = "auth.insert" /\ req[r].key = k}
Deactivating(k) == {r \in Requests : req[r].at = "auth.deactivate" /\ req[r].key = k}
Victims == [r \in Requests |-> req[r].victims]

(* After cleanupOldSessions has listed the sessions, those it leaves, and   *)
(* those that every other request holds or is about to insert.              *)
Left == MAX_SESSIONS_PER_KEY + Cardinality(Requests) - 2

(* The inductive form of ActiveSessionsBounded.  Those that are deactivated *)
(* while another request holds them may come back, one for each request.    *)
SessionsInv ==
    \A k \in Keys : Removing(SessionCandidates(k), Victims, Inserting(k),
                             Deactivating(k), Requests,
                             Left, Left + Cardinality(Requests))

(* An authenticate holds no session. *)
AuthHoldsNoSession == \A r \in Requests : req[r].at \in AuthSteps => req[r].token = None

LEMMA Limits ==
  /\ Cardinality(Requests) \in Nat \ {0}
  /\ Left \in Nat /\ Left + Cardinality(Requests) \in Nat
<1>1. Cardinality(Requests) \in Nat /\ Cardinality(Requests) # 0
  BY FS_CardinalityType, FS_EmptySet, RequestsAssumption
<1> QED
  BY <1>1, LimitsAssumption DEF Left

LEMMA AuthHoldsNoSessionStep ==
  ASSUME TypeOK, AuthHoldsNoSession, [Next]_vars
  PROVE  AuthHoldsNoSession'
<1> SUFFICES ASSUME NEW r \in Requests, req'[r].at \in AuthSteps
             PROVE  req'[r].token = None
  BY DEF AuthHoldsNoSession
<1>1. CASE HoldsSame(r)
  BY <1>1 DEF HoldsSame, AuthHoldsNoSession
<1>2. CASE HoldsNothing(r)
  BY <1>2 DEF HoldsNothing
<1>3. CASE TakesHold(r)
  <2>a. \A st : Begin(r, st) => req'[r] = st
    BY DEF Begin, Become, TypeOK
  <2>1. ASSUME NEW w \in Wallets, NEW k \in Keys, NEW c \in Codes,
               FindChallenge(r, w, k, c)
        PROVE  req'[r].token = None
    BY <2>a, <2>1 DEF FindChallenge, Idle
  <2>2. ASSUME NEW w \in Wallets, NEW k \in Keys, FindActiveKey(r, w, k)
        PROVE  req'[r].token = None
    BY <2>a, <2>2 DEF FindActiveKey, Idle
  <2>3. ASSUME NEW t \in Tokens, NEW w \in Wallets, FindSessionToRefresh(r, t, w)
        PROVE  FALSE
    BY <2>a, <2>3 DEF FindSessionToRefresh, Idle, AuthSteps
  <2>4. ASSUME NEW t \in Tokens, NEW then, FindSessionToValidate(r, t, then)
        PROVE  FALSE
    BY <2>a, <2>4 DEF FindSessionToValidate, Idle, AuthSteps
  <2> QED
    BY <1>3, <2>1, <2>2, <2>3, <2>4 DEF TakesHold
<1> QED
  BY <1>1, <1>2, <1>3, Holds

(* A session becomes a candidate only when it is inserted. *)
LEMMA SessionEnters ==
  ASSUME TypeOK, HeldSessionsExist, [Next]_vars, NEW k \in Keys,
         NEW t \in SessionCandidates(k)', t \notin SessionCandidates(k)
  PROVE  \E r \in Requests : InsertSession(r, t) /\ req[r].key = k
<1>0. t \in Tokens /\ sessions'[t].key = k /\ sessions'[t].status # "none"
      /\ \/ sessions'[t].status = "active"
         \/ \E r \in Requests : HoldsSession(r, t)'
  BY DEF SessionCandidates
<1>1. CASE sessions[t].status = "none"
  <2>1. ASSUME NEW r \in Requests, WriteSession(r) PROVE sessions'[t] = sessions[t]
    BY <1>0, <1>1, <2>1 DEF WriteSession, TypeOK, HeldSessionsExist, HoldsSession
  <2>2. ASSUME NEW S \in SUBSET Tokens, DeactivateSessions(S)
        PROVE  sessions'[t] = sessions[t]
    BY <1>0, <1>1, <2>2 DEF DeactivateSessions
  <2>3. PICK r \in Requests, u \in Tokens : InsertSession(r, u)
    BY <1>0, <1>1, <2>1, <2>2, SessionWriters
  <2>4. u = t /\ sessions'[t].key = req[r].key
    BY <1>0, <1>1, <2>3 DEF InsertSession, TypeOK
  <2> QED
    BY <1>0, <2>3, <2>4
<1>2. CASE sessions[t].status # "none"
  <2>1. sessions[t].key = k
    BY <1>0, <1>2, SessionsStay
  <2>2. DeactivatedForGood(t)
    BY <1>0, <1>2, <2>1
    DEF SessionCandidates, DeactivatedForGood, TypeOK, SessionRow
  <2>3. DeactivatedForGood(t)'
    BY <1>0, <2>2, DeactivatedStep
  <2> QED
    BY <1>0, <2>3 DEF DeactivatedForGood
<1> QED
  BY <1>1, <1>2

(* The sessions that requests hold are not more than the requests. *)
LEMMA HeldSessions ==
  ASSUME NEW Q, Q \subseteq Requests
  PROVE  LET X == {req[q].token : q \in Q}
         IN  /\ IsFiniteSet(Q) /\ IsFiniteSet(X)
             /\ Cardinality(Q) \in Nat /\ Cardinality(X) \in Nat
             /\ Cardinality(X) <= Cardinality(Q)
<1> DEFINE X == {req[q].token : q \in Q}
<1>1. IsFiniteSet(Q) /\ Cardinality(Q) \in Nat
  BY Fewer, RequestsAssumption
<1>2. [q \in Q |-> req[q].token] \in Surjection(Q, X)
  BY DEF Surjection
<1>3. IsFiniteSet(X) /\ Cardinality(X) <= Cardinality(Q)
  BY <1>1, <1>2, FS_Surjection
<1> QED
  BY <1>1, <1>3, FS_CardinalityType

(* When r lists the sessions of a key, every other request has a part in    *)
(* them only once: it holds one, or it is about to insert one.              *)
LEMMA Shares ==
  ASSUME TypeOK, AuthHoldsNoSession, NEW k \in Keys,
         NEW r \in Requests, req[r].at = "auth.sessions",
         NEW A, IsFiniteSet(A), NEW S,
         \A t \in S \ A : \E q \in Requests : req[q].token = t /\ t # None
  PROVE  /\ IsFiniteSet(S) /\ Cardinality(S) \in Nat
         /\ Cardinality(Inserting(k)) \in Nat /\ Cardinality(Deactivating(k)) \in Nat
         /\ Cardinality(S) + Cardinality(Inserting(k)) + Cardinality(Deactivating(k)) + 1
               <= Cardinality(A) + Cardinality(Requests)
<1> DEFINE Q == {q \in Requests : req[q].token # None}
           X == {req[q].token : q \in Q}
           F == Inserting(k)
           D == Deactivating(k)
<1>1. /\ Q \subseteq Requests \ {r} /\ F \subseteq Requests \ {r} /\ D \subseteq Requests \ {r}
      /\ Q \cap F = {} /\ (Q \cup F) \cap D = {}
  BY DEF Inserting, Deactivating, AuthHoldsNoSession, AuthSteps
<1>2. /\ IsFiniteSet(Requests \ {r})
      /\ Cardinality(Requests \ {r}) = Cardinality(Requests) - 1
  BY FS_RemoveElement, RequestsAssumption
<1>3. /\ IsFiniteSet(Q) /\ IsFiniteSet(F) /\ IsFiniteSet(D)
      /\ Cardinality(Q) \in Nat /\ Cardinality(F) \in Nat /\ Cardinality(D) \in Nat
  BY <1>1, <1>2, Fewer
<1>4. IsFiniteSet(Q \cup F) /\ Cardinality(Q \cup F) = Cardinality(Q) + Cardinality(F)
  <2>1. Cardinality(Q \cap F) = 0
    BY <1>1, FS_EmptySet
  <2>2. /\ IsFiniteSet(Q \cup F)
        /\ Cardinality(Q \cup F) = Cardinality(Q) + Cardinality(F) - Cardinality(Q \cap F)
    BY <1>3, FS_Union
  <2> HIDE DEF Q, F
  <2> QED
    BY <1>3, <2>1, <2>2
<1>5. /\ IsFiniteSet((Q \cup F) \cup D)
      /\ Cardinality((Q \cup F) \cup D) = Cardinality(Q \cup F) + Cardinality(D)
  <2>1. Cardinality((Q \cup F) \cap D) = 0
    BY <1>1, FS_EmptySet
  <2>2. /\ IsFiniteSet((Q \cup F) \cup D)
        /\ Cardinality((Q \cup F) \cup D)
              = Cardinality(Q \cup F) + Cardinality(D) - Cardinality((Q \cup F) \cap D)
    BY <1>3, <1>4, FS_Union
  <2>3. Cardinality(Q \cup F) \in Nat
    BY <1>4, FS_CardinalityType
  <2> HIDE DEF Q, F, D
  <2> QED
    BY <1>3, <2>1, <2>2, <2>3
<1>6. Cardinality((Q \cup F) \cup D) <= Cardinality(Requests) - 1
  BY <1>1, <1>2, Fewer
<1>7. IsFiniteSet(X) /\ Cardinality(X) \in Nat /\ Cardinality(X) <= Cardinality(Q)
  BY HeldSessions
<1>8. /\ IsFiniteSet(A \cup X)
      /\ Cardinality(A \cup X) = Cardinality(A) + Cardinality(X) - Cardinality(A \cap X)
  BY <1>7, FS_Union
<1>9. Cardinality(A) \in Nat /\ Cardinality(A \cap X) \in Nat
  BY <1>7, Fewer
<1>10. S \subseteq A \cup X
  OBVIOUS
<1>11. IsFiniteSet(S) /\ Cardinality(S) \in Nat /\ Cardinality(S) <= Cardinality(A \cup X)
  BY <1>8, <1>10, Fewer
<1> HIDE DEF Q, X, F, D
<1>12. Cardinality(S) + Cardinality(F) + Cardinality(D) + 1
          <= Cardinality(A) + Cardinality(Requests)
  BY <1>3, <1>4, <1>5, <1>6, <1>7, <1>8, <1>9, <1>11, Limits
<1> QED
  BY <1>3, <1>11, <1>12 DEF F, D

(* cleanupOldSessions lists the active sessions of the key. *)
LEMMA ListsSessions ==
  ASSUME TypeOK, AuthHoldsNoSession, SessionsInv, NEW r \in Requests, FindOldSessions(r),
         NEW k \in Keys, req[r].key = k
  PROVE  Removing(SessionCandidates(k), Victims, Inserting(k), Deactivating(k),
                  Requests, Left, Left + Cardinality(Requests))'
<1> DEFINE C == SessionCandidates(k)
           A == ActiveSessions(k)
<1>0. /\ UNCHANGED sessions /\ req[r].at = "auth.sessions"
      /\ req[r] \in RequestState /\ req \in [Requests -> RequestState]
      /\ Removing(C, Victims, Inserting(k), Deactivating(k), Requests,
                  Left, Left + Cardinality(Requests))
  BY DEF FindOldSessions, TypeOK, SessionsInv
<1>1. /\ IsFiniteSet(C) /\ A \subseteq C
      /\ \A t \in C \ A : \E q \in Requests : req[q].token = t /\ t # None
  BY <1>0, NoneAssumption DEF Removing, SessionCandidates, ActiveSessions, HoldsSession
<1>2. IsFiniteSet(A) /\ Cardinality(A) \in Nat
  BY <1>1, Fewer
<1>3. CASE Cardinality(A) < MAX_SESSIONS_PER_KEY /\ Advance(r, "auth.insert")
  <2>1. req' = [req EXCEPT ![r] = [req[r] EXCEPT !.at = "auth.insert"]]
    BY <1>3 DEF Advance, Become
  <2>2. /\ req'[r].at = "auth.insert" /\ req'[r].key = k /\ req'[r].token = req[r].token
        /\ \A q \in Requests \ {r} : req'[q] = req[q]
    BY <1>0, <2>1 DEF RequestState
  <2>3. C' = C
    BY <1>0, <2>2 DEF SessionCandidates, HoldsSession
  <2>4. /\ Inserting(k)' = Inserting(k) \cup {r} /\ r \notin Inserting(k)
        /\ Deactivating(k)' = Deactivating(k)
    BY <1>0, <2>2 DEF Inserting, Deactivating
  <2>5. /\ Cardinality(C) \in Nat
        /\ Cardinality(Inserting(k)) \in Nat /\ Cardinality(Deactivating(k)) \in Nat
        /\ Cardinality(C) + Cardinality(Inserting(k)) + Cardinality(Deactivating(k)) + 1
              <= Cardinality(A) + Cardinality(Requests)
    <3> HIDE DEF C, A
    <3> QED
      BY <1>0, <1>1, <1>2, Shares
  <2>6. Cardinality(Inserting(k) \cup {r}) = Cardinality(Inserting(k)) + 1
    <3>1. IsFiniteSet(Inserting(k))
      BY Fewer, RequestsAssumption DEF Inserting
    <3> QED
      BY <2>4, <3>1, FS_AddElement
  <2>7. Cardinality(C) + Cardinality(Inserting(k) \cup {r}) + Cardinality(Deactivating(k))
           <= Left + Cardinality(Requests)
    <3> HIDE DEF C, A
    <3> QED
      BY <1>2, <1>3, <2>5, <2>6, Limits, LimitsAssumption DEF Left
  <2>8. Deactivating(k)' \in SUBSET Requests /\ Left' = Left
    BY DEF Deactivating, Left
  <2> QED
    BY <1>1, <2>3, <2>4, <2>7, <2>8, RemovingAdmits, RequestsAssumption
<1>4. ASSUME NEW old \in SessionsToDeactivate(A), Cardinality(A) >= MAX_SESSIONS_PER_KEY,
             Become(r, [req[r] EXCEPT !.at = "auth.deactivate", !.victims = old])
      PROVE  Removing(SessionCandidates(k), Victims, Inserting(k), Deactivating(k),
                      Requests, Left, Left + Cardinality(Requests))'
  <2>1. PICK kept \in SUBSET A : old = A \ kept
                                 /\ Cardinality(kept) = MAX_SESSIONS_PER_KEY - 1
    BY <1>4 DEF SessionsToDeactivate
  <2>2. req' = [req EXCEPT ![r] = [req[r] EXCEPT !.at = "auth.deactivate",
                                                !.victims = old]]
    BY <1>4 DEF Become
  <2>3. /\ req'[r].at = "auth.deactivate" /\ req'[r].key = k
        /\ req'[r].victims = old /\ req'[r].token = req[r].token
        /\ \A q \in Requests \ {r} : req'[q] = req[q]
    BY <1>0, <2>2 DEF RequestState
  <2>4. C' = C
    BY <1>0, <2>3 DEF SessionCandidates, HoldsSession
  <2>5. /\ Inserting(k)' = Inserting(k)
        /\ Deactivating(k)' = Deactivating(k) \cup {r} /\ r \notin Deactivating(k)
    BY <1>0, <2>3 DEF Inserting, Deactivating
  <2>6. /\ Victims'[r] = old
        /\ \A q \in Deactivating(k) : Victims'[q] = Victims[q]
    BY <2>3, <2>5 DEF Victims, Deactivating
  <2>7. IsFiniteSet(kept)
    BY <1>2, Fewer
  <2>8. \A t \in (C \ old) \ kept : \E q \in Requests : req[q].token = t /\ t # None
    BY <1>1, <2>1
  <2>9. /\ Cardinality(C \ old) \in Nat
        /\ Cardinality(Inserting(k)) \in Nat /\ Cardinality(Deactivating(k)) \in Nat
        /\ Cardinality(C \ old) + Cardinality(Inserting(k)) + Cardinality(Deactivating(k)) + 1
              <= Cardinality(kept) + Cardinality(Requests)
    <3> HIDE DEF C, A
    <3> QED
      BY <1>0, <2>7, <2>8, Shares
  <2>10. Cardinality(C \ old) + Cardinality(Inserting(k)) + Cardinality(Deactivating(k)) <= Left
    <3> HIDE DEF C, A
    <3> QED
      BY <2>1, <2>9, Limits, LimitsAssumption DEF Left
  <2>11. /\ Inserting(k) \in SUBSET Requests /\ Deactivating(k) \in SUBSET Requests
         /\ Left' = Left
    BY DEF Inserting, Deactivating, Left
  <2>12. Removing(C, Victims', Inserting(k), Deactivating(k) \cup {r}, Requests,
                  Left, Left + Cardinality(Requests))
    <3> HIDE DEF C, A
    <3> QED
      BY <1>0, <2>5, <2>6, <2>10, <2>11, Limits, RequestsAssumption, RemovingLists
  <2> QED
    BY <2>4, <2>5, <2>11, <2>12
<1> QED
  BY <1>3, <1>4 DEF FindOldSessions

(* cleanupOldSessions deactivates what it has listed; what other requests   *)
(* hold may come back.                                                      *)
LEMMA DeactivatesSessions ==
  ASSUME TypeOK, AuthHoldsNoSession, HeldSessionsExist, SessionsInv, [Next]_vars,
         NEW r \in Requests, DeactivateOldSessions(r), NEW k \in Keys, req[r].key = k
  PROVE  Removing(SessionCandidates(k), Victims, Inserting(k), Deactivating(k),
                  Requests, Left, Left + Cardinality(Requests))'
<1> DEFINE C == SessionCandidates(k)
           Q == Requests \ {r}
           X == {req[q].token : q \in Q}
<1>1. /\ req[r].at = "auth.deactivate"
      /\ req[r] \in RequestState /\ req \in [Requests -> RequestState]
      /\ DeactivateSessions(req[r].victims)
      /\ req' = [req EXCEPT ![r] = [req[r] EXCEPT !.at = "auth.insert", !.victims = {}]]
      /\ Removing(C, Victims, Inserting(k), Deactivating(k), Requests,
                  Left, Left + Cardinality(Requests))
  BY DEF DeactivateOldSessions, TypeOK, Become, SessionsInv
<1>2. /\ req'[r].at = "auth.insert" /\ req'[r].key = k /\ req'[r].token = req[r].token
      /\ \A q \in Requests \ {r} : req'[q] = req[q]
  BY <1>1 DEF RequestState
<1>3. /\ r \in Deactivating(k) /\ r \notin Inserting(k)
      /\ Inserting(k)' = Inserting(k) \cup {r}
      /\ Deactivating(k)' = Deactivating(k) \ {r}
      /\ \A q \in Deactivating(k) \ {r} : Victims'[q] = Victims[q]
      /\ Victims[r] = req[r].victims
  BY <1>1, <1>2 DEF Inserting, Deactivating, Victims
<1>4. C' \subseteq C
  <2> SUFFICES ASSUME NEW t \in C', t \notin C
               PROVE  FALSE
    OBVIOUS
  <2>1. PICK q \in Requests : InsertSession(q, t)
    BY SessionEnters
  <2>2. t \in Tokens /\ sessions[t].status = "none" /\ sessions'[t].status # "none"
    BY <2>1 DEF InsertSession, SessionCandidates
  <2> QED
    BY <1>1, <2>2 DEF DeactivateSessions
<1>5. C' \subseteq (C \ Victims[r]) \cup X
  <2> SUFFICES ASSUME NEW t \in C', t \in req[r].victims
               PROVE  t \in X
    BY <1>3, <1>4
  <2>1. t \in Tokens /\ sessions'[t].status # "active"
    BY <1>1 DEF SessionCandidates, DeactivateSessions, TypeOK
  <2>2. PICK q \in Requests : req'[q].token = t
    BY <2>1 DEF SessionCandidates, HoldsSession
  <2>3. q # r
    BY <1>1, <1>2, <2>1, <2>2, NoneAssumption DEF AuthHoldsNoSession, AuthSteps
  <2> QED
    BY <1>2, <2>2, <2>3
<1>6. IsFiniteSet(X) /\ Cardinality(X) <= Cardinality(Requests) - 1
  <2>1. Cardinality(Q) = Cardinality(Requests) - 1
    BY FS_RemoveElement, RequestsAssumption
  <2> QED
    BY <2>1, HeldSessions
<1>7. /\ Inserting(k) \in SUBSET Requests /\ Deactivating(k) \in SUBSET Requests
      /\ Left' = Left
  BY DEF Inserting, Deactivating, Left
<1>8. Left + Cardinality(X) + 1 <= Left + Cardinality(Requests)
  <2>1. Cardinality(X) \in Nat
    BY <1>6, FS_CardinalityType
  <2> HIDE DEF X
  <2> QED
    BY <1>6, <2>1, Limits
<1>9. Removing(C', Victims', Inserting(k) \cup {r}, Deactivating(k) \ {r}, Requests,
               Left, Left + Cardinality(Requests))
  <2> HIDE DEF C, X
  <2> QED
    BY <1>1, <1>3, <1>4, <1>5, <1>6, <1>7, <1>8, Limits, RequestsAssumption,
       RemovingRemoves
<1> QED
  BY <1>3, <1>7, <1>9

(* authenticate inserts its session. *)
LEMMA InsertsSession ==
  ASSUME TypeOK, SessionsInv, NEW r \in Requests, NEW t \in Tokens, InsertSession(r, t),
         NEW k \in Keys, req[r].key = k
  PROVE  Removing(SessionCandidates(k), Victims, Inserting(k), Deactivating(k),
                  Requests, Left, Left + Cardinality(Requests))'
<1> DEFINE C == SessionCandidates(k)
<1>1. /\ req[r].at = "auth.insert"
      /\ req[r] \in RequestState /\ req \in [Requests -> RequestState]
      /\ req' = [req EXCEPT ![r] = [req[r] EXCEPT !.at = "auth.load"]]
      /\ \A u \in Tokens \ {t} : sessions'[u] = sessions[u]
      /\ Removing(C, Victims, Inserting(k), Deactivating(k), Requests,
                  Left, Left + Cardinality(Requests))
  BY DEF InsertSession, TypeOK, Advance, Become, SessionsInv
<1>2. /\ req'[r].at = "auth.load" /\ req'[r].token = req[r].token
      /\ \A q \in Requests \ {r} : req'[q] = req[q]
  BY <1>1 DEF RequestState
<1>3. /\ r \in Inserting(k)
      /\ Inserting(k)' = Inserting(k) \ {r} /\ Deactivating(k)' = Deactivating(k)
      /\ \A q \in Deactivating(k) : Victims'[q] = Victims[q]
  BY <1>1, <1>2 DEF Inserting, Deactivating, Victims
<1>4. C' \subseteq C \cup {t}
  BY <1>1, <1>2 DEF SessionCandidates, HoldsSession
<1>5. /\ Inserting(k) \in SUBSET Requests /\ Deactivating(k) \in SUBSET Requests
      /\ Left' = Left
  BY DEF Inserting, Deactivating, Left
<1> HIDE DEF C
<1>6. Removing(C \cup {t}, Victims, Inserting(k) \ {r}, Deactivating(k), Requests,
               Left, Left + Cardinality(Requests))
  BY <1>1, <1>3, <1>5, Limits, RequestsAssumption, RemovingAdds
<1>7. Removing(C', Victims', Inserting(k) \ {r}, Deactivating(k), Requests,
               Left, Left + Cardinality(Requests))
  BY <1>3, <1>4, <1>5, <1>6, Limits, RequestsAssumption, RemovingShrinks
<1> QED
  BY <1>3, <1>5, <1>7 DEF C

LEMMA SessionsInvStep ==
  ASSUME TypeOK, AuthHoldsNoSession, HeldSessionsExist, SessionsInv, [Next]_vars
  PROVE  SessionsInv'
<1> SUFFICES ASSUME NEW k \in Keys
             PROVE  Removing(SessionCandidates(k), Victims, Inserting(k), Deactivating(k),
                             Requests, Left, Left + Cardinality(Requests))'
  BY DEF SessionsInv
<1>1. CASE \E r \in Requests : FindOldSessions(r) /\ req[r].key = k
  BY <1>1, ListsSessions
<1>2. CASE \E r \in Requests : DeactivateOldSessions(r) /\ req[r].key = k
  BY <1>2, DeactivatesSessions
<1>3. CASE ~(SessionCandidates(k)' \subseteq SessionCandidates(k))
  <2>1. PICK t \in SessionCandidates(k)' : t \notin SessionCandidates(k)
    BY <1>3
  <2>2. t \in Tokens /\ \E r \in Requests : InsertSession(r, t) /\ req[r].key = k
    BY <2>1, SessionEnters DEF SessionCandidates
  <2> QED
    BY <2>2, InsertsSession
<1>4. CASE /\ SessionCandidates(k)' \subseteq SessionCandidates(k)
           /\ \A r \in Requests :
                 req[r].key = k => ~FindOldSessions(r) /\ ~DeactivateOldSessions(r)
  <2>1. ASSUME NEW q \in Requests, req'[q].at \in {"auth.insert", "auth.deactivate"},
               req'[q].key = k
        PROVE  req'[q] = req[q]
    <3> SUFFICES ASSUME req'[q] # req[q] PROVE FALSE
      OBVIOUS
    <3>a. req[q] \in RequestState /\ req \in [Requests -> RequestState]
      BY DEF TypeOK
    <3>1. CountKeys(q) \/ FindPublicKey(q) \/ FindOldSessions(q) \/ DeactivateOldSessions(q)
      BY <2>1, Enters DEF EntrySteps
    <3>2. ~CountKeys(q) /\ ~FindPublicKey(q)
      BY <2>1, <3>a DEF CountKeys, FindPublicKey, Advance, Finish, Become, Idle, RequestState
    <3>3. HoldsSame(q)
      <4>1. ~HoldsNothing(q)
        BY <2>1 DEF HoldsNothing, AuthSteps
      <4>2. ~TakesHold(q)
        <5>1. req[q].at # "idle"
          BY <3>1, <3>2 DEF FindOldSessions, DeactivateOldSessions
        <5> QED
          BY <5>1 DEF TakesHold, FindChallenge, FindActiveKey, FindSessionToRefresh,
             FindSessionToValidate, Begin
      <4> QED
        BY <4>1, <4>2, Holds
    <3> QED
      BY <1>4, <2>1, <3>1, <3>2, <3>3 DEF HoldsSame
  <2>2. /\ Inserting(k)' \subseteq Inserting(k) /\ Deactivating(k)' \subseteq Deactivating(k)
        /\ \A q \in Deactivating(k)' : Victims'[q] = Victims[q]
    BY <2>1 DEF Inserting, Deactivating, Victims
  <2>3. /\ Inserting(k) \in SUBSET Requests /\ Deactivating(k) \in SUBSET Requests
        /\ Left' = Left
    BY DEF Inserting, Deactivating, Left
  <2>4. Removing(SessionCandidates(k), Victims, Inserting(k), Deactivating(k),
                 Requests, Left, Left + Cardinality(Requests))
    BY DEF SessionsInv
  <2>5. Removing(SessionCandidates(k)', Victims', Inserting(k)', Deactivating(k)',
                 Requests, Left, Left + Cardinality(Requests))
    BY <1>4, <2>2, <2>3, <2>4, Limits, RequestsAssumption, RemovingShrinks
  <2> QED
    BY <2>3, <2>5
<1> QED
  BY <1>1, <1>2, <1>3, <1>4

(* MAX_SESSIONS_PER_KEY is exceeded by at most two sessions for each        *)
(* request that runs concurrently with another: cleanupOldSessions lists,   *)
(* deactivates and inserts in three queries, and a stale save brings a      *)
(* deactivated session back.                                                *)
THEOREM ActiveSessionsStayBounded == Spec => []ActiveSessionsBounded
<1> DEFINE IInv == AuthHoldsNoSession /\ HeldSessionsExist /\ SessionsInv
<1>1. Init => IInv
  <2> SUFFICES ASSUME Init PROVE IInv
    OBVIOUS
  <2>1. AuthHoldsNoSession /\ HeldSessionsExist
    BY NoneAssumption DEF Init, AuthHoldsNoSession, HeldSessionsExist, HoldsSession, Idle,
       AuthSteps
  <2>2. ASSUME NEW k \in Keys
        PROVE  SessionCandidates(k) = {} /\ Inserting(k) = {} /\ Deactivating(k) = {}
    BY DEF Init, SessionCandidates, Inserting, Deactivating, NoSession, Idle
  <2>3. Removing({}, Victims, {}, {}, Requests, Left, Left + Cardinality(Requests))
    BY Limits, FS_EmptySet, RequestsAssumption, RemovingAdmits
  <2> QED
    BY <2>1, <2>2, <2>3 DEF SessionsInv
<1>2. TypeOK /\ IInv /\ [Next]_vars => IInv'
  BY AuthHoldsNoSessionStep, HeldSessionsStep, SessionsInvStep
<1>3. IInv => ActiveSessionsBounded
  <2> SUFFICES ASSUME SessionsInv, NEW k \in Keys
               PROVE  Cardinality(ActiveSessions(k))
                         < MAX_SESSIONS_PER_KEY + 2 * Cardinality(Requests) - 1
    BY DEF ActiveSessionsBounded
  <2>1. IsFiniteSet(SessionCandidates(k))
        /\ \E P : Cardinality(SessionCandidates(k)) + Cardinality(Inserting(k))
                     + Cardinality(P \cap Deactivating(k)) <= Left + Cardinality(Requests)
    BY DEF SessionsInv, Removing, Leaves
  <2>2. PICK P : Cardinality(SessionCandidates(k)) + Cardinality(Inserting(k))
                    + Cardinality(P \cap Deactivating(k)) <= Left + Cardinality(Requests)
    BY <2>1
  <2>3. /\ Cardinality(Inserting(k)) \in Nat
        /\ Cardinality(P \cap Deactivating(k)) \in Nat
    <3>1. Inserting(k) \subseteq Requests /\ P \cap Deactivating(k) \subseteq Requests
      BY DEF Inserting, Deactivating
    <3> QED
      BY <3>1, Fewer, RequestsAssumption
  <2>4. /\ Cardinality(ActiveSessions(k)) \in Nat
        /\ Cardinality(SessionCandidates(k)) \in Nat
        /\ Cardinality(ActiveSessions(k)) <= Cardinality(SessionCandidates(k))
    <3>1. ActiveSessions(k) \subseteq SessionCandidates(k)
      BY DEF ActiveSessions, SessionCandidates
    <3> QED
      BY <2>1, <3>1, Fewer
  <2> QED
    BY <2>2, <2>3, <2>4, Limits, LimitsAssumption DEF Left
<1> QED
  BY <1>1, <1>2, <1>3, TypeCorrect, PTL DEF Spec

=============================================================================
