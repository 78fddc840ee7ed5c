----------------------------- MODULE WalletAuth -----------------------------
(***************************************************************************)
(* The wallet authentication service (src/modules/wallet-auth): three      *)
(* Postgres tables (keys, sessions, challenges) and the HTTP requests that *)
(* work on them.  A Node handler runs alone between two awaits, and every  *)
(* await is one query, so a request is a small process: one action per     *)
(* query, and the requests interleave at every one of them.                *)
(*                                                                         *)
(* repository.save(entity) of a row that was loaded earlier is two steps,  *)
(* as TypeORM performs it: a SELECT of the row, whose columns are compared *)
(* with the entity in memory, and an UPDATE of the columns that differ.    *)
(* What another request wrote to those columns meanwhile is overwritten    *)
(* with the value that the entity was loaded with.                         *)
(***************************************************************************)
EXTENDS Naturals, FiniteSets

CONSTANTS
    Requests,               \* the requests that may be in flight together
    Wallets,                \* wallet addresses
    Keys,                   \* public keys; the column is unique, so also rows
    Codes,                  \* challenge codes, a fresh random one per row
    Tokens,                 \* session tokens, a fresh random one per row
    None,                   \* no value
    MAX_KEYS_PER_WALLET,
    MAX_SESSIONS_PER_KEY,
    CHALLENGE_EXPIRY,
    SESSION_EXPIRY,
    KEY_EXPIRY,
    KeyLifetimes,           \* KEY_EXPIRY and what clients ask for instead
    MaxTime                 \* bound of the model: the clock stops there

ASSUME LimitsAssumption ==
    /\ MAX_KEYS_PER_WALLET \in Nat \ {0}
    /\ MAX_SESSIONS_PER_KEY \in Nat \ {0}
    /\ {CHALLENGE_EXPIRY, SESSION_EXPIRY, KEY_EXPIRY} \subseteq Nat \ {0}
    /\ KEY_EXPIRY \in KeyLifetimes /\ KeyLifetimes \subseteq Nat
    /\ MaxTime \in Nat

ASSUME RequestsAssumption == IsFiniteSet(Requests) /\ Requests # {}

ASSUME NoneAssumption == None \notin Wallets \cup Keys \cup Codes \cup Tokens

VARIABLES
    now,            \* the wall clock
    keys,           \* table wallet_auth_keys
    sessions,       \* table wallet_auth_sessions
    challenges,     \* table wallet_auth_challenges
    req             \* the requests: where each one stands, and its locals

vars == <<now, keys, sessions, challenges, req>>

-----------------------------------------------------------------------------
(* Rows.  A row that does not exist (yet) has status "none". *)

KeyRow == [status: {"none", "active", "revoked"},
           wallet: Wallets \cup {None}, expiresAt: Nat]

SessionRow == [status: {"none", "active", "inactive"},
               wallet: Wallets \cup {None}, key: Keys \cup {None},
               expiresAt: Nat, createdAt: Nat]

ChallengeRow == [status: {"none", "unused", "used", "deleted"},
                 wallet: Wallets \cup {None}, expiresAt: Nat]

(* What a request is about to do.  The guard runs validateSession first and *)
(* "then" says which handler it guards.                                     *)
Steps == {"idle", "initiate.store",
          "register.count", "register.find", "register.insert",
          "register.load", "register.write",
          "auth.sessions", "auth.deactivate", "auth.insert",
          "auth.load", "auth.write",
          "refresh.key", "refresh.load", "refresh.write",
          "validate.key", "validate.load", "validate.write",
          "revoke.keys", "revoke.find", "revoke.sessions",
          "revoke.session"}

Columns == {"status", "expiresAt", "insert"}

RequestState ==
    [at: Steps,
     wallet: Wallets \cup {None}, key: Keys \cup {None},
     code: Codes \cup {None}, token: Tokens \cup {None},
     expires: Nat,              \* expiresAt of the session entity in memory
     dirty: SUBSET Columns,     \* columns the save is about to write
     victims: SUBSET Tokens,    \* sessionIds of cleanupOldSessions
     revoked: SUBSET Keys,      \* rows the UPDATE of revokeKeys affected
     found: SUBSET Keys,        \* keyIds of revokeKeys
     then: {"answer", "revoke.keys", "revoke.session"}]

Idle == [at |-> "idle", wallet |-> None, key |-> None, code |-> None,
         token |-> None, expires |-> 0, dirty |-> {}, victims |-> {},
         revoked |-> {}, found |-> {}, then |-> "answer"]

NoKey == [status |-> "none", wallet |-> None, expiresAt |-> 0]
NoSession == [status |-> "none", wallet |-> None, key |-> None,
              expiresAt |-> 0, createdAt |-> 0]
NoChallenge == [status |-> "none", wallet |-> None, expiresAt |-> 0]

Become(r, st) == req' = [req EXCEPT ![r] = st]
Begin(r, st) == req[r].at = "idle" /\ Become(r, st)
Advance(r, step) == Become(r, [req[r] EXCEPT !.at = step])
Finish(r) == Become(r, Idle)

(* The queries' conditions. *)
ActiveKeys(w) == {k \in Keys : keys[k].status = "active" /\ keys[k].wallet = w}
ActiveSessions(k) ==
    {t \in Tokens : sessions[t].status = "active" /\ sessions[t].key = k}
Unexpired(row) == row.expiresAt > now

\* Slip: the isActive condition left out of the where clause.
LiveSessionAnyStatus(t) == sessions[t].status # "none" /\ Unexpired(sessions[t])
LiveSession(t) == sessions[t].status = "active" /\ Unexpired(sessions[t])

Init ==
    /\ now = 0
    /\ keys = [k \in Keys |-> NoKey]
    /\ sessions = [t \in Tokens |-> NoSession]
    /\ challenges = [c \in Codes |-> NoChallenge]
    /\ req = [r \in Requests |-> Idle]

-----------------------------------------------------------------------------
(* initiateAuth: delete what has expired, then store a fresh challenge. *)

CleanupExpiredChallenges(r, w) ==
    /\ Begin(r, [Idle EXCEPT !.at = "initiate.store", !.wallet = w])
    /\ challenges' =
         [c \in Codes |->
            IF /\ challenges[c].status \in {"unused", "used"}
               /\ challenges[c].expiresAt < now
            THEN [challenges[c] EXCEPT !.status = "deleted"]
            ELSE challenges[c]]
    /\ UNCHANGED <<now, keys, sessions>>

StoreChallenge(r, c) ==
    /\ req[r].at = "initiate.store"
    /\ challenges[c].status = "none"
    /\ challenges' = [challenges EXCEPT ![c] =
                        [status |-> "unused", wallet |-> req[r].wallet,
                         expiresAt |-> now + CHALLENGE_EXPIRY]]
    /\ Finish(r)
    /\ UNCHANGED <<now, keys, sessions>>

-----------------------------------------------------------------------------
(* registerKey *)

\* Slip: the isUsed condition left out of the where clause.
FindChallengeUsedToo(r, w, k, c) ==
    /\ challenges[c].status \in {"unused", "used"}
    /\ challenges[c].wallet = w
    /\ Unexpired(challenges[c])
    /\ Begin(r, [Idle EXCEPT !.at = "register.count", !.wallet = w,
                             !.key = k, !.code = c])
    /\ UNCHANGED <<now, keys, sessions, challenges>>

FindChallenge(r, w, k, c) ==
    /\ challenges[c].status = "unused"
    /\ challenges[c].wallet = w
    /\ Unexpired(challenges[c])
    /\ Begin(r, [Idle EXCEPT !.at = "register.count", !.wallet = w,
                             !.key = k, !.code = c])
    /\ UNCHANGED <<now, keys, sessions, challenges>>

\* Slip: > for >= in the comparison with the limit.
CountKeysOffByOne(r) ==
    /\ req[r].at = "register.count"
    /\ \/ /\ Cardinality(ActiveKeys(req[r].wallet)) <= MAX_KEYS_PER_WALLET
          /\ Advance(r, "register.find")
       \/ /\ Cardinality(ActiveKeys(req[r].wallet)) > MAX_KEYS_PER_WALLET
          /\ Finish(r)
    /\ UNCHANGED <<now, keys, sessions, challenges>>

CountKeys(r) ==
    /\ req[r].at = "register.count"
    /\ \/ /\ Cardinality(ActiveKeys(req[r].wallet)) < MAX_KEYS_PER_WALLET
          /\ Advance(r, "register.find")
       \/ /\ Cardinality(ActiveKeys(req[r].wallet)) >= MAX_KEYS_PER_WALLET
          /\ Finish(r)
    /\ UNCHANGED <<now, keys, sessions, challenges>>

FindPublicKey(r) ==
    /\ req[r].at = "register.find"
    /\ \/ keys[req[r].key].status = "none" /\ Advance(r, "register.insert")
       \/ keys[req[r].key].status # "none" /\ Finish(r)
    /\ UNCHANGED <<now, keys, sessions, challenges>>

(* The unique column refuses a key that another request inserted first.     *)
(* The lifetime is the client's expirationHours, of any size, or the        *)
(* default; a lifetime of 0 stands for the negative ones too.               *)
InsertKey(r) ==
    /\ req[r].at = "register.insert"
    /\ \/ /\ keys[req[r].key].status = "none"
          /\ \E lifetime \in KeyLifetimes :
                keys' = [keys EXCEPT ![req[r].key] =
                           [status |-> "active", wallet |-> req[r].wallet,
                            expiresAt |-> now + lifetime]]
          /\ Advance(r, "register.load")
       \/ /\ keys[req[r].key].status # "none"
          /\ Finish(r)
          /\ UNCHANGED keys
    /\ UNCHANGED <<now, sessions, challenges>>

(* save(challenge) with isUsed = true: an UPDATE of the column, nothing if  *)
(* it is set already, an INSERT if the row has been cleaned up meanwhile.   *)
ChallengeDirty(status) == {c \in Columns : \/ c = "status" /\ status = "unused"
                                           \/ c = "insert" /\ status = "deleted"}

LoadChallenge(r) ==
    /\ req[r].at = "register.load"
    /\ Become(r, [req[r] EXCEPT !.at = "register.write",
                     !.dirty = ChallengeDirty(challenges[req[r].code].status)])
    /\ UNCHANGED <<now, keys, sessions, challenges>>

WriteChallenge(r) ==
    /\ req[r].at = "register.write"
    /\ LET c == req[r].code
           row == challenges[c]
           hit == \/ "status" \in req[r].dirty /\ row.status # "deleted"
                  \/ "insert" \in req[r].dirty
       IN challenges' = IF hit THEN [challenges EXCEPT ![c].status = "used"]
                               ELSE challenges
    /\ Finish(r)
    /\ UNCHANGED <<now, keys, sessions>>

-----------------------------------------------------------------------------
(* authenticate *)

\* Slip: the status condition left out of the where clause.
FindActiveKeyAnyStatus(r, w, k) ==
    /\ keys[k].status # "none"
    /\ keys[k].wallet = w
    /\ Unexpired(keys[k])
    /\ Begin(r, [Idle EXCEPT !.at = "auth.sessions", !.wallet = w, !.key = k])
    /\ UNCHANGED <<now, keys, sessions, challenges>>

\* Slip: the walletAddress condition left out of the where clause.
FindActiveKeyAnyWallet(r, w, k) ==
    /\ keys[k].status = "active"
    /\ Unexpired(keys[k])
    /\ Begin(r, [Idle EXCEPT !.at = "auth.sessions", !.wallet = w, !.key = k])
    /\ UNCHANGED <<now, keys, sessions, challenges>>

FindActiveKey(r, w, k) ==
    /\ keys[k].status = "active"
    /\ keys[k].wallet = w
    /\ Unexpired(keys[k])
    /\ Begin(r, [Idle EXCEPT !.at = "auth.sessions", !.wallet = w, !.key = k])
    /\ UNCHANGED <<now, keys, sessions, challenges>>

\* Slip: slice(MAX), which leaves no room for the session about to be made.
SessionsToDeactivateOneLess(active) ==
    {active \ kept : kept \in
        {S \in SUBSET active :
            /\ Cardinality(S) = MAX_SESSIONS_PER_KEY
            /\ \A t \in S, u \in active \ S :
                  sessions[t].createdAt >= sessions[u].createdAt}}

(* sessions.slice(MAX - 1) of the active ones, newest first: all but some   *)
(* MAX - 1 that nothing left out is newer than.                             *)
SessionsToDeactivate(active) ==
    {active \ kept : kept \in
        {S \in SUBSET active :
            /\ Cardinality(S) = MAX_SESSIONS_PER_KEY - 1
            /\ \A t \in S, u \in active \ S :
                  sessions[t].createdAt >= sessions[u].createdAt}}

FindOldSessions(r) ==
    /\ req[r].at = "auth.sessions"
    /\ LET active == ActiveSessions(req[r].key)
       IN \/ /\ Cardinality(active) >= MAX_SESSIONS_PER_KEY
             /\ \E old \in SessionsToDeactivate(active) :
                   Become(r, [req[r] EXCEPT !.at = "auth.deactivate",
                                            !.victims = old])
          \/ /\ Cardinality(active) < MAX_SESSIONS_PER_KEY
             /\ Advance(r, "auth.insert")
    /\ UNCHANGED <<now, keys, sessions, challenges>>

\* Slip: the status of another table's enum.
DeactivateSessionsAsRevoked(S) ==
    sessions' = [t \in Tokens |->
                    IF t \in S /\ sessions[t].status = "active"
                    THEN [sessions[t] EXCEPT !.status = "revoked"]
                    ELSE sessions[t]]

DeactivateSessions(S) ==
    sessions' = [t \in Tokens |->
                    IF t \in S /\ sessions[t].status = "active"
                    THEN [sessions[t] EXCEPT !.status = "inactive"]
                    ELSE sessions[t]]

DeactivateOldSessions(r) ==
    /\ req[r].at = "auth.deactivate"
    /\ DeactivateSessions(req[r].victims)
    /\ Become(r, [req[r] EXCEPT !.at = "auth.insert", !.victims = {}])
    /\ UNCHANGED <<now, keys, challenges>>

InsertSession(r, t) ==
    /\ req[r].at = "auth.insert"
    /\ sessions[t].status = "none"
    /\ sessions' = [sessions EXCEPT ![t] =
                      [status |-> "active", wallet |-> req[r].wallet,
                       key |-> req[r].key, expiresAt |-> now + SESSION_EXPIRY,
                       createdAt |-> now]]
    /\ Advance(r, "auth.load")
    /\ UNCHANGED <<now, keys, challenges>>

(* save(keyRecord) after lastUsedAt was set: the entity was loaded ACTIVE. *)
LoadKey(r) ==
    /\ req[r].at = "auth.load"
    /\ LET dirty == IF keys[req[r].key].status = "active" THEN {} ELSE {"status"}
       IN Become(r, [req[r] EXCEPT !.at = "auth.write", !.dirty = dirty])
    /\ UNCHANGED <<now, keys, sessions, challenges>>

WriteKey(r) ==
    /\ req[r].at = "auth.write"
    /\ keys' = IF "status" \in req[r].dirty
               THEN [keys EXCEPT ![req[r].key].status = "active"]
               ELSE keys
    /\ Finish(r)
    /\ UNCHANGED <<now, sessions, challenges>>

-----------------------------------------------------------------------------
(* save(session) of a session entity that was loaded active: refreshToken   *)
(* and validateSession share it.                                            *)

LoadSession(r, next) ==
    /\ LET row == sessions[req[r].token]
           dirty == (IF row.status = "active" THEN {} ELSE {"status"})
                    \cup (IF row.expiresAt = req[r].expires THEN {}
                          ELSE {"expiresAt"})
       IN Become(r, [req[r] EXCEPT !.at = next, !.dirty = dirty])
    /\ UNCHANGED <<now, keys, sessions, challenges>>

WriteSession(r) ==
    LET row == sessions[req[r].token]
    IN sessions' =
         [sessions EXCEPT ![req[r].token] =
            [row EXCEPT
               !.status = IF "status" \in req[r].dirty THEN "active" ELSE @,
               !.expiresAt = IF "expiresAt" \in req[r].dirty
                             THEN req[r].expires ELSE @]]

(* refreshToken *)

FindSessionToRefresh(r, t, w) ==
    /\ LiveSession(t)
    /\ sessions[t].wallet = w
    /\ Begin(r, [Idle EXCEPT !.at = "refresh.key", !.token = t,
                             !.key = sessions[t].key])
    /\ UNCHANGED <<now, keys, sessions, challenges>>

RefreshCheckKey(r) ==
    /\ req[r].at = "refresh.key"
    /\ \/ /\ keys[req[r].key].status = "active"
          /\ Become(r, [req[r] EXCEPT !.at = "refresh.load",
                                   !.expires = now + SESSION_EXPIRY])
       \/ /\ keys[req[r].key].status # "active"
          /\ Finish(r)
    /\ UNCHANGED <<now, keys, sessions, challenges>>

RefreshLoad(r) == req[r].at = "refresh.load" /\ LoadSession(r, "refresh.write")

RefreshWrite(r) ==
    /\ req[r].at = "refresh.write"
    /\ WriteSession(r)
    /\ Finish(r)
    /\ UNCHANGED <<now, keys, challenges>>

(* validateSession, on its own or from WalletAuthGuard.canActivate *)

FindSessionToValidate(r, t, then) ==
    /\ LiveSession(t)
    /\ Begin(r, [Idle EXCEPT !.at = "validate.key", !.token = t,
                             !.key = sessions[t].key,
                             !.expires = sessions[t].expiresAt,
                             !.then = then])
    /\ UNCHANGED <<now, keys, sessions, challenges>>

ValidateCheckKey(r) ==
    /\ req[r].at = "validate.key"
    /\ \/ keys[req[r].key].status = "active" /\ Advance(r, "validate.load")
       \/ keys[req[r].key].status # "active" /\ Finish(r)
    /\ UNCHANGED <<now, keys, sessions, challenges>>

ValidateLoad(r) ==
    req[r].at = "validate.load" /\ LoadSession(r, "validate.write")

ValidateWrite(r) ==
    /\ req[r].at = "validate.write"
    /\ WriteSession(r)
    /\ \/ req[r].then = "answer" /\ Finish(r)
       \/ /\ req[r].then # "answer"
          /\ Become(r, [Idle EXCEPT !.at = req[r].then])
    /\ UNCHANGED <<now, keys, challenges>>

-----------------------------------------------------------------------------
(* revokeKeys: one key of the wallet or, without a publicKey, all of them.  *)
(* whereClause, with its status ACTIVE, selects the rows of both queries.   *)

WhereClause(w, S) == ActiveKeys(w) \cap S

RevokeActiveKeys(r, w, S) ==
    /\ req[r].at = "revoke.keys"
    /\ keys' = [k \in Keys |->
                  IF k \in WhereClause(w, S)
                  THEN [keys[k] EXCEPT !.status = "revoked"] ELSE keys[k]]
    /\ Become(r, [req[r] EXCEPT !.at = "revoke.find", !.wallet = w,
                                !.revoked = WhereClause(w, S), !.found = S])
    /\ UNCHANGED <<now, sessions, challenges>>

FindKeysOfWallet(r) ==
    /\ req[r].at = "revoke.find"
    /\ LET found == WhereClause(req[r].wallet, req[r].found)
       IN \/ /\ found # {}
             /\ Become(r, [req[r] EXCEPT !.at = "revoke.sessions", !.found = found])
          \/ found = {} /\ Finish(r)
    /\ UNCHANGED <<now, keys, sessions, challenges>>

RevokeSessionsOfKeys(r) ==
    /\ req[r].at = "revoke.sessions"
    /\ DeactivateSessions({t \in Tokens : sessions[t].key \in req[r].found})
    /\ Finish(r)
    /\ UNCHANGED <<now, keys, challenges>>

(* revokeSession *)
RevokeSession(r, t) ==
    /\ req[r].at = "revoke.session"
    /\ DeactivateSessions({t})
    /\ Finish(r)
    /\ UNCHANGED <<now, keys, challenges>>

-----------------------------------------------------------------------------
(* A query rejects or the process goes down: the request ends where it      *)
(* stands, and what it has written stays (nothing runs in a transaction).   *)
Abort(r) ==
    /\ req[r].at # "idle"
    /\ Finish(r)
    /\ UNCHANGED <<now, keys, sessions, challenges>>

Tick ==
    /\ now < MaxTime
    /\ now' = now + 1
    /\ UNCHANGED <<keys, sessions, challenges, req>>

InitiateAuth(r) ==
    \/ \E w \in Wallets : CleanupExpiredChallenges(r, w)
    \/ \E c \in Codes : StoreChallenge(r, c)

RegisterKey(r) ==
    \/ \E w \in Wallets, k \in Keys, c \in Codes : FindChallenge(r, w, k, c)
    \/ CountKeys(r) \/ FindPublicKey(r) \/ InsertKey(r)
    \/ LoadChallenge(r) \/ WriteChallenge(r)

Authenticate(r) ==
    \/ \E w \in Wallets, k \in Keys : FindActiveKey(r, w, k)
    \/ FindOldSessions(r) \/ DeactivateOldSessions(r)
    \/ \E t \in Tokens : InsertSession(r, t)
    \/ LoadKey(r) \/ WriteKey(r)

RefreshToken(r) ==
    \/ \E t \in Tokens, w \in Wallets : FindSessionToRefresh(r, t, w)
    \/ RefreshCheckKey(r) \/ RefreshLoad(r) \/ RefreshWrite(r)

ValidateSession(r) ==
    \/ \E t \in Tokens, then \in {"answer", "revoke.keys", "revoke.session"} :
          FindSessionToValidate(r, t, then)
    \/ ValidateCheckKey(r) \/ ValidateLoad(r) \/ ValidateWrite(r)

RevokeKeys(r) ==
    \/ \E w \in Wallets, S \in {Keys} \cup {{k} : k \in Keys} :
          RevokeActiveKeys(r, w, S)
    \/ FindKeysOfWallet(r) \/ RevokeSessionsOfKeys(r)

Next ==
    \/ Tick
    \/ \E r \in Requests :
          \/ InitiateAuth(r) \/ RegisterKey(r) \/ Authenticate(r)
          \/ RefreshToken(r) \/ ValidateSession(r) \/ RevokeKeys(r)
          \/ \E t \in Tokens : RevokeSession(r, t)
          \/ Abort(r)

Spec == Init /\ [][Next]_vars

-----------------------------------------------------------------------------
(* Properties. *)

TypeOK ==
    /\ now \in Nat
    /\ keys \in [Keys -> KeyRow]
    /\ sessions \in [Tokens -> SessionRow]
    /\ challenges \in [Codes -> ChallengeRow]
    /\ req \in [Requests -> RequestState]

(* Every session belongs to a registered key of the session's own wallet,   *)
(* so the pair (walletAddress, publicKey) that validateSession puts on a    *)
(* request is the pair that registerKey stored, however requests interleave *)
(* between authenticate's first query and the insert of the session.        *)
SessionKeyConsistent ==
    \A t \in Tokens : sessions[t].status # "none" =>
        /\ sessions[t].key \in Keys
        /\ keys[sessions[t].key].status # "none"
        /\ keys[sessions[t].key].wallet = sessions[t].wallet

(* The count of registerKey and its insert are two queries, and a stale     *)
(* save of authenticate can bring a revoked key back.  MAX_KEYS_PER_WALLET  *)
(* can still be exceeded only by one key per request that runs concurrently *)
(* with another; one request at a time keeps it exactly.                    *)
ActiveKeysBounded ==
    \A w \in Wallets :
        Cardinality(ActiveKeys(w)) < MAX_KEYS_PER_WALLET + Cardinality(Requests)

(* Likewise for MAX_SESSIONS_PER_KEY: cleanupOldSessions reads, deactivates *)
(* and inserts in three queries, and stale saves reactivate sessions, yet   *)
(* the excess is at most two sessions per request that runs concurrently    *)
(* with another: the one it inserts and the one it brings back.             *)
ActiveSessionsBounded ==
    \A k \in Keys :
        Cardinality(ActiveSessions(k)) <
            MAX_SESSIONS_PER_KEY + 2 * Cardinality(Requests) - 1

(* r holds an entity of key k that authenticate will save later. *)
HoldsKey(r, k) ==
    /\ req[r].key = k
    /\ req[r].at \in {"auth.sessions", "auth.deactivate", "auth.insert",
                      "auth.load", "auth.write"}

(* The inductive form of ActiveKeysBounded.  A key that is active, or that   *)
(* the save of a running authenticate may make active again, is counted     *)
(* together with the registrations that have passed the count.              *)
Candidates(w) ==
    {k \in Keys : /\ keys[k].wallet = w
                  /\ \/ keys[k].status = "active"
                     \/ /\ keys[k].status = "revoked"
                        /\ \E r \in Requests : HoldsKey(r, k)}

PastCount(w) ==
    {r \in Requests : /\ req[r].at \in {"register.find", "register.insert"}
                      /\ req[r].wallet = w}

KeysInv ==
    \A w \in Wallets :
        /\ IsFiniteSet(Candidates(w))
        /\ Cardinality(Candidates(w)) + Cardinality(PastCount(w))
              <= MAX_KEYS_PER_WALLET - 1 + Cardinality(Requests)

RevokedForGood(k) ==
    keys[k].status = "revoked" /\ \A r \in Requests : ~HoldsKey(r, k)

(* r has passed the key check of a refreshToken or validateSession, for a   *)
(* session of k.                                                            *)
Checked == {"refresh.load", "refresh.write", "validate.load", "validate.write"}
Admitted(r, k) ==
    /\ req[r].at \in Checked
    /\ req[r].token \in Tokens /\ sessions[req[r].token].key = k

(* revokeKeys is final once no authenticate that read the key before it is  *)
(* still running: nothing makes the key active again, no authenticate gets  *)
(* hold of it again, and none of its sessions, which revokeKeys leaves      *)
(* active, is admitted any more.  (While an authenticate is running, its    *)
(* save of lastUsedAt may write the old status back.)                       *)
RevocationIsFinal ==
    [][\A k \in Keys : RevokedForGood(k) =>
          /\ RevokedForGood(k)'
          /\ \A r \in Requests : Admitted(r, k)' => Admitted(r, k)]_vars

(* What "also revoke all sessions for these keys" amounts to: the rows that *)
(* revokeKeys looks for are those that its own UPDATE has just changed, so  *)
(* that it gets to the sessions only when another request has made a key    *)
(* active in between.  Alone, it never does.                                *)
SessionsRevokedInRace ==
    \A r \in Requests : req[r].at = "revoke.sessions" => Requests # {r}

HoldsSession(r, t) == req[r].token = t

DeactivatedForGood(t) ==
    sessions[t].status = "inactive" /\ \A r \in Requests : ~HoldsSession(r, t)

(* A deactivated session (by revokeSession, revokeKeys or the session       *)
(* limit) stays inactive once no refreshToken or validateSession that read  *)
(* it before is still running.                                              *)
DeactivationIsFinal ==
    [][\A t \in Tokens : DeactivatedForGood(t) => DeactivatedForGood(t)']_vars

HoldsChallenge(r, c) == req[r].code = c

Spent(c) ==
    /\ \/ challenges[c].status \in {"used", "deleted"}
       \/ challenges[c].status = "unused" /\ ~Unexpired(challenges[c])
    /\ \A r \in Requests : ~HoldsChallenge(r, c)

(* A challenge that is used, expired or cleaned up, with no registerKey     *)
(* still holding it, never admits another registration; in particular the   *)
(* re-INSERT of a cleaned-up row by the last save cannot revive it.         *)
SpentChallengeIsFinal == [][\A c \in Codes : Spent(c) => Spent(c)']_vars

(* "Also revoke all sessions for these keys" (revokeKeys): when the request *)
(* returns, no session of a key that it revoked is active.                  *)
RevokeKeysEndsSessions ==
    [][\A r \in Requests :
         (FindKeysOfWallet(r) /\ req'[r].at = "idle") \/ RevokeSessionsOfKeys(r)
         => \A t \in Tokens : sessions'[t].status = "active" =>
                sessions'[t].key \notin req[r].revoked]_vars

=============================================================================
