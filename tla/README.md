# Verification of the Q3x server

TLA+ models of the Q3x server (NestJS, TypeORM, Postgres), the TLC runs that
check them on small instances, and TLAPS proofs of the main results for every
instance. Paths below are relative to the repository; `modules/` stands for
`src/modules/`.

## 1. The system

The server is one Node process in front of Postgres. It keeps no state between
requests except in the tables. Controllers hand a request to a service, the
service works through repositories, and every repository call is one query.

| component | state (tables) | operations that change it | hard behaviour | what makes it correct |
|---|---|---|---|---|
| wallet-auth | keys, sessions, challenges | initiateAuth, registerKey, authenticate, refreshToken, validateSession (also as the guard of other routes), revokeKeys, revokeSession | limits checked and used in different queries; saves of entities that were loaded earlier; expiry | sessions belong to a registered key of their wallet; limits; revocation, deactivation and use of a challenge are final |
| transactions | transactions | sendSingle, sendBatch, consumeTransactions, recallBatch | consume races recall; batches in which items fail | settled once; recalled only when allowed; a batch settles what it can |
| gift | gift | sendGift, openGift, recallGift | find, change, save without a condition; the clock passes the recall time in between | opened once and in time, recalled in time, final |
| request-payment | request_payment | createRequest, acceptRequest, denyRequest | accept races deny; duplicates; errors swallowed half-way | one answer; accepted group requests mark their member |
| group-payment | groups, payments, member statuses | createGroup, createGroupPayment | three inserts without a transaction, the last one still validating | completed if and only if all members paid |
| address-book | address_book | createNewAddressBookEntry | two duplicate checks and an insert | names and addresses unique per category |
| analytics | sessions, events, statistics | track*, startSession, endSession, two cron jobs | counters read and written back; jobs racing requests | counters, and durations of ended sessions |
| auth (accounts), user, referral | users, tokens, referral_codes | signup, signupSandbox, emailVerification, resendVerificationEmail, forgotPassword, restorePassword, updateRole, useReferralCode | saves and an activation that are not awaited and run beside the removal of the token; entities saved long after they were loaded; a counter read and written back | an active user stays active and keeps its password; a mailed link stands; no use is counted without an activation |
| auth (sessions, second factor) | auths, columns of users | signin, the JWT guard, refresh, logout, gen-qr-code, authenticate-2fa, turn-off-2fa | a query that is not awaited; a save that inserts a deleted row again; the entity that the guard loaded is saved by the handler | logged out until the next signin; replaced tokens are dead; a second factor that is on is kept |
| mail | none | sendEmail | none | — |
| health, database, config, bootstrap | none | none | none | — |

Interactions: `recallBatch` (transactions) calls `GiftService.recallGift`; the
dashboard reads both tables. `createGroupPayment` calls
`RequestPaymentService.createGroupPaymentRequests`, and `acceptRequest` writes
the group payment's tables. `WalletAuthGuard` runs `validateSession` before the
handlers of the routes that carry it. `AuthService` writes users, tokens and
auths through `UserService`, which writes referral codes through
`ReferralCodeService`; `JwtHttpStrategy` loads the user that the handlers of auth
go on to save. `AuthModule`, `ReferralModule` and with them user and mail are
commented out in `app.module.ts`, so the server as it is configured does not serve
them: what is said of them below holds for the day when they are switched on.

### How concurrency is modelled

A handler runs alone between two `await`s, and nearly every `await` is a query.
So a request is a small process that takes one step per query, `req[r].at` (or
`call[c].at`) says which query is next, the record holds the locals that later
steps use, and requests interleave at every step. Guards and early returns that
need no query belong to the step before them.

* No service opens a database transaction. Each query commits alone.
* `repository.save(entity)` / `entity.save()` of a row that was loaded earlier is
  two queries: TypeORM SELECTs the row, compares it with the entity column by
  column, and UPDATEs the columns that differ (or INSERTs, if the row is gone).
  The models keep the SELECT (`Load...`, `CompareGift`) and the UPDATE
  (`Write...`) as separate steps, with the set of dirty columns in between. Where
  the save only sets columns that nobody sets otherwise (the member and payment
  rows of `Payments`) the SELECT makes no difference and is left out.
* `Abort`: a query rejects or the process goes down. The request ends, what it
  has committed stays. Nothing else is persisted, so a restart is an `Abort` of
  every request. Where the code catches the error of a query and goes on, that is
  an action of its own: `Notes!ItemFails`, because `recallBatch` catches what the
  checks and the queries of one item throw, writes it to the item's result
  (`rejected`) and turns to the next item, and the failing queries of the jobs in
  `Analytics`.
* Rows that do not exist yet have status `"none"`. Ids, tokens and codes that are
  random or generated in the code are picked among the unused ones.
* The clock is a counter that ticks between any two steps, up to `MaxTime`.

## 2. Modules

| module | models |
|---|---|
| `WalletAuth` | `modules/wallet-auth`: the three tables and one action per query of each handler; the guard is `ValidateSession` with `then` naming the handler it goes on to |
| `NoteLifecycle` | what the service promises of a note: issued once, settled once (`common/enums/note.ts`) |
| `GroupPaymentLifecycle` | what the service promises of a group payment: opened and listed once, asked of all members or of none, answered before paid, completed for good when all have paid. `Payments!View` reads this off the three tables |
| `Notes` | `modules/transactions` and `modules/gift`, which meet in `recallBatch` and the dashboard |
| `Payments` | `modules/request-payment` and `modules/group-payment`, which call each other |
| `AddressBook` | `modules/address-book`: the two duplicate checks and the insert of an entry |
| `Analytics` | `modules/analytics`: sessions and their counters, `updateSessionActivity`, the hourly and the nightly job |
| `Accounts` | `modules/auth` (the routes about accounts and the mailed tokens), `modules/user`, `modules/referral`: the tables users, tokens and referral_codes. `call[c].removing` is the removal of a token that runs beside a save that nobody awaits |
| `JwtSessions` | `modules/auth` (signin, the guard of `strategy/jwt.http.ts`, refresh, logout, the second factor): the table auths and two columns of users. A token is its claims and the second it was signed in, so that two signatures in one second can be the same token |
| `MCWalletAuth`, `MCNotes`, `MCPayments`, `MCAddressBook`, `MCAccounts`, `MCJwtSessions` | instances for TLC: symmetry, spellings of addresses, seeded initial states |
| `WalletAuthProofs`, `NotesProofs`, `PaymentsProofs`, `AddressBookProofs`, `AnalyticsProofs`, `AccountsProofs`, `JwtSessionsProofs` | theorems and their proofs |
| `CountingLemmas` | two lemmas about counting with several actors: rows whose number is checked in one query and raised in another, and counters read in one query and written in another |

Definitions carry the names of the code (`createMemberStatus`,
`findRecallableGifts`, `updateStatus`, `MAX_KEYS_PER_WALLET`); actions for one
query of a handler are named after the query (`CountKeys`, `FindPublicKey`,
`InsertKey`). A definition marked "Slip" is a plausible mistake in the
definition after it. No specification uses it; putting it in the place of the
right one makes one of the properties fail, which shows that the property
depends on that line of code.

Abstractions. Secrets, hashes, tokens and link codes are model values: a request
that presents the wrong one fails before it changes anything. In particular the
HMAC and bcrypt checks of wallet-auth are not modelled. Addresses are values with
an idempotent `normalizeAddress`, so that two spellings of one address can be
told apart and fall together where the code lets them; names and categories have
`sanitizeString` likewise. Amounts and tokens of a
request are one value; a share is zero (after `toFixed(6)`) or not. Device data,
usage stamps, messages, assets and answers to the client are left out.

## 3. What is checked

| run | spec, instance | shows |
|---|---|---|
| `auth_keys` | `Spec`; 2 requests, 2 wallets, 3 keys, 1 challenge, 1 token, limits 1, time 0..2 | `SessionKeyConsistent`, `ActiveKeysBounded`, `RevocationIsFinal`, `SpentChallengeIsFinal` |
| `auth_sessions` | `SeededSpec`: the key exists; 2 requests, 1 key, 5 tokens, session limit 2 | `TypeOK`, `ActiveSessionsBounded`, `DeactivationIsFinal` |
| `auth_revoke_keys` | `SeededSpec` | a counterexample to `RevokeKeysEndsSessions` |
| `notes` | `Spec`; 2 requests, 3 spellings of 2 addresses, 1 transaction, 1 gift, time 1..2 | `TypeOK`, `RecalledInTime`, `StampsInWindow`, `TxSpec`, `OpenedUntilRecallTime`, `SettledGiftIsFinal`, `RecallableUntilSettled` |
| `notes_live` | `SentLiveSpec`: alice has sent a transaction, which can be recalled now, later or never, and a gift; the same without the second spelling | `BatchSettles` |
| `notes_opened_once` | `Spec` | a counterexample to `GiftOpenedOnce` |
| `payments` | `AliceSpec`: only alice asks; 2 calls, 4 spellings of 3 addresses, 1 group with 2 slots, 1 payment, 3 requests | `TypeOK`, `DuplicatesBounded`, `AskedTogether`, `GroupSpec` |
| `payments_answers` | `AnswersSpec`: a group payment of 3 members has been created; 3 calls | `CompletedIsPaid`, `AcceptedInProgress`, `AnswerIsFinal`, `AcceptedCompletes` |
| `address_book` | `Spec`; 2 requests, 4 spellings of 3 addresses, 3 spellings of 2 names, 1 category, 3 entries | `TypeOK`, `EntriesBounded`, `TakenIsFinal` |
| `analytics` | `LiveSpec`; 2 requests, 1 hourly and 1 nightly run, 1 session, 2 users, 2 rows, time 0..1 | `TypeOK`, `CountersBounded`, `SettledDuration`, `OwnerIsFinal`, `OldSessionsEnd` |
| `accounts` | `Spec`; 2 calls, 1 user and the administrator, 2 passwords, 3 codes, 2 uuids, referral required, sandbox allowed | `TypeOK`, `UsesWereIssued`, `ActiveIsFinal`, `OnlyRestoreChangesPassword`, `MailedLinkStands` |
| `jwt_sessions` | `Spec`; 2 calls, 1 user, 2 secrets, 3 row ids, tokens that last 2 and 3 seconds, time 0..2 | `TypeOK`, `LoggedOutUntilSignin`, `SupersededIsFinal`, `SecondFactorKept` |

Why the bounds are enough. Every race in this code is between one request that
checks and one that writes in between, so two requests show it; the last-payer
race of group payments has three calls so that the last two can be watched by a
third. A limit of 1 (keys) or 2 (sessions, where the oldest of several has to be
picked) is reached and exceeded. One transaction and one gift are enough because
no step relates two rows of the same kind, except a batch, which has both kinds
of items here. That one item fails and the other is settled takes no more (a batch is
a set of items; one that names an item twice is left out). A group has two members
besides its owner, so that some of them can have been asked, answered or paid and
others not; two of the four spellings are one address. Two values of the clock suffice
for "before" and "at or after" every time compared with it, but in `auth_keys`: an
expired challenge is deleted in the second after its last, so that a registration that
found it at time 0 or 1 saves a row that a cleanup at time 2 has deleted. In `analytics`, whose `MaxAge` is 0, a session started
before the tick is old after it. Its second row of a session is the one whose
update can be lost. `accounts` has one user because no step of a call relates two
users but two: the uniqueness of `referred_by_id`, and the referrer whose code is
counted, who is the administrator here. A referrer who was referred itself, and
servers that require no referral, are covered by the proofs. Three codes are the
administrator's and those of two activations of the user that race.
`CHECK_DEADLOCK FALSE` in the payment, address book and account
runs: when all ids are taken a call has nowhere to insert, which is the bound's
doing.

`SeededInit`, `AnswersSpec` and `SentLiveSpec` start in states that the specification reaches
when the handlers run one after the other, to leave the state space to what
follows. `AliceSpec` is `Spec` with one address that creates groups, payments and
requests, and all that answer. What is proved is proved of `Spec`, from the empty
tables and with everybody asking everybody.

Exact limits do not hold, and the properties say by how much they fail.
`ActiveKeysBounded`: a wallet has fewer than `MAX_KEYS_PER_WALLET` + the number
of concurrent requests keys, so that without concurrency the limit is exact.
`ActiveSessionsBounded`: at most two extra sessions per further concurrent
request, one that it inserts and one that it brings back. `CountersBounded`: updates get lost, so that a
counter may be too low but is never too high. `DuplicatesBounded`: at most one equal pending
request per concurrent call; `EntriesBounded` says the same of the entries of one
name and of those of one address. Finality is stated in the form that holds: once no
request in flight has read the row in its earlier state. While one has, a stale
save can bring a revoked key or a deactivated session back, and open a gift
again: the properties about finality exclude these races by what they presuppose, and
say nothing about them. The hourly job likewise may write its duration over the final one of a
session that it has listed before the session ended, and two first requests of an
anonymous session may both set its owner.

For accounts the stale entities are those of `updateRole`, of the 2FA routes, of a
repeated signup and of the two saves that are not awaited; `Verified` and
`PasswordKept` say that no call holds one. `UsesWereIssued` bounds the counters by
the codes that activations have issued: `activate` issues a code before it counts
a use, counts that race can be lost, and one user activated twice at the same time
(the mailed link and the sandbox route) issues two codes and counts twice.
`LoggedOutUntilSignin` and `SupersededIsFinal` hold once no call of the old session
is under way. Until then a refresh that races a logout puts the deleted row
back, because `save()` inserts what it no longer finds (`ReinsertAuth`).
`AskedTogether` is what the three inserts of `createGroupPayment` do keep: a failure
half-way leaves a payment that asks nobody, never one that asks some.

Fairness. `Notes!Answered` and `AnswersSpec` have weak fairness of `Advance` for each
request, and no `Abort`: Postgres answers every query, and the event loop runs
every promise that is settled. Nothing is assumed about clients or the clock.
In `Notes!Answered` the answer may be an error for any item of a batch, and
`BatchSettles` says that every other item is settled all the same: an item is left
unsettled only if a query of its own was rejected, which its result then says.
`AnswersSpec` has no failing query: the errors of the member update are swallowed,
and an accepted request whose member update failed is never retried.
`Analytics!LiveSpec` does allow `Abort` and failing queries, because the job returns
every midnight and starts over: it has strong fairness of the queries of a nightly
run, each of which fails at times, but not at every attempt for ever. Nothing is
assumed about clients, the hourly job or the requests beside it.

### Disagreements between code and comments

* `wallet-auth.service.ts:405` "Also revoke all sessions for these keys": the find
  after the update repeats its condition `status: ACTIVE` and finds none of the
  keys just revoked. Their sessions stay active (`auth_revoke_keys`).
  `validateSession` checks the key as well and refuses them; the session list and
  the session limit still count them.
* `gift.service.ts:135` "Check if gift is already opened": two opens that both read
  the gift as pending both succeed (`notes_opened_once`).

Seen while modelling, with no run of their own:

* `transaction.service.ts:73` "Fetch recallable and waiting gifts":
  `findRecallableGifts` has already dropped the waiting ones, so `waitingGifts` is
  always empty and a pending gift is on the dashboard only once it can be recalled
  (step <1>4 of `ListedCanBeRecalled`).
* `group-payment.service.ts:185` "Create pending request payments for each
  member": refused after the payment is stored, if the share was rounded to zero
  or members coincide once normalised. The payment then asks nobody and never
  completes.
* `.env.example:43` sets `REFERRAL_CODE_MAXIMUM_USAGE=2`, but
  `1752488386249-transaction-migrations.ts:37` makes `referred_by_id` unique (the
  entity declares a one-to-one relation): the second user of a code is refused by
  the database (`Unique`), whatever the maximum.
* `user_id` is unique in tokens and `sendEmailWithMailType` looks for a token of its
  own type only. A verification mail that is resent while the user is being
  activated leaves an EMAIL token with an active user; from then on every
  `forgotPassword` of that user fails at its insert.
* A code without an owner, left by an activation that
  failed after it had created the code (`CreateCode`), lets a signup pass with `referredBy` null; the activation
  of such a user throws at `userEntity.referredBy.id`, beside a token that is removed.
* `POST /auth/refresh` is behind the JWT guard: a session can be refreshed only while
  its access token is valid.
* `auth.service.ts:76` hands the user's `isTwoFactorAuthEnabled` to `auth` as the claim
  that the second factor has been passed. The token of a signin with the password alone
  then carries the claim, and `JwtHttpStrategy` asks no code of it. `JwtSessions` has
  this as it is written (`Signin`).

## 4. What is proved

All theorems but one are about `Spec` (`AcceptedAreCarriedThrough` is about
`Payments!ServedSpec`, in which no query fails) with arbitrary constants, from the
assumptions named in the modules: limits are positive, `None` is no other value,
`normalizeAddress` is an idempotent function, a nightly run is no client's call, and
the requests are finitely many, as are the sessions, transactions and gifts of the
two modules that count what a job or a batch has left.

The refinements, the measures and the bounds are the results to start with:

| theorem | says, for every instance |
|---|---|
| `TransactionsSettleOnce` | transactions implement `NoteLifecycle` |
| `TablesKeepThePromise` | group payments implement `GroupPaymentLifecycle`; `PromiseHolds` is what follows for the tables |
| `ListedCanBeRecalled`, `BatchesShrink` | a batch keeps what it can recall until it is settled or a query of that very item is rejected, and comes to an end: the safety half of `BatchSettles` |
| `AcceptedAreCarriedThrough` | a payment that all have accepted is in the hands of a call that goes on to complete it: the safety half of `AcceptedCompletes` |
| `OldOnesWait`, `NightlyRunsShrink` | an old session waits for the next night, and a night's run comes to an end: the safety half of `OldSessionsEnd` |
| `ActiveKeysStayBounded`, `ActiveSessionsStayBounded`, `DuplicatesStayBounded`, `GroupNamesStayBounded`, `EntriesStayBounded`, `CountersStayBounded`, `UsesAreIssued` | by how much races exceed what the checks limit |
| `AloneRevokesNoSession` | `revokeKeys` reaches the update that ends sessions only in a race |

What the safety halves lack is the step that only fairness gives: that a query which
can be made is made.

* `WalletAuthProofs`: `TypeCorrect`, `SessionKeyAlwaysConsistent`,
  `RevokedKeysStayRevoked`, `DeactivatedSessionsStayInactive`,
  `SpentChallengesStaySpent`, `ActiveKeysStayBounded`, `ActiveSessionsStayBounded`,
  `AloneRevokesNoSession`. `SessionKeyConsistent` is not inductive alone: a
  request between the find of the key and the insert of the session must still
  hold a registered key of its wallet, which is so because rows of keys never
  change their wallet and never disappear. Finality is an argument per action: the
  only steps that write `active` are those of requests that hold the row, and
  the finds that take hold of a row skip the settled ones. For challenges the
  clock enters too, since an expired row stays expired.
  `RevocationIsFinal` speaks of sessions as well: once a revoked key is held by no
  authenticate, no session of it gets past the check of the key any more
  (`Admitted`), neither in a refresh nor in a validation. It needs that a session in
  hand keeps its key (`SessionsKeyHeld`).
  `AloneRevokesNoSession` is the reason why `RevokeKeysEndsSessions` fails: the find of
  `wallet-auth.service.ts:406` repeats the condition that the update of line 401 has
  just made false, so it returns a key only if another request made one active
  between the two queries; a request on its own never gets to line 410. The bound
  on keys is a count (`KeysInv`): keys that are active, keys that the save of a running
  authenticate may make active again, and registrations past the count, together.
  A pass of the count is the step to look at: each request is either an
  authenticate or a registration, so that what may still be added to the keys just
  counted is at most one per request.
  The bound on sessions (`SessionsInv`) needs the order in which the requests have
  listed the sessions: what a request is going to leave counts the requests that
  listed before it and have not deactivated yet (`CountingLemmas!Removing`), because each
  of them still adds a session while removing, perhaps, nothing that is left. The
  order is in no variable; the invariant says that there is one.
* `NotesProofs`: `TypeCorrect`, `NothingRecalledEarly`, `StampsStayInWindow`,
  `TransactionsSettleOnce` (refinement of `NoteLifecycle`),
  `OpenedStaysUntilRecallTime`, `SettledGiftsStay`, `ListedCanBeRecalled`,
  `BatchesShrink`. The
  inductive invariant `Notes!IInv` adds what a request carries between its check
  and its write: `GiftInHand` (the stamp it has taken is on the right side of the
  recall time) and `TxsInHand` (the transaction in hand is recallable and due),
  which stay true because the clock only advances and recall times never change.
  `ListedCanBeRecalled` and `BatchesShrink` add `BatchesInHand`: a request with items
  left is at one of them, and its save of a gift that is still pending writes the
  status. An item that is refused or whose query is rejected takes itself off the batch
  and no other (`Without`, `WithError`). The measure is `StepsLeft`, four queries for
  each item and those that end the request; a batch never turns to an item twice, so
  that no race and no failure makes it longer.
* `PaymentsProofs`: `TypeCorrect`, `CompletedIsAlwaysPaid`, `PaidIsAlwaysAnswered`,
  `AnswersStay`, `DuplicatesStayBounded`, `GroupNamesStayBounded`,
  `MembersAreAskedTogether`, `TablesKeepThePromise`, `PromiseHolds`,
  `AcceptedAreCarriedThrough`. The inductive invariant `Payments!IInv` adds `OwnPayment` (a payment
  under construction is known to its own call only, so that nobody is paid or
  completed while the member rows are still being inserted), `AnswerInHand` and
  `MemberInHand` (what a call has read of its request and member row stays so) and
  `Referenced` (no dangling payment ids); `DuplicatesInv` counts the equal pending
  requests and the calls past the check together. For `AskedTogether` the invariant
  `AskedInv` adds `RowsInHand`: the member rows of a payment are those of the list
  that its call is about to ask, which nobody else writes because of `OwnPayment`.
  The refinement maps a payment to its `View`: status and owner, the members of its
  rows, those asked, those who have answered and those marked as paid. Each query is
  one abstract step or none: the three inserts are `Open`, `List` and `Ask`, the update
  of a request is `Answer`, the save of a member row `Pay`, the save of the payment
  `Complete`. What the proof needs besides (`ViewInv`) is that a payment that is not
  there has no rows, and that the call which makes one writes its rows once and for
  its owner. `PromiseHolds` is an invariant of the abstract module, carried over.
  `AcceptedAreCarriedThrough` is the argument about the last payers, `ProgressInv`: the
  row of an accepted request is paid or some call is on its way to it (`Carried`), and
  once all rows are paid, some call is about to read them all, or has (`Closing`). The
  save that makes the last row paid is made by a call that reads all rows next, and
  rows stay paid, so that no order of the calls leaves the payment behind. A query
  that fails does, hence `ServedSpec`.
* `AccountsProofs`: `TypeCorrect`, `ActiveStays`, `PasswordsStay`, `MailedLinksStand`,
  `UsesAreIssued`. The inductive invariant `Accounts!IInv` says what goes with the kind
  of a call (`Sound`), that a call which holds a recent token is about to use it up
  (`TokenInHand`), and `CountsInv`: each counter, and each value that a call is about
  to write to it, leaves room below the number of issued codes for all the calls
  that have issued one and not yet counted. An activation adds a code and a call to
  count; a read turns the call into a pending value; a write that overtakes
  another one only throws the counter back.
* `JwtSessionsProofs`: `TypeCorrect`, `LoggedOutStays`, `SupersededStays`,
  `SecondFactorStays`. Besides `TypeOK` the invariant has only `Sound` (what a call is
  doing goes with its handler). The rest is an argument per action: a call can take
  hold of a token, a row or a user only as it is stored, and stores only what
  it holds or has just signed.
* `AddressBookProofs`: `TypeCorrect`, `EntriesStayBounded`, `TakenStays`. The invariant counts entries and requests past the check together;
  the check admits a request only where the count of entries is zero, an insert
  turns one request into one entry, and everything else only lowers the sum.
* `AnalyticsProofs`: `TypeCorrect`, `CountersStayBounded`, `SettledStays`,
  `OwnerStays`, `OldOnesWait`, `NightlyRunsShrink`. `CountersBounded` is not inductive alone. A call that has stored its row
  and not yet read the counter has a place to come in it; the invariant (`NoneAhead`)
  says that the counter, and any value that a running call is about to write, leave
  room for all of these calls below the number of rows. A read turns one place into
  a pending value; a write may throw the counter back, to a value that has
  left the same room. `LocalsInv` says that what a call has computed from a row
  (the duration, the start) is still right, since `startTime` never changes.
  `RunsInv` says that all a nightly run holds is old, which stays so for the same
  reason, and that it has something left while it goes on; `QueriesLeft` is its measure.
* `CountingLemmas!Counting` is the argument behind the bounds on keys, requests and
  entries, stated once about sets; `CountingLemmas!ReadThenWrite` is the one about
  counters, and the lemmas about `Removing` are the one about sessions.

Only model-checked: liveness (`BatchSettles`, `AcceptedCompletes`,
`OldSessionsEnd`), which is out of the prover's reach beyond the safety halves above.
Every safety invariant, action property and refinement of the passing runs is proved.
Proved and in no run's cfg: `PaidWasAnswered` (the refinement says more),
`GroupNamesBounded` (three groups are too many states beside the payments),
`SessionsRevokedInRace` (about instances with a single request), `BatchShrinks`,
`OldUntilEnded` and `NightlyRunsEnd` (steps towards the liveness properties that
are run).

## 5. Not modelled, and the plan

1. The arithmetic of shares (`toFixed(6)`, tolerance) over integers of a millionth,
   against a reference definition.
2. The lists of the dashboard as one record with `nextRecallTime`, and that nothing
   listed as waiting falls due before it.
3. Two users in one instance of `Accounts`, with the concurrency reduced.

Left out for good: read-only getters that relate no two tables, report building
in analytics, mail, health, migrations and configuration.

## 6. Running it

    tlc -workers 2 -config MCNotes.cfg MCNotes
    tlapm NotesProofs.tla
