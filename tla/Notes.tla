------------------------------- MODULE Notes --------------------------------
(***************************************************************************)
(* Transactions (src/modules/transactions) and gifts (src/modules/gift):   *)
(* notes that are sent, consumed or opened, and recalled.  The two tables  *)
(* meet in recallBatch, which works through items of both kinds, and in    *)
(* the recall dashboard.                                                   *)
(*                                                                         *)
(* A request advances by one query at a time.  Transactions are settled by *)
(* one conditional UPDATE (... WHERE status = 'pending').  Gifts go        *)
(* through updateOne, which reads the row, changes it in memory and saves  *)
(* it: the save compares the entity with a second SELECT and writes the    *)
(* columns that differ, whatever the row has become meanwhile.             *)
(***************************************************************************)
EXTENDS Naturals, FiniteSets

CONSTANTS
    Requests,
    Addresses,          \* wallet addresses as clients spell them
    normalizeAddress,   \* the spelling that is stored, of each address
    Txs,                \* ids of transactions
    Gifts,              \* ids of gifts, each with one secret
    None,
    GiftRecallableAfter,
    MaxTime             \* bound of the model: the clock stops there

ASSUME NormalizeAssumption ==
    /\ normalizeAddress \in [Addresses -> Addresses]
    /\ \A a \in Addresses :
          normalizeAddress[normalizeAddress[a]] = normalizeAddress[a]

ASSUME NotesAssumption ==
    /\ None \notin Addresses \cup Txs \cup Gifts
    /\ Txs \cap Gifts = {}
    /\ GiftRecallableAfter \in Nat \ {0}
    /\ MaxTime \in Nat

ASSUME FiniteAssumption == IsFiniteSet(Txs) /\ IsFiniteSet(Gifts)

VARIABLES
    now,        \* the clock; it starts at 1, and 0 stands for a null column
    txs,        \* table transactions
    gifts,      \* table gifts
    req         \* the requests in flight

vars == <<now, txs, gifts, req>>

-----------------------------------------------------------------------------
Null == 0
Status == {"none", "pending", "recalled", "consumed"}

TxRow == [status: Status, sender: Addresses \cup {None},
          recipient: Addresses \cup {None},
          recallable: BOOLEAN, recallableTime: Nat]

GiftColumns == [status: Status, openedAt: Nat, recalledAt: Nat]
GiftRow == [status: Status, openedAt: Nat, recalledAt: Nat,
            sender: Addresses \cup {None}, recallableTime: Nat]

NoTx == [status |-> "none", sender |-> None, recipient |-> None,
         recallable |-> FALSE, recallableTime |-> Null]
NoGift == [status |-> "none", openedAt |-> Null, recalledAt |-> Null,
           sender |-> None, recallableTime |-> Null]
NoEntity == [status |-> "none", openedAt |-> Null, recalledAt |-> Null]

Steps == {"idle", "consume.update", "batch", "recall.update",
          "gift.load", "gift.compare", "gift.write"}
GiftSteps == {"gift.load", "gift.compare", "gift.write"}

RequestState ==
    [at: Steps,
     wallet: Addresses \cup {None},   \* req.walletAuth.walletAddress
     ids: SUBSET Txs,                 \* transactions of this update
     todo: SUBSET (Txs \cup Gifts),   \* items recallBatch has left
     gift: Gifts \cup {None},
     outcome: {"recalled", "consumed"},   \* status updateOne will set
     stamp: Nat,                          \* openedAt or recalledAt it will set
     entity: GiftColumns,                 \* the entity in memory
     dirty: SUBSET {"status", "openedAt", "recalledAt"},
     rejected: SUBSET (Txs \cup Gifts)]  \* items whose result is a query's error

Idle == [at |-> "idle", wallet |-> None, ids |-> {}, todo |-> {}, gift |-> None,
         outcome |-> "consumed", stamp |-> 0, entity |-> NoEntity, dirty |-> {},
         rejected |-> {}]

Become(r, st) == req' = [req EXCEPT ![r] = st]
Finish(r) == Become(r, Idle)

PassedBy(time, clock) == time = Null \/ time <= clock
Passed(time) == PassedBy(time, now)

Init ==
    /\ now = 1
    /\ txs = [t \in Txs |-> NoTx]
    /\ gifts = [g \in Gifts |-> NoGift]
    /\ req = [r \in Requests |-> Idle]

-----------------------------------------------------------------------------
(* sendSingle and sendBatch: every dto is validated first, then what is     *)
(* stored is stored by one save, all of it or nothing.  The validation      *)
(* queries nothing, so a send is one step here.                             *)

Dtos == [recipient: Addresses, private: BOOLEAN, recallable: BOOLEAN,
         recallableTime: {Null} \cup 1..MaxTime]

(* Public transactions that are not recallable are not stored. *)
Stored(dto) == dto.private \/ dto.recallable

ValidTransaction(a, dto) ==
    /\ normalizeAddress[a] # normalizeAddress[dto.recipient]
    /\ dto.recallable /\ dto.recallableTime # Null => dto.recallableTime > now

SendBatch(a, batch) ==
    /\ \A t \in DOMAIN batch :
          txs[t].status = "none" /\ ValidTransaction(a, batch[t])
    /\ txs' = [t \in Txs |->
                 IF t \in DOMAIN batch /\ Stored(batch[t])
                 THEN [status |-> "pending", sender |-> normalizeAddress[a],
                       recipient |-> normalizeAddress[batch[t].recipient],
                       recallable |-> batch[t].recallable,
                       recallableTime |-> batch[t].recallableTime]
                 ELSE txs[t]]
    /\ UNCHANGED <<now, gifts, req>>

-----------------------------------------------------------------------------
(* consumeTransactions: a find, the checks on what it found, an UPDATE of   *)
(* those of the ids that are still pending.                                 *)

ConsumeFind(r, a, ids) ==
    /\ req[r].at = "idle"
    /\ \A t \in ids : txs[t].status = "pending" /\ txs[t].sender = a
    /\ Become(r, [Idle EXCEPT !.at = "consume.update", !.wallet = a, !.ids = ids])
    /\ UNCHANGED <<now, txs, gifts>>

(* Slip: UPDATE ... WHERE id IN (...), without the status *)
UpdateAnyStatus(ids, outcome) ==
    txs' = [t \in Txs |-> IF t \in ids THEN [txs[t] EXCEPT !.status = outcome]
                          ELSE txs[t]]

UpdatePending(ids, outcome) ==
    txs' = [t \in Txs |-> IF t \in ids /\ txs[t].status = "pending"
                          THEN [txs[t] EXCEPT !.status = outcome] ELSE txs[t]]

ConsumeUpdate(r) ==
    /\ req[r].at = "consume.update"
    /\ UpdatePending(req[r].ids, "consumed")
    /\ Finish(r)
    /\ UNCHANGED <<now, gifts>>

-----------------------------------------------------------------------------
(* recallBatch: the items one after the other, each with a result of its    *)
(* own; an item that fails does not stop the others, whether the checks     *)
(* refuse it or one of its queries rejects.  The items are a set here: that *)
(* a batch names an item twice is left out.                                 *)

RecallBatch(r, a, items) ==
    /\ req[r].at = "idle"
    /\ Become(r, [Idle EXCEPT !.at = "batch", !.wallet = a, !.todo = items])
    /\ UNCHANGED <<now, txs, gifts>>

(* The request with item i done, on its way to the next one. *)
Without(r, i) == [Idle EXCEPT !.at = "batch", !.wallet = req[r].wallet,
                              !.todo = req[r].todo \ {i},
                              !.rejected = req[r].rejected]

(* The same, with an error as the result of i. *)
WithError(r, i) == [Without(r, i) EXCEPT !.rejected = req[r].rejected \cup {i}]

(* Slip: the catch is around the loop, and not around each item *)
ItemFailsBatch(r, i) ==
    /\ i \in req[r].todo
    /\ req[r].at \in {"batch", "recall.update"} \cup GiftSteps
    /\ Become(r, [WithError(r, i) EXCEPT !.todo = {}])
    /\ UNCHANGED <<now, txs, gifts>>

(* A query of item i rejects, and has changed nothing: the catch around the *)
(* item writes the error to its result.                                     *)
ItemFails(r, i) ==
    /\ i \in req[r].todo
    /\ \/ req[r].at = "batch"
       \/ req[r].at = "recall.update" /\ i \in req[r].ids
       \/ req[r].at \in GiftSteps /\ i = req[r].gift
    /\ Become(r, WithError(r, i))
    /\ UNCHANGED <<now, txs, gifts>>

BatchDone(r) ==
    /\ req[r].at = "batch"
    /\ req[r].todo = {}
    /\ Finish(r)
    /\ UNCHANGED <<now, txs, gifts>>

(* Slip: the recall time is not looked at *)
CanRecallAnyTime(a, t) ==
    txs[t].status = "pending" /\ txs[t].sender = a /\ txs[t].recallable

(* recallTransactions of one id: the find and the checks *)
CanRecall(a, t) ==
    /\ txs[t].status = "pending"
    /\ txs[t].sender = a
    /\ txs[t].recallable
    /\ Passed(txs[t].recallableTime)

RecallFind(r, t) ==
    /\ req[r].at = "batch"
    /\ t \in req[r].todo
    /\ \/ /\ CanRecall(req[r].wallet, t)
          /\ Become(r, [req[r] EXCEPT !.at = "recall.update", !.ids = {t}])
       \/ /\ ~CanRecall(req[r].wallet, t)
          /\ Become(r, Without(r, t))
    /\ UNCHANGED <<now, txs, gifts>>

RecallUpdate(r, t) ==
    /\ req[r].at = "recall.update"
    /\ req[r].ids = {t}
    /\ UpdatePending({t}, "recalled")
    /\ Become(r, Without(r, t))
    /\ UNCHANGED <<now, gifts>>

-----------------------------------------------------------------------------
(* Gifts *)

SendGift(g, a) ==
    /\ gifts[g].status = "none"
    /\ gifts' = [gifts EXCEPT ![g] =
                   [status |-> "pending", openedAt |-> Null, recalledAt |-> Null,
                    sender |-> normalizeAddress[a],
                    recallableTime |-> now + GiftRecallableAfter]]
    /\ UNCHANGED <<now, txs, req>>

(* Slip: a recall sets a status that is no member of the enum *)
UpdateOneExpired(r, st, g, outcome) ==
    Become(r, [st EXCEPT !.at = "gift.load", !.gift = g, !.stamp = now,
                  !.outcome = IF outcome = "recalled" THEN "expired" ELSE outcome])

(* Enters updateOne with the dto { status, openedAt or recalledAt: now }. *)
UpdateOne(r, st, g, outcome) ==
    Become(r, [st EXCEPT !.at = "gift.load", !.gift = g, !.outcome = outcome,
                         !.stamp = now])

(* Slip: a gift that was opened can be opened again *)
OpenGiftAgain(r, g) ==
    /\ req[r].at = "idle"
    /\ gifts[g].status \in {"pending", "consumed"}
    /\ \/ Passed(gifts[g].recallableTime) /\ UpdateOne(r, Idle, g, "recalled")
       \/ ~Passed(gifts[g].recallableTime) /\ UpdateOne(r, Idle, g, "consumed")
    /\ UNCHANGED <<now, txs, gifts>>

(* openGift: one that is settled is refused; one whose recall time has      *)
(* passed is recalled, and then refused as expired.                         *)
OpenGift(r, g) ==
    /\ req[r].at = "idle"
    /\ gifts[g].status = "pending"
    /\ \/ Passed(gifts[g].recallableTime) /\ UpdateOne(r, Idle, g, "recalled")
       \/ ~Passed(gifts[g].recallableTime) /\ UpdateOne(r, Idle, g, "consumed")
    /\ UNCHANGED <<now, txs, gifts>>

(* Slip: a gift is recalled before its time *)
RecallGiftEarly(r, g) ==
    /\ req[r].at = "batch"
    /\ g \in req[r].todo
    /\ \/ /\ gifts[g].status = "pending"
          /\ UpdateOne(r, req[r], g, "recalled")
       \/ /\ gifts[g].status # "pending"
          /\ Become(r, Without(r, g))
    /\ UNCHANGED <<now, txs, gifts>>

(* recallGift, as an item of recallBatch *)
RecallGift(r, g) ==
    /\ req[r].at = "batch"
    /\ g \in req[r].todo
    /\ \/ /\ gifts[g].status = "pending" /\ Passed(gifts[g].recallableTime)
          /\ UpdateOne(r, req[r], g, "recalled")
       \/ /\ ~(gifts[g].status = "pending" /\ Passed(gifts[g].recallableTime))
          /\ Become(r, Without(r, g))
    /\ UNCHANGED <<now, txs, gifts>>

(* Slip: the stamp is taken when the row is loaded, not when it is checked *)
LoadGiftStampLate(r) ==
    /\ req[r].at = "gift.load"
    /\ LET row == gifts[req[r].gift]
           opens == req[r].outcome = "consumed"
       IN Become(r, [req[r] EXCEPT
              !.at = "gift.compare",
              !.entity = [status |-> req[r].outcome,
                          openedAt |-> IF opens THEN now ELSE row.openedAt,
                          recalledAt |-> IF opens THEN row.recalledAt ELSE now]])
    /\ UNCHANGED <<now, txs, gifts>>

(* findOneBy, then Object.assign(giftEntity, dto) *)
LoadGift(r) ==
    /\ req[r].at = "gift.load"
    /\ LET row == gifts[req[r].gift]
           opens == req[r].outcome = "consumed"
       IN Become(r, [req[r] EXCEPT
              !.at = "gift.compare",
              !.entity = [status |-> req[r].outcome,
                          openedAt |-> IF opens THEN req[r].stamp ELSE row.openedAt,
                          recalledAt |-> IF opens THEN row.recalledAt
                                                  ELSE req[r].stamp]])
    /\ UNCHANGED <<now, txs, gifts>>

(* save: the SELECT that the entity is compared with, column by column *)
CompareGift(r) ==
    /\ req[r].at = "gift.compare"
    /\ LET row == gifts[req[r].gift]
           e == req[r].entity
       IN Become(r, [req[r] EXCEPT
              !.at = "gift.write",
              !.dirty = {c \in {"status", "openedAt", "recalledAt"} :
                            \/ c = "status" /\ row.status # e.status
                            \/ c = "openedAt" /\ row.openedAt # e.openedAt
                            \/ c = "recalledAt" /\ row.recalledAt # e.recalledAt}])
    /\ UNCHANGED <<now, txs, gifts>>

(* save: the UPDATE of the columns that differed *)
Overwrite(row, e, dirty) ==
    [row EXCEPT !.status = IF "status" \in dirty THEN e.status ELSE @,
                !.openedAt = IF "openedAt" \in dirty THEN e.openedAt ELSE @,
                !.recalledAt = IF "recalledAt" \in dirty THEN e.recalledAt ELSE @]

WriteGift(r) ==
    /\ req[r].at = "gift.write"
    /\ gifts' = [gifts EXCEPT ![req[r].gift] =
                   Overwrite(@, req[r].entity, req[r].dirty)]
    /\ \/ req[r].gift \in req[r].todo /\ Become(r, Without(r, req[r].gift))
       \/ req[r].gift \notin req[r].todo /\ Finish(r)
    /\ UNCHANGED <<now, txs>>

-----------------------------------------------------------------------------
(* The read-only views.  What they list is read in one query per table;     *)
(* here as a state function.                                                *)

(* Slip: all recallable transactions are listed, waiting ones too *)
RecallableTxsWaitingToo(a) ==
    {t \in Txs : /\ txs[t].status = "pending" /\ txs[t].sender = normalizeAddress[a]
                 /\ txs[t].recallable}

RecallableTxs(a) ==
    {t \in Txs : /\ txs[t].status = "pending" /\ txs[t].sender = normalizeAddress[a]
                 /\ txs[t].recallable /\ Passed(txs[t].recallableTime)}

WaitingTxs(a) ==
    {t \in Txs : /\ txs[t].status = "pending" /\ txs[t].sender = normalizeAddress[a]
                 /\ txs[t].recallable /\ ~Passed(txs[t].recallableTime)}

findRecallableGifts(a) ==
    {g \in Gifts : /\ gifts[g].status = "pending"
                   /\ gifts[g].sender = normalizeAddress[a]
                   /\ Passed(gifts[g].recallableTime)}

RecallableGifts(a) == {g \in findRecallableGifts(a) : Passed(gifts[g].recallableTime)}
WaitingGifts(a) == {g \in findRecallableGifts(a) : ~Passed(gifts[g].recallableTime)}

recallableItems(a) == RecallableTxs(a) \cup RecallableGifts(a)
waitingToRecallItems(a) == WaitingTxs(a) \cup WaitingGifts(a)

-----------------------------------------------------------------------------
(* The process goes down, or a query rejects that no item of a recallBatch  *)
(* makes: the request ends with what it has committed.                      *)
Abort(r) ==
    /\ req[r].at # "idle"
    /\ Finish(r)
    /\ UNCHANGED <<now, txs, gifts>>

Tick ==
    /\ now < MaxTime
    /\ now' = now + 1
    /\ UNCHANGED <<txs, gifts, req>>

Batches == UNION {[S -> Dtos] : S \in SUBSET Txs \ {{}}}

Send ==
    \/ \E a \in Addresses, batch \in Batches : SendBatch(a, batch)
    \/ \E a \in Addresses, g \in Gifts : SendGift(g, a)

Start(r) ==
    \/ \E a \in Addresses, ids \in SUBSET Txs \ {{}} : ConsumeFind(r, a, ids)
    \/ \E a \in Addresses, items \in SUBSET (Txs \cup Gifts) \ {{}} :
          RecallBatch(r, a, items)
    \/ \E g \in Gifts : OpenGift(r, g)

Advance(r) ==
    \/ ConsumeUpdate(r)
    \/ BatchDone(r)
    \/ \E t \in Txs : RecallFind(r, t) \/ RecallUpdate(r, t)
    \/ \E g \in Gifts : RecallGift(r, g)
    \/ LoadGift(r) \/ CompareGift(r) \/ WriteGift(r)

FailItem(r) == \E i \in Txs \cup Gifts : ItemFails(r, i)

Serve == Tick \/ Send \/ \E r \in Requests : Start(r) \/ Advance(r) \/ FailItem(r)

Next == Serve \/ \E r \in Requests : Abort(r)

Spec == Init /\ [][Next]_vars

(* Every query is answered, if only with an error for an item of a batch,   *)
(* and the event loop gets round to every promise that is settled; nothing  *)
(* is assumed of the clock or of new requests.                              *)
Answered == [][Serve]_vars /\ \A r \in Requests : WF_vars(Advance(r))

LiveSpec == Init /\ Answered

-----------------------------------------------------------------------------
(* Properties. *)

TypeOK ==
    /\ now \in Nat
    /\ txs \in [Txs -> TxRow]
    /\ gifts \in [Gifts -> GiftRow]
    /\ req \in [Requests -> RequestState]

(* Transactions keep the promise of NoteLifecycle: a consume and a recall   *)
(* that race, or two of either, never settle one transaction twice.         *)
TxLifecycle == INSTANCE NoteLifecycle
                 WITH NoteIds <- Txs, status <- [t \in Txs |-> txs[t].status]
TxSpec == TxLifecycle!Spec

(* Nothing is recalled that may not be: a recalled transaction was sent     *)
(* recallable and its time has passed, and a gift's time has passed, though *)
(* the check and the write are queries apart.                               *)
RecalledInTime ==
    /\ \A t \in Txs : txs[t].status = "recalled" =>
          txs[t].recallable /\ Passed(txs[t].recallableTime)
    /\ \A g \in Gifts : gifts[g].status = "recalled" => Passed(gifts[g].recallableTime)

(* The stamps agree with the window they were checked in: opened before the *)
(* recall time, recalled at it or later, even on a gift that racing saves   *)
(* have left with both.                                                     *)
StampsInWindow ==
    \A g \in Gifts :
        /\ gifts[g].openedAt # Null => gifts[g].openedAt < gifts[g].recallableTime
        /\ gifts[g].recalledAt # Null => gifts[g].recalledAt >= gifts[g].recallableTime

(* Until its recall time an opened gift stays opened: the saves that could  *)
(* overwrite the status come only from requests that saw the time pass.     *)
OpenedUntilRecallTime ==
    [][\A g \in Gifts :
         gifts[g].status = "consumed" /\ ~Passed(gifts[g].recallableTime)
            => gifts'[g].status = "consumed"]_vars

HoldsGift(r, g) == req[r].gift = g

SettledForGood(g) ==
    /\ gifts[g].status \in {"recalled", "consumed"}
    /\ \A r \in Requests : ~HoldsGift(r, g)

(* A settled gift that no request in flight has taken on keeps its row for  *)
(* ever; only requests that saw it pending can still rewrite it.            *)
SettledGiftIsFinal ==
    [][\A g \in Gifts : SettledForGood(g) =>
          SettledForGood(g)' /\ gifts'[g] = gifts[g]]_vars

(* What keeps RecalledInTime and StampsInWindow: what a request in flight   *)
(* has checked stays true until it writes.                                  *)
GiftInHand(r) ==
    LET row == gifts[req[r].gift]
        e == req[r].entity
    IN /\ req[r].at \in GiftSteps => req[r].gift \in Gifts
       /\ req[r].at \in GiftSteps =>
             /\ row.status # "none"
             /\ req[r].outcome = "recalled" =>
                   Passed(row.recallableTime) /\ req[r].stamp >= row.recallableTime
             /\ req[r].outcome = "consumed" => req[r].stamp < row.recallableTime
       /\ req[r].at \in GiftSteps \ {"gift.load"} =>
             /\ e.status = req[r].outcome
             /\ e.openedAt # Null => e.openedAt < row.recallableTime
             /\ e.recalledAt # Null => e.recalledAt >= row.recallableTime

TxsInHand(r) ==
    req[r].at = "recall.update" =>
        \A t \in req[r].ids : /\ txs[t].status # "none"
                              /\ txs[t].recallable
                              /\ Passed(txs[t].recallableTime)

IInv ==
    /\ TypeOK
    /\ RecalledInTime
    /\ StampsInWindow
    /\ \A g \in Gifts : gifts[g].status # "none" => gifts[g].recallableTime # Null
    /\ \A r \in Requests : GiftInHand(r) /\ TxsInHand(r)

IsSettled(n) ==
    \/ n \in Txs /\ txs[n].status \in {"recalled", "consumed"}
    \/ n \in Gifts /\ gifts[n].status \in {"recalled", "consumed"}

(* An item that the batch of r has yet to recall, and can. *)
InBatch(r, n) ==
    /\ n \in req[r].todo
    /\ \/ n \in Txs /\ CanRecall(req[r].wallet, n)
       \/ n \in Gifts /\ gifts[n].status = "pending" /\ Passed(gifts[n].recallableTime)

(* What the dashboard lists as recallable to a wallet whose session spells  *)
(* its address as it is stored, recallBatch recalls for it however much     *)
(* later; and no item drops off the lists of the dashboard, as time passes  *)
(* and requests run, before somebody settles it.  A batch that goes on      *)
(* parts with an item it could recall only when somebody has settled it, or *)
(* with the error of the item's own query among the results: never because  *)
(* another item was refused or failed.                                      *)
RecallableUntilSettled ==
    [][/\ \A a \in Addresses : normalizeAddress[a] = a =>
            /\ \A t \in RecallableTxs(a) : CanRecall(a, t)' \/ IsSettled(t)'
            /\ \A n \in recallableItems(a) : n \in recallableItems(a)' \/ IsSettled(n)'
            /\ \A n \in waitingToRecallItems(a) :
                  \/ n \in recallableItems(a)' \cup waitingToRecallItems(a)'
                  \/ IsSettled(n)'
       /\ \A r \in Requests, n \in Txs \cup Gifts :
            InBatch(r, n) => \/ InBatch(r, n)' \/ IsSettled(n)'
                             \/ n \in req'[r].rejected
                             \/ Abort(r)]_vars

(* What keeps it: a request with items left is at one of them, and its save *)
(* of a gift that is still pending writes the status.                       *)
BatchInHand(r) ==
    /\ req[r].todo # {} => req[r].at \in {"batch", "recall.update"} \cup GiftSteps
    /\ req[r].todo # {} /\ req[r].at \in GiftSteps => req[r].gift \in req[r].todo
    /\ req[r].at = "recall.update" => req[r].ids \subseteq req[r].todo
    /\ req[r].at = "gift.write" /\ gifts[req[r].gift].status = "pending"
          => "status" \in req[r].dirty

BatchesInHand == \A r \in Requests : BatchInHand(r)

(* How many queries a request has left at the most: four for each item, and *)
(* those that end it.                                                       *)
Ahead(step) ==
    CASE step = "idle" -> 0
      [] step \in {"consume.update", "recall.update", "gift.write"} -> 1
      [] step = "gift.compare" -> 2
      [] step = "gift.load" -> 3
      [] step = "batch" -> 4
StepsLeft(r) == 4 * Cardinality(req[r].todo) + Ahead(req[r].at)

(* Every query of a request brings it nearer to its end, whatever the       *)
(* others do in between and whether it is answered or rejects: a batch is   *)
(* done with an item at the latest with its fourth query, and never turns   *)
(* to the same item again.                                                  *)
BatchShrinks ==
    [][\A r \in Requests :
         /\ Advance(r) \/ FailItem(r) => StepsLeft(r)' < StepsLeft(r)
         /\ req[r].at # "idle" => StepsLeft(r)' <= StepsLeft(r)]_vars

(* An item that fails does not stop recallBatch: every other item that can  *)
(* be recalled gets settled, unless a query of its own rejects, whatever    *)
(* consumes, opens and recalls race it and whichever of the other items are *)
(* refused or fail.                                                         *)
BatchSettles ==
    \A r \in Requests, n \in Txs \cup Gifts :
        InBatch(r, n) ~> (IsSettled(n) \/ n \in req[r].rejected)

(* "Check if gift is already opened" (openGift): an open takes effect on a  *)
(* pending gift only, so a gift is opened once.                             *)
GiftOpenedOnce ==
    [][\A r \in Requests :
         WriteGift(r) /\ req[r].outcome = "consumed"
            => gifts[req[r].gift].status = "pending"]_vars
=============================================================================
