---------------------------- MODULE NotesProofs -----------------------------
(* Theorems about Notes for every value of its constants. *)
EXTENDS Notes, FiniteSetTheorems, TLAPS

-----------------------------------------------------------------------------
(* Who writes what. *)

LEMMA GiftWriters ==
  ASSUME [Next]_vars
  PROVE  \/ UNCHANGED gifts
         \/ \E a \in Addresses, g \in Gifts : SendGift(g, a)
         \/ \E r \in Requests : WriteGift(r)
  BY DEF Next, Serve, Start, Advance, FailItem, ItemFails, vars, Abort, Tick, Send, SendBatch,
     ConsumeFind, ConsumeUpdate, RecallBatch, BatchDone, RecallFind, RecallUpdate,
     OpenGift, RecallGift, LoadGift, CompareGift

LEMMA TxWriters ==
  ASSUME [Next]_vars
  PROVE  \/ UNCHANGED txs
         \/ \E a \in Addresses, batch \in Batches : SendBatch(a, batch)
         \/ \E r \in Requests : ConsumeUpdate(r)
         \/ \E r \in Requests, t \in Txs : RecallUpdate(r, t)
  BY DEF Next, Serve, Start, Advance, FailItem, ItemFails, vars, Abort, Tick, Send, SendGift,
     ConsumeFind, RecallBatch, BatchDone, RecallFind, WriteGift,
     OpenGift, RecallGift, LoadGift, CompareGift

LEMMA ClockAdvances == ASSUME TypeOK, [Next]_vars PROVE now' \in Nat /\ now' >= now
<1>1. Tick \/ UNCHANGED now
  BY DEF Next, Serve, Start, Advance, FailItem, ItemFails, vars, Abort, Send, SendBatch, SendGift,
     ConsumeFind, ConsumeUpdate, RecallBatch, BatchDone, RecallFind, RecallUpdate,
     OpenGift, RecallGift, LoadGift, CompareGift, WriteGift
<1> QED
  BY <1>1 DEF Tick, TypeOK

(* A step of request r, by what becomes of it. *)
LetsGo(r) ==
    req'[r] = Idle \/ \E i : req'[r] = Without(r, i) \/ req'[r] = WithError(r, i)
Begins(r) ==
    \/ \E a \in Addresses, ids \in SUBSET Txs \ {{}} : ConsumeFind(r, a, ids)
    \/ \E a \in Addresses, items \in SUBSET (Txs \cup Gifts) \ {{}} :
          RecallBatch(r, a, items)
Moves(r) ==
    \/ \E t \in Txs : RecallFind(r, t)
    \/ \E g \in Gifts : OpenGift(r, g) \/ RecallGift(r, g)
    \/ LoadGift(r) \/ CompareGift(r)

LEMMA OthersStay ==
  ASSUME TypeOK, NEW r \in Requests, NEW q \in Requests, q # r, NEW st, Become(q, st)
  PROVE  req'[r] = req[r]
  BY DEF Become, TypeOK

LEMMA Becomes ==
  ASSUME TypeOK, NEW r \in Requests, NEW st, Become(r, st)
  PROVE  req'[r] = st
  BY DEF Become, TypeOK

LEMMA ReqSteps ==
  ASSUME TypeOK, [Next]_vars, NEW r \in Requests
  PROVE  req'[r] = req[r] \/ LetsGo(r) \/ Begins(r) \/ Moves(r)
<1>1. ASSUME NEW q \in Requests, q # r,
             Start(q) \/ Advance(q) \/ FailItem(q) \/ Abort(q)
      PROVE  req'[r] = req[r]
  BY <1>1, OthersStay DEF Start, Advance, FailItem, ItemFails, Abort, Finish, UpdateOne,
     ConsumeFind, ConsumeUpdate, RecallBatch, BatchDone, RecallFind, RecallUpdate,
     OpenGift, RecallGift, LoadGift, CompareGift, WriteGift
<1>2. CASE Tick \/ Send \/ UNCHANGED vars
  BY <1>2 DEF Tick, Send, SendBatch, SendGift, vars
<1>3. CASE Start(r)
  BY <1>3 DEF Start, Begins, Moves
<1>4. CASE Abort(r)
  BY <1>4, Becomes DEF Abort, Finish, LetsGo
<1>5. CASE Advance(r)
  <2>1. CASE ConsumeUpdate(r) \/ BatchDone(r)
    BY <2>1, Becomes DEF ConsumeUpdate, BatchDone, Finish, LetsGo
  <2>2. ASSUME NEW t \in Txs, RecallUpdate(r, t) PROVE LetsGo(r)
    BY <2>2, Becomes DEF RecallUpdate, LetsGo
  <2>3. CASE WriteGift(r)
    BY <2>3, Becomes DEF WriteGift, Finish, LetsGo
  <2> QED
    BY <1>5, <2>1, <2>2, <2>3 DEF Advance, Moves
<1>6. CASE FailItem(r)
  BY <1>6, Becomes DEF FailItem, ItemFails, LetsGo
<1> QED
  BY <1>1, <1>2, <1>3, <1>4, <1>5, <1>6 DEF Next, Serve

-----------------------------------------------------------------------------
(* Types. *)

LEMMA IdleType == Idle \in RequestState
  BY DEF Idle, RequestState, Steps, GiftColumns, NoEntity, Status, Null

LEMMA BecomeType ==
  ASSUME TypeOK, NEW r \in Requests, NEW st \in RequestState, Become(r, st)
  PROVE  req' \in [Requests -> RequestState]
  BY DEF TypeOK, Become

LEMMA FinishType ==
  ASSUME TypeOK, NEW r \in Requests, Finish(r)
  PROVE  req' \in [Requests -> RequestState]
  BY IdleType, BecomeType DEF Finish

LEMMA StartType ==
  ASSUME NEW step \in Steps, NEW a \in Addresses
  PROVE  /\ \A ids \in SUBSET Txs :
              [Idle EXCEPT !.at = step, !.wallet = a, !.ids = ids] \in RequestState
         /\ \A items \in SUBSET (Txs \cup Gifts) :
              [Idle EXCEPT !.at = step, !.wallet = a, !.todo = items] \in RequestState
<1>1. Idle \in RequestState
  BY IdleType
<1> QED
  BY <1>1 DEF RequestState

LEMMA WithoutType ==
  ASSUME TypeOK, NEW r \in Requests, NEW i
  PROVE  Without(r, i) \in RequestState
<1>1. Idle \in RequestState /\ req[r] \in RequestState
  BY IdleType DEF TypeOK
<1>2. /\ req[r].wallet \in Addresses \cup {None}
      /\ req[r].todo \in SUBSET (Txs \cup Gifts)
      /\ req[r].rejected \in SUBSET (Txs \cup Gifts)
  BY <1>1 DEF RequestState
<1>3. req[r].todo \ {i} \in SUBSET (Txs \cup Gifts)
  BY <1>2
<1>4. ASSUME NEW w \in Addresses \cup {None}, NEW items \in SUBSET (Txs \cup Gifts),
             NEW errors \in SUBSET (Txs \cup Gifts)
      PROVE  [Idle EXCEPT !.at = "batch", !.wallet = w, !.todo = items,
                          !.rejected = errors] \in RequestState
  BY <1>1 DEF RequestState, Steps
<1> QED
  BY <1>2, <1>3, <1>4 DEF Without

LEMMA WithErrorType ==
  ASSUME TypeOK, NEW r \in Requests, NEW i \in Txs \cup Gifts
  PROVE  WithError(r, i) \in RequestState
<1>1. Without(r, i) \in RequestState /\ req[r] \in RequestState
  BY WithoutType DEF TypeOK
<1>2. req[r].rejected \cup {i} \in SUBSET (Txs \cup Gifts)
  BY <1>1 DEF RequestState
<1>3. ASSUME NEW st \in RequestState, NEW errors \in SUBSET (Txs \cup Gifts)
      PROVE  [st EXCEPT !.rejected = errors] \in RequestState
  BY DEF RequestState
<1> QED
  BY <1>1, <1>2, <1>3 DEF WithError

(* What is left of a request that is done with item i. *)
LEMMA AfterWithout ==
  ASSUME NEW r, NEW i
  PROVE  \A st \in {Without(r, i), WithError(r, i)} :
           /\ st.at = "batch" /\ st.gift = None
           /\ st.wallet = req[r].wallet
           /\ st.todo = req[r].todo \ {i}
  BY DEF Without, WithError, Idle

LEMMA AfterLetsGo ==
  ASSUME NEW r, LetsGo(r)
  PROVE  \/ req'[r] = Idle
         \/ /\ req'[r].at = "batch" /\ req'[r].gift = None
            /\ \E i : req'[r].todo = req[r].todo \ {i}
<1>1. ASSUME NEW i, req'[r] = Without(r, i) \/ req'[r] = WithError(r, i)
      PROVE  /\ req'[r].at = "batch" /\ req'[r].gift = None
             /\ req'[r].todo = req[r].todo \ {i}
  BY <1>1, AfterWithout
<1> QED
  BY <1>1 DEF LetsGo

LEMMA AfterError ==
  ASSUME NEW r, NEW i
  PROVE  i \in WithError(r, i).rejected
  BY DEF Without, WithError, Idle

LEMMA UpdateOneType ==
  ASSUME TypeOK, NEW r \in Requests, NEW st \in RequestState, NEW g \in Gifts,
         NEW outcome \in {"recalled", "consumed"}, UpdateOne(r, st, g, outcome)
  PROVE  req' \in [Requests -> RequestState]
<1>1. [st EXCEPT !.at = "gift.load", !.gift = g, !.outcome = outcome, !.stamp = now]
        \in RequestState
  BY DEF TypeOK, RequestState, Steps
<1> QED
  BY <1>1, BecomeType DEF UpdateOne

LEMMA UpdatePendingType ==
  ASSUME TypeOK, NEW ids, NEW outcome \in {"recalled", "consumed"},
         UpdatePending(ids, outcome)
  PROVE  txs' \in [Txs -> TxRow]
  BY DEF TypeOK, UpdatePending, TxRow, Status

LEMMA SendType ==
  ASSUME TypeOK, Send
  PROVE  TypeOK'
<1>1. ASSUME NEW a \in Addresses, NEW batch \in Batches, SendBatch(a, batch)
      PROVE  TypeOK'
  <2>1. PICK S \in SUBSET Txs : batch \in [S -> Dtos]
    BY DEF Batches
  <2>2. ASSUME NEW t \in DOMAIN batch
        PROVE  [status |-> "pending", sender |-> normalizeAddress[a],
                recipient |-> normalizeAddress[batch[t].recipient],
                recallable |-> batch[t].recallable,
                recallableTime |-> batch[t].recallableTime] \in TxRow
    <3>1. batch[t] \in Dtos
      BY <2>1, <2>2
    <3>2. /\ batch[t].recipient \in Addresses /\ batch[t].recallable \in BOOLEAN
          /\ batch[t].recallableTime \in Nat
      BY <3>1, NotesAssumption DEF Dtos, Null
    <3> QED
      BY <3>2, NormalizeAssumption DEF TxRow, Status
  <2>3. txs' \in [Txs -> TxRow]
    BY <1>1, <2>2 DEF SendBatch, TypeOK
  <2> QED
    BY <1>1, <2>3 DEF SendBatch, TypeOK
<1>2. ASSUME NEW a \in Addresses, NEW g \in Gifts, SendGift(g, a)
      PROVE  TypeOK'
  <2>1. gifts' \in [Gifts -> GiftRow]
    BY <1>2, NormalizeAssumption, NotesAssumption
       DEF SendGift, TypeOK, GiftRow, Status, Null
  <2> QED
    BY <1>2, <2>1 DEF SendGift, TypeOK
<1> QED
  BY <1>1, <1>2 DEF Send

LEMMA StartKeepsTypes ==
  ASSUME TypeOK, NEW r \in Requests, Start(r)
  PROVE  TypeOK'
<1>1. ASSUME NEW a \in Addresses, NEW ids \in SUBSET Txs, ConsumeFind(r, a, ids)
      PROVE  TypeOK'
  <2>1. req' \in [Requests -> RequestState]
    BY <1>1, StartType, BecomeType DEF ConsumeFind, Steps
  <2> QED
    BY <1>1, <2>1 DEF ConsumeFind, TypeOK
<1>2. ASSUME NEW a \in Addresses, NEW items \in SUBSET (Txs \cup Gifts),
             RecallBatch(r, a, items)
      PROVE  TypeOK'
  <2>1. req' \in [Requests -> RequestState]
    BY <1>2, StartType, BecomeType DEF RecallBatch, Steps
  <2> QED
    BY <1>2, <2>1 DEF RecallBatch, TypeOK
<1>3. ASSUME NEW g \in Gifts, OpenGift(r, g)
      PROVE  TypeOK'
  <2>1. req' \in [Requests -> RequestState]
    BY <1>3, IdleType, UpdateOneType DEF OpenGift
  <2> QED
    BY <1>3, <2>1 DEF OpenGift, TypeOK
<1> QED
  BY <1>1, <1>2, <1>3 DEF Start

(* The save of a gift: the request holds one, as GiftInHand says. *)
LEMMA SaveGiftType ==
  ASSUME TypeOK, NEW r \in Requests, GiftInHand(r),
         LoadGift(r) \/ CompareGift(r) \/ WriteGift(r)
  PROVE  TypeOK'
<1>1. req[r] \in RequestState /\ req[r].gift \in Gifts
  BY DEF TypeOK, GiftInHand, GiftSteps, LoadGift, CompareGift, WriteGift
<1>2. gifts[req[r].gift] \in GiftRow
  BY <1>1 DEF TypeOK
<1>3. CASE LoadGift(r)
  <2> DEFINE opens == req[r].outcome = "consumed"
             e == [status |-> req[r].outcome,
                   openedAt |-> IF opens THEN req[r].stamp
                                         ELSE gifts[req[r].gift].openedAt,
                   recalledAt |-> IF opens THEN gifts[req[r].gift].recalledAt
                                           ELSE req[r].stamp]
  <2>1. /\ req[r].outcome \in Status /\ req[r].stamp \in Nat
        /\ gifts[req[r].gift].openedAt \in Nat /\ gifts[req[r].gift].recalledAt \in Nat
    BY <1>1, <1>2 DEF RequestState, GiftRow, Status
  <2>2. e \in GiftColumns
    BY <2>1 DEF GiftColumns
  <2>3. [req[r] EXCEPT !.at = "gift.compare", !.entity = e] \in RequestState
    BY <1>1, <2>2 DEF RequestState, Steps
  <2>4. req' \in [Requests -> RequestState]
    BY <1>3, <2>3, BecomeType DEF LoadGift
  <2> QED
    BY <1>3, <2>4 DEF LoadGift, TypeOK
<1>4. CASE CompareGift(r)
  <2>1. ASSUME NEW d \in SUBSET {"status", "openedAt", "recalledAt"}
        PROVE  [req[r] EXCEPT !.at = "gift.write", !.dirty = d] \in RequestState
    BY <1>1 DEF RequestState, Steps
  <2>2. req' \in [Requests -> RequestState]
    BY <1>4, <2>1, BecomeType DEF CompareGift
  <2> QED
    BY <1>4, <2>2 DEF CompareGift, TypeOK
<1>5. CASE WriteGift(r)
  <2>1. req[r].entity \in GiftColumns
    BY <1>1 DEF RequestState
  <2>2. Overwrite(gifts[req[r].gift], req[r].entity, req[r].dirty) \in GiftRow
    BY <1>2, <2>1 DEF Overwrite, GiftRow, GiftColumns
  <2>3. gifts' \in [Gifts -> GiftRow]
    BY <1>5, <2>2 DEF WriteGift, TypeOK
  <2>4. req' \in [Requests -> RequestState]
    BY <1>5, FinishType, WithoutType, BecomeType DEF WriteGift
  <2> QED
    BY <1>5, <2>3, <2>4 DEF WriteGift, TypeOK
<1> QED
  BY <1>3, <1>4, <1>5

LEMMA AdvanceKeepsTypes ==
  ASSUME TypeOK, NEW r \in Requests, GiftInHand(r), Advance(r)
  PROVE  TypeOK'
<1>1. CASE ConsumeUpdate(r)
  <2>1. req' \in [Requests -> RequestState] /\ txs' \in [Txs -> TxRow]
    BY <1>1, FinishType, UpdatePendingType DEF ConsumeUpdate
  <2> QED
    BY <1>1, <2>1 DEF ConsumeUpdate, TypeOK
<1>2. CASE BatchDone(r)
  <2>1. req' \in [Requests -> RequestState]
    BY <1>2, FinishType DEF BatchDone
  <2> QED
    BY <1>2, <2>1 DEF BatchDone, TypeOK
<1>3. ASSUME NEW t \in Txs, RecallFind(r, t) PROVE TypeOK'
  <2>1. [req[r] EXCEPT !.at = "recall.update", !.ids = {t}] \in RequestState
    BY DEF TypeOK, RequestState, Steps
  <2>2. req' \in [Requests -> RequestState]
    BY <1>3, <2>1, WithoutType, BecomeType DEF RecallFind
  <2> QED
    BY <1>3, <2>2 DEF RecallFind, TypeOK
<1>4. ASSUME NEW t \in Txs, RecallUpdate(r, t) PROVE TypeOK'
  <2>1. req' \in [Requests -> RequestState] /\ txs' \in [Txs -> TxRow]
    BY <1>4, WithoutType, BecomeType, UpdatePendingType DEF RecallUpdate
  <2> QED
    BY <1>4, <2>1 DEF RecallUpdate, TypeOK
<1>5. ASSUME NEW g \in Gifts, RecallGift(r, g) PROVE TypeOK'
  <2>1. req[r] \in RequestState
    BY DEF TypeOK
  <2>2. req' \in [Requests -> RequestState]
    BY <1>5, <2>1, UpdateOneType, WithoutType, BecomeType DEF RecallGift
  <2> QED
    BY <1>5, <2>2 DEF RecallGift, TypeOK
<1>6. CASE LoadGift(r) \/ CompareGift(r) \/ WriteGift(r)
  BY <1>6, SaveGiftType
<1> QED
  BY <1>1, <1>2, <1>3, <1>4, <1>5, <1>6 DEF Advance

LEMMA NextKeepsTypes ==
  ASSUME TypeOK, \A r \in Requests : GiftInHand(r), [Next]_vars
  PROVE  TypeOK'
<1>1. CASE Tick
  BY <1>1 DEF Tick, TypeOK
<1>2. ASSUME NEW r \in Requests, Abort(r) PROVE TypeOK'
  <2>1. req' \in [Requests -> RequestState]
    BY <1>2, FinishType DEF Abort
  <2> QED
    BY <1>2, <2>1 DEF Abort, TypeOK
<1>3. ASSUME NEW r \in Requests, NEW i \in Txs \cup Gifts, ItemFails(r, i)
      PROVE  TypeOK'
  <2>1. req' \in [Requests -> RequestState]
    BY <1>3, WithErrorType, BecomeType DEF ItemFails
  <2> QED
    BY <1>3, <2>1 DEF ItemFails, TypeOK
<1>4. CASE UNCHANGED vars
  BY <1>4 DEF vars, TypeOK
<1> QED
  BY <1>1, <1>2, <1>3, <1>4, SendType, StartKeepsTypes, AdvanceKeepsTypes
     DEF Next, Serve, FailItem

-----------------------------------------------------------------------------
(* What the rows keep, whoever writes them. *)

LEMMA GiftRowsStay ==
  ASSUME IInv, [Next]_vars, NEW g \in Gifts, gifts[g].status # "none"
  PROVE  /\ gifts'[g].status # "none"
         /\ gifts'[g].recallableTime = gifts[g].recallableTime
         /\ gifts'[g].sender = gifts[g].sender
<1>1. ASSUME NEW a \in Addresses, NEW h \in Gifts, SendGift(h, a)
      PROVE  gifts'[g] = gifts[g]
  BY <1>1 DEF SendGift, IInv, TypeOK
<1>2. ASSUME NEW r \in Requests, WriteGift(r)
      PROVE  /\ gifts'[g].status # "none"
             /\ gifts'[g].recallableTime = gifts[g].recallableTime
             /\ gifts'[g].sender = gifts[g].sender
  <2>1. req[r].gift \in Gifts /\ req[r].entity.status # "none"
    BY <1>2 DEF IInv, TypeOK, GiftInHand, GiftSteps, WriteGift, RequestState
  <2>2. \/ gifts'[g] = gifts[g]
        \/ gifts'[g] = Overwrite(gifts[g], req[r].entity, req[r].dirty)
    BY <1>2, <2>1 DEF WriteGift, IInv, TypeOK
  <2>3. gifts[g] \in GiftRow
    BY DEF IInv, TypeOK
  <2> QED
    BY <2>1, <2>2, <2>3 DEF Overwrite, GiftRow
<1> QED
  BY <1>1, <1>2, GiftWriters

LEMMA TxRowsStay ==
  ASSUME TypeOK, [Next]_vars, NEW t \in Txs, txs[t].status # "none"
  PROVE  /\ txs'[t].status # "none"
         /\ txs'[t].sender = txs[t].sender
         /\ txs'[t].recallable = txs[t].recallable
         /\ txs'[t].recallableTime = txs[t].recallableTime
<1>1. ASSUME NEW a \in Addresses, NEW batch \in Batches, SendBatch(a, batch)
      PROVE  txs'[t] = txs[t]
  BY <1>1 DEF SendBatch, TypeOK
<1>2. ASSUME NEW ids, NEW outcome \in {"recalled", "consumed"},
             UpdatePending(ids, outcome)
      PROVE  /\ txs'[t].status # "none"
             /\ txs'[t].sender = txs[t].sender
             /\ txs'[t].recallable = txs[t].recallable
             /\ txs'[t].recallableTime = txs[t].recallableTime
  BY <1>2 DEF UpdatePending, TypeOK, TxRow
<1> QED
  BY <1>1, <1>2, TxWriters DEF ConsumeUpdate, RecallUpdate

(* Time that has passed stays passed. *)
LEMMA PassedStays ==
  ASSUME TypeOK, [Next]_vars, NEW time \in Nat, PassedBy(time, now)
  PROVE  PassedBy(time, now')
<1>1. now \in Nat /\ now' \in Nat /\ now' >= now
  BY ClockAdvances DEF TypeOK
<1> QED
  BY <1>1 DEF PassedBy, Null

-----------------------------------------------------------------------------
(* The inductive invariant. *)

LEMMA InitIInv == Init => IInv
<1> SUFFICES ASSUME Init PROVE IInv
  OBVIOUS
<1>1. NoTx \in TxRow /\ NoGift \in GiftRow
  BY DEF NoTx, NoGift, TxRow, GiftRow, Status, Null
<1>2. TypeOK
  BY <1>1, IdleType DEF Init, TypeOK
<1>3. RecalledInTime /\ StampsInWindow
  BY DEF Init, RecalledInTime, StampsInWindow, NoTx, NoGift
<1>4. \A r \in Requests : GiftInHand(r) /\ TxsInHand(r)
  BY DEF Init, GiftInHand, TxsInHand, GiftSteps, Idle
<1> QED
  BY <1>2, <1>3, <1>4 DEF IInv, Init, NoGift

LEMMA HandsKept ==
  ASSUME IInv, [Next]_vars, TypeOK', NEW r \in Requests
  PROVE  GiftInHand(r)' /\ TxsInHand(r)'
<1> USE DEF IInv
<1>1. req[r] \in RequestState /\ req'[r] \in RequestState
  BY DEF TypeOK
<1>2. CASE req'[r] = req[r]
  <2>1. GiftInHand(r)'
    <3>1. CASE req[r].at \notin GiftSteps
      BY <1>2, <3>1 DEF GiftInHand
    <3>2. CASE req[r].at \in GiftSteps
      <4> DEFINE g == req[r].gift
      <4>1. g \in Gifts /\ gifts[g].status # "none" /\ gifts[g].recallableTime \in Nat
        BY <3>2 DEF GiftInHand, TypeOK, GiftRow
      <4>2. gifts'[g].status # "none" /\ gifts'[g].recallableTime = gifts[g].recallableTime
        BY <4>1, GiftRowsStay
      <4>3. PassedBy(gifts[g].recallableTime, now) => PassedBy(gifts[g].recallableTime, now')
        BY <4>1, PassedStays, <4>2
      <4> HIDE DEF g
      <4>4. g = req[r].gift
        BY DEF g
      <4> QED
        BY <1>2, <3>2, <4>1, <4>2, <4>3, <4>4 DEF GiftInHand, Passed, PassedBy
    <3> QED
      BY <3>1, <3>2
  <2>2. TxsInHand(r)'
    <3>1. ASSUME NEW t \in req[r].ids, req[r].at = "recall.update"
          PROVE  /\ txs'[t].status # "none" /\ txs'[t].recallable
                 /\ PassedBy(txs'[t].recallableTime, now')
      <4>1. t \in Txs /\ txs[t].status # "none" /\ txs[t].recallable
            /\ txs[t].recallableTime \in Nat /\ PassedBy(txs[t].recallableTime, now)
        BY <1>1, <3>1 DEF TxsInHand, RequestState, TypeOK, TxRow, Passed
      <4>2. PassedBy(txs[t].recallableTime, now')
        BY <4>1, TxRowsStay, PassedStays DEF Passed, PassedBy
      <4> QED
        BY <4>1, <4>2, TxRowsStay
    <3> QED
      BY <1>2, <3>1 DEF TxsInHand, Passed
  <2> QED
    BY <2>1, <2>2
<1>3. CASE LetsGo(r)
  <2>1. req'[r].at \in {"idle", "batch"}
    <3>1. Idle.at = "idle"
      BY DEF Idle
    <3> QED
      BY <1>3, <3>1, AfterLetsGo
  <2> QED
    BY <2>1 DEF GiftInHand, TxsInHand, GiftSteps
<1>4. CASE Begins(r)
  <2>1. ASSUME NEW a, NEW x, ConsumeFind(r, a, x) \/ RecallBatch(r, a, x)
        PROVE  req'[r].at \in {"consume.update", "batch"}
    <3>1. \/ req'[r] = [Idle EXCEPT !.at = "consume.update", !.wallet = a, !.ids = x]
          \/ req'[r] = [Idle EXCEPT !.at = "batch", !.wallet = a, !.todo = x]
      BY <2>1, Becomes DEF ConsumeFind, RecallBatch
    <3> QED
      BY <3>1 DEF Idle
  <2> QED
    BY <1>4, <2>1 DEF Begins, GiftInHand, TxsInHand, GiftSteps
<1>5. ASSUME NEW t \in Txs, RecallFind(r, t)
      PROVE  GiftInHand(r)' /\ TxsInHand(r)'
  <2>1. CASE req'[r] = Without(r, t)
    BY <2>1 DEF Without, Idle, GiftInHand, TxsInHand, GiftSteps
  <2>2. CASE CanRecall(req[r].wallet, t)
             /\ req'[r] = [req[r] EXCEPT !.at = "recall.update", !.ids = {t}]
    <3>1. req'[r].at = "recall.update" /\ req'[r].ids = {t}
      BY <1>1, <2>2 DEF RequestState
    <3>2. UNCHANGED <<now, txs>>
      BY <1>5 DEF RecallFind
    <3> QED
      BY <2>2, <3>1, <3>2 DEF CanRecall, GiftInHand, TxsInHand, GiftSteps, Passed, PassedBy
  <2> QED
    BY <1>5, <2>1, <2>2, Becomes DEF RecallFind
<1>6. ASSUME NEW g \in Gifts, NEW st \in RequestState,
             NEW outcome \in {"recalled", "consumed"}, UpdateOne(r, st, g, outcome),
             gifts[g].status = "pending", UNCHANGED <<now, gifts>>,
             outcome = "recalled" <=> PassedBy(gifts[g].recallableTime, now)
      PROVE  GiftInHand(r)' /\ TxsInHand(r)'
  <2>1. /\ req'[r].at = "gift.load" /\ req'[r].gift = g
        /\ req'[r].outcome = outcome /\ req'[r].stamp = now
    <3>1. req'[r] = [st EXCEPT !.at = "gift.load", !.gift = g, !.outcome = outcome,
                               !.stamp = now]
      BY <1>6, Becomes DEF UpdateOne
    <3> QED
      BY <3>1 DEF RequestState
  <2>2. gifts[g].recallableTime \in Nat /\ gifts[g].recallableTime # Null /\ now \in Nat
    BY <1>6 DEF TypeOK, GiftRow
  <2>3. TxsInHand(r)'
    BY <2>1 DEF TxsInHand
  <2> QED
    BY <1>6, <2>1, <2>2, <2>3 DEF GiftInHand, GiftSteps, Passed, PassedBy
<1>7. ASSUME NEW g \in Gifts, OpenGift(r, g) \/ RecallGift(r, g)
      PROVE  GiftInHand(r)' /\ TxsInHand(r)'
  <2>1. CASE OpenGift(r, g)
    BY <1>6, <2>1, IdleType DEF OpenGift, Passed
  <2>2. CASE RecallGift(r, g)
    <3>1. CASE req'[r] = Without(r, g)
      BY <3>1 DEF Without, Idle, GiftInHand, TxsInHand, GiftSteps
    <3> QED
      BY <1>1, <1>6, <2>2, <3>1, Becomes DEF RecallGift, Passed
  <2> QED
    BY <1>7, <2>1, <2>2
<1>8. CASE LoadGift(r)
  <2> DEFINE g == req[r].gift
             opens == req[r].outcome = "consumed"
  <2>1. /\ req'[r].at = "gift.compare" /\ req'[r].gift = g
        /\ req'[r].outcome = req[r].outcome /\ req'[r].stamp = req[r].stamp
        /\ req'[r].entity = [status |-> req[r].outcome,
                openedAt |-> IF opens THEN req[r].stamp ELSE gifts[g].openedAt,
                recalledAt |-> IF opens THEN gifts[g].recalledAt ELSE req[r].stamp]
    <3>1. req'[r] = [req[r] EXCEPT !.at = "gift.compare",
                       !.entity = [status |-> req[r].outcome,
                openedAt |-> IF opens THEN req[r].stamp ELSE gifts[g].openedAt,
                recalledAt |-> IF opens THEN gifts[g].recalledAt ELSE req[r].stamp]]
      BY <1>8, Becomes DEF LoadGift
    <3> DEFINE e == [status |-> req[r].outcome,
                openedAt |-> IF opens THEN req[r].stamp ELSE gifts[g].openedAt,
                recalledAt |-> IF opens THEN gifts[g].recalledAt ELSE req[r].stamp]
    <3> HIDE DEF e
    <3>2. req'[r] = [req[r] EXCEPT !.at = "gift.compare", !.entity = e]
      BY <3>1 DEF e
    <3>3. /\ req'[r].at = "gift.compare" /\ req'[r].gift = req[r].gift
          /\ req'[r].outcome = req[r].outcome /\ req'[r].stamp = req[r].stamp
          /\ req'[r].entity = e
      BY <1>1, <3>2 DEF RequestState
    <3> QED
      BY <3>3 DEF e
  <2>2. /\ g \in Gifts
        /\ gifts[g].status # "none"
        /\ req[r].outcome = "recalled" =>
              PassedBy(gifts[g].recallableTime, now) /\ req[r].stamp >= gifts[g].recallableTime
        /\ req[r].outcome = "consumed" => req[r].stamp < gifts[g].recallableTime
    BY <1>8 DEF LoadGift, GiftInHand, GiftSteps, Passed
  <2>3. /\ gifts[g].openedAt # Null => gifts[g].openedAt < gifts[g].recallableTime
        /\ gifts[g].recalledAt # Null => gifts[g].recalledAt >= gifts[g].recallableTime
    BY <2>2 DEF StampsInWindow
  <2>4. UNCHANGED <<now, gifts>> /\ req[r].outcome \in {"recalled", "consumed"}
    BY <1>1, <1>8 DEF LoadGift, RequestState
  <2> HIDE DEF g
  <2>5. GiftInHand(r)'
    BY <2>1, <2>2, <2>3, <2>4 DEF GiftInHand, GiftSteps, Passed, PassedBy
  <2> QED
    BY <2>1, <2>5 DEF TxsInHand
<1>9. CASE CompareGift(r)
  <2>1. /\ req'[r].at = "gift.write" /\ req'[r].gift = req[r].gift
        /\ req'[r].outcome = req[r].outcome /\ req'[r].stamp = req[r].stamp
        /\ req'[r].entity = req[r].entity
    <3>1. PICK d : req'[r] = [req[r] EXCEPT !.at = "gift.write", !.dirty = d]
      BY <1>9, Becomes DEF CompareGift
    <3> QED
      BY <1>1, <3>1 DEF RequestState
  <2>2. req[r].at = "gift.compare" /\ UNCHANGED <<now, gifts>>
    BY <1>9 DEF CompareGift
  <2>3. GiftInHand(r)'
    BY <2>1, <2>2 DEF GiftInHand, GiftSteps, Passed, PassedBy
  <2> QED
    BY <2>1, <2>3 DEF TxsInHand
<1> QED
  BY <1>2, <1>3, <1>4, <1>5, <1>7, <1>8, <1>9, ReqSteps DEF Moves

LEMMA NextRecalledInTime ==
  ASSUME IInv, [Next]_vars, TypeOK'
  PROVE  RecalledInTime'
<1> USE DEF IInv
<1>1. ASSUME NEW t \in Txs, txs'[t].status = "recalled"
      PROVE  txs'[t].recallable /\ PassedBy(txs'[t].recallableTime, now')
  <2>1. CASE txs[t].status = "recalled"
    <3>1. txs[t].recallable /\ PassedBy(txs[t].recallableTime, now)
          /\ txs[t].recallableTime \in Nat
      BY <2>1 DEF RecalledInTime, TypeOK, TxRow, Passed
    <3>2. PassedBy(txs[t].recallableTime, now')
      BY <2>1, <3>1, TxRowsStay, PassedStays DEF Passed, PassedBy
    <3> QED
      BY <2>1, <3>1, <3>2, TxRowsStay
  <2>2. CASE txs[t].status # "recalled"
    <3>1. ASSUME NEW a \in Addresses, NEW batch \in Batches, SendBatch(a, batch)
          PROVE  FALSE
      BY <1>1, <2>2, <3>1 DEF SendBatch, TypeOK
    <3>2. ASSUME NEW r \in Requests, ConsumeUpdate(r) PROVE FALSE
      BY <1>1, <2>2, <3>2 DEF ConsumeUpdate, UpdatePending, TypeOK, TxRow
    <3>3. PICK r \in Requests, u \in Txs : RecallUpdate(r, u)
      BY <1>1, <2>2, <3>1, <3>2, TxWriters
    <3>4. u = t /\ UNCHANGED now
      BY <1>1, <2>2, <3>3 DEF RecallUpdate, UpdatePending, TypeOK
    <3>5. txs[t].status # "none" /\ txs[t].recallable /\ PassedBy(txs[t].recallableTime, now)
      BY <3>3, <3>4 DEF TxsInHand, RecallUpdate, Passed
    <3> QED
      BY <3>4, <3>5, TxRowsStay DEF Passed, PassedBy
  <2> QED
    BY <2>1, <2>2
<1>2. ASSUME NEW g \in Gifts, gifts'[g].status = "recalled"
      PROVE  PassedBy(gifts'[g].recallableTime, now')
  <2>1. CASE gifts[g].status = "recalled"
    <3>1. PassedBy(gifts[g].recallableTime, now) /\ gifts[g].recallableTime \in Nat
      BY <2>1 DEF RecalledInTime, TypeOK, GiftRow, Passed
    <3> QED
      BY <2>1, <3>1, GiftRowsStay, PassedStays DEF Passed, PassedBy
  <2>2. CASE gifts[g].status # "recalled"
    <3>1. ASSUME NEW a \in Addresses, NEW h \in Gifts, SendGift(h, a)
          PROVE  FALSE
      BY <1>2, <2>2, <3>1 DEF SendGift, TypeOK
    <3>2. PICK r \in Requests : WriteGift(r)
      BY <1>2, <2>2, <3>1, GiftWriters
    <3>3. req[r].gift = g
      BY <1>2, <2>2, <3>2 DEF WriteGift, TypeOK
    <3>4. gifts'[g] = Overwrite(gifts[g], req[r].entity, req[r].dirty)
      BY <3>2, <3>3 DEF WriteGift, TypeOK
    <3>5. gifts[g] \in GiftRow
      BY DEF TypeOK
    <3>6. req[r].entity.status = "recalled"
      BY <1>2, <2>2, <3>4, <3>5 DEF Overwrite, GiftRow
    <3>7. gifts[g].status # "none" /\ PassedBy(gifts[g].recallableTime, now)
      BY <3>2, <3>3, <3>6 DEF GiftInHand, GiftSteps, WriteGift, Passed
    <3>8. UNCHANGED now
      BY <3>2 DEF WriteGift
    <3> QED
      BY <3>7, <3>8, GiftRowsStay DEF Passed, PassedBy
  <2> QED
    BY <2>1, <2>2
<1> QED
  BY <1>1, <1>2 DEF RecalledInTime, Passed

LEMMA NextStampsInWindow ==
  ASSUME IInv, [Next]_vars, TypeOK'
  PROVE  /\ StampsInWindow'
         /\ \A g \in Gifts : gifts'[g].status # "none" => gifts'[g].recallableTime # Null
<1> USE DEF IInv
<1>1. CASE UNCHANGED gifts
  BY <1>1 DEF StampsInWindow
<1>2. ASSUME NEW a \in Addresses, NEW h \in Gifts, SendGift(h, a), NEW g \in Gifts
      PROVE  /\ gifts'[g].openedAt # Null => gifts'[g].openedAt < gifts'[g].recallableTime
             /\ gifts'[g].recalledAt # Null =>
                   gifts'[g].recalledAt >= gifts'[g].recallableTime
             /\ gifts'[g].status # "none" => gifts'[g].recallableTime # Null
  <2>1. CASE g # h
    BY <1>2, <2>1 DEF SendGift, TypeOK, StampsInWindow
  <2>2. CASE g = h
    <3>1. /\ gifts'[g].openedAt = Null /\ gifts'[g].recalledAt = Null
          /\ gifts'[g].recallableTime = now + GiftRecallableAfter
      BY <1>2, <2>2 DEF SendGift, TypeOK
    <3> QED
      BY <3>1, NotesAssumption DEF TypeOK, Null
  <2> QED
    BY <2>1, <2>2
<1>3. ASSUME NEW r \in Requests, WriteGift(r), NEW g \in Gifts
      PROVE  /\ gifts'[g].openedAt # Null => gifts'[g].openedAt < gifts'[g].recallableTime
             /\ gifts'[g].recalledAt # Null =>
                   gifts'[g].recalledAt >= gifts'[g].recallableTime
             /\ gifts'[g].status # "none" => gifts'[g].recallableTime # Null
  <2>1. CASE g # req[r].gift
    BY <1>3, <2>1 DEF WriteGift, TypeOK, StampsInWindow
  <2>2. CASE g = req[r].gift
    <3>1. gifts'[g] = Overwrite(gifts[g], req[r].entity, req[r].dirty)
          /\ gifts[g] \in GiftRow
      BY <1>3, <2>2 DEF WriteGift, TypeOK
    <3>2. /\ gifts[g].status # "none"
          /\ req[r].entity.openedAt # Null =>
                req[r].entity.openedAt < gifts[g].recallableTime
          /\ req[r].entity.recalledAt # Null =>
                req[r].entity.recalledAt >= gifts[g].recallableTime
      BY <1>3, <2>2 DEF GiftInHand, GiftSteps, WriteGift
    <3> QED
      BY <3>1, <3>2 DEF StampsInWindow, Overwrite, GiftRow
  <2> QED
    BY <2>1, <2>2
<1> QED
  BY <1>1, <1>2, <1>3, GiftWriters DEF StampsInWindow

LEMMA NextIInv == IInv /\ [Next]_vars => IInv'
<1> SUFFICES ASSUME IInv, [Next]_vars PROVE IInv'
  OBVIOUS
<1>1. TypeOK'
  BY NextKeepsTypes DEF IInv
<1> QED
  BY <1>1, HandsKept, NextRecalledInTime, NextStampsInWindow DEF IInv

LEMMA Inductive == Spec => []IInv
  BY InitIInv, NextIInv, PTL DEF Spec

-----------------------------------------------------------------------------
(* The theorems. *)

(* The tables and the requests in flight keep their types. *)
THEOREM TypeCorrect == Spec => []TypeOK
<1>1. IInv => TypeOK
  BY DEF IInv
<1> QED
  BY <1>1, Inductive, PTL

(* A recalled note was recallable and its time had passed, though the check *)
(* and the write are queries apart (recallTransactions, recallGift,         *)
(* openGift).                                                               *)
THEOREM NothingRecalledEarly == Spec => []RecalledInTime
<1>1. IInv => RecalledInTime
  BY DEF IInv
<1> QED
  BY <1>1, Inductive, PTL

(* openedAt lies before the recall time and recalledAt does not, on a gift  *)
(* that racing saves (updateOne) left with both stamps too.                 *)
THEOREM StampsStayInWindow == Spec => []StampsInWindow
<1>1. IInv => StampsInWindow
  BY DEF IInv
<1> QED
  BY <1>1, Inductive, PTL

(* A transaction is settled at most once: consumeTransactions and           *)
(* recallTransactions implement the abstract note, however they interleave. *)
THEOREM TransactionsSettleOnce == Spec => TxSpec
<1> DEFINE st == [t \in Txs |-> txs[t].status]
<1>1. Init => TxLifecycle!Init
  BY DEF Init, TxLifecycle!Init, NoTx
<1>2. TypeOK /\ [Next]_vars => [TxLifecycle!Next]_st
  <2> SUFFICES ASSUME TypeOK, [Next]_vars PROVE [TxLifecycle!Next]_st
    OBVIOUS
  <2>1. CASE UNCHANGED txs
    BY <2>1
  <2>2. ASSUME NEW a \in Addresses, NEW batch \in Batches, SendBatch(a, batch)
        PROVE  TxLifecycle!Next
    <3> DEFINE S == {t \in Txs : t \in DOMAIN batch /\ Stored(batch[t])}
    <3>1. \A t \in S : st[t] = "none"
      BY <2>2 DEF SendBatch
    <3>2. st' = [t \in Txs |-> IF t \in S THEN "pending" ELSE st[t]]
      BY <2>2 DEF SendBatch
    <3>3. TxLifecycle!Issue(S)
      BY <3>1, <3>2 DEF TxLifecycle!Issue
    <3>4. S \in SUBSET Txs
      OBVIOUS
    <3> HIDE DEF S
    <3> QED
      BY <3>3, <3>4 DEF TxLifecycle!Next
  <2>3. ASSUME NEW ids, NEW outcome \in {"recalled", "consumed"},
               UpdatePending(ids, outcome)
        PROVE  TxLifecycle!Next
    <3> DEFINE S == {t \in Txs : t \in ids /\ txs[t].status = "pending"}
    <3>1. \A t \in S : st[t] = "pending"
      OBVIOUS
    <3>2. st' = [t \in Txs |-> IF t \in S THEN outcome ELSE st[t]]
      BY <2>3 DEF UpdatePending, TypeOK, TxRow
    <3>3. TxLifecycle!Settle(S, outcome)
      BY <3>1, <3>2 DEF TxLifecycle!Settle
    <3>4. S \in SUBSET Txs
      OBVIOUS
    <3> HIDE DEF S
    <3> QED
      BY <3>3, <3>4 DEF TxLifecycle!Next
  <2> QED
    BY <2>1, <2>2, <2>3, TxWriters DEF ConsumeUpdate, RecallUpdate
<1> QED
  BY <1>1, <1>2, TypeCorrect, PTL DEF Spec, TxSpec, TxLifecycle!Spec

(* Until the recall time an opened gift stays opened: a request that would  *)
(* overwrite "consumed" has seen the time pass.                             *)
THEOREM OpenedStaysUntilRecallTime == Spec => OpenedUntilRecallTime
<1>1. ASSUME IInv, [Next]_vars, NEW g \in Gifts, gifts[g].status = "consumed",
             ~Passed(gifts[g].recallableTime)
      PROVE  gifts'[g].status = "consumed"
  <2>1. ASSUME NEW a \in Addresses, NEW h \in Gifts, SendGift(h, a)
        PROVE  gifts'[g] = gifts[g]
    BY <1>1, <2>1 DEF SendGift, IInv, TypeOK
  <2>2. ASSUME NEW r \in Requests, WriteGift(r), req[r].gift = g
        PROVE  gifts'[g].status = "consumed"
    <3>1. gifts'[g] = Overwrite(gifts[g], req[r].entity, req[r].dirty)
          /\ gifts[g] \in GiftRow /\ req[r] \in RequestState
      BY <1>1, <2>2 DEF WriteGift, IInv, TypeOK
    <3>2. req[r].entity.status = "consumed"
      BY <1>1, <2>2, <3>1 DEF IInv, GiftInHand, GiftSteps, WriteGift, RequestState
    <3> QED
      BY <1>1, <3>1, <3>2 DEF Overwrite, GiftRow
  <2>3. ASSUME NEW r \in Requests, WriteGift(r), req[r].gift # g
        PROVE  gifts'[g] = gifts[g]
    BY <1>1, <2>3 DEF WriteGift, IInv, TypeOK
  <2> QED
    BY <1>1, <2>1, <2>2, <2>3, GiftWriters
<1>2. IInv /\ [Next]_vars =>
        [\A g \in Gifts : gifts[g].status = "consumed" /\ ~Passed(gifts[g].recallableTime)
                             => gifts'[g].status = "consumed"]_vars
  BY <1>1
<1> QED
  BY <1>2, Inductive, PTL DEF Spec, OpenedUntilRecallTime

(* A settled gift that no request in flight has taken on keeps its row.     *)
THEOREM SettledGiftsStay == Spec => SettledGiftIsFinal
<1>1. ASSUME IInv, [Next]_vars, NEW g \in Gifts, SettledForGood(g)
      PROVE  gifts'[g] = gifts[g]
  <2>1. ASSUME NEW a \in Addresses, NEW h \in Gifts, SendGift(h, a)
        PROVE  gifts'[g] = gifts[g]
    BY <1>1, <2>1 DEF SendGift, IInv, TypeOK, SettledForGood
  <2>2. ASSUME NEW r \in Requests, WriteGift(r)
        PROVE  gifts'[g] = gifts[g]
    BY <1>1, <2>2 DEF WriteGift, IInv, TypeOK, SettledForGood, HoldsGift
  <2> QED
    BY <1>1, <2>1, <2>2, GiftWriters
<1>2. ASSUME IInv, [Next]_vars, NEW g \in Gifts, SettledForGood(g), NEW r \in Requests
      PROVE  req'[r].gift # g
  <2>1. /\ gifts[g].status # "pending" /\ req[r].gift # g
        /\ TypeOK /\ req[r] \in RequestState /\ g # None
    BY <1>2, NotesAssumption DEF SettledForGood, HoldsGift, IInv, TypeOK
  <2>2. CASE req'[r] = req[r]
    BY <2>1, <2>2
  <2>3. Idle.gift = None /\ \A i : Without(r, i).gift = None
    BY AfterWithout DEF Idle
  <2>4. CASE LetsGo(r)
    BY <2>1, <2>3, <2>4, AfterLetsGo
  <2>5. ASSUME NEW a, NEW x, ConsumeFind(r, a, x) \/ RecallBatch(r, a, x)
        PROVE  req'[r].gift = None
    <3>1. \/ req'[r] = [Idle EXCEPT !.at = "consume.update", !.wallet = a, !.ids = x]
          \/ req'[r] = [Idle EXCEPT !.at = "batch", !.wallet = a, !.todo = x]
      BY <2>1, <2>5, Becomes DEF ConsumeFind, RecallBatch
    <3> QED
      BY <3>1 DEF Idle
  <2>6. ASSUME NEW t \in Txs, RecallFind(r, t)
        PROVE  req'[r].gift # g
    <3>1. \/ req'[r] = [req[r] EXCEPT !.at = "recall.update", !.ids = {t}]
          \/ req'[r] = Without(r, t)
      BY <2>1, <2>6, Becomes DEF RecallFind
    <3> QED
      BY <2>1, <2>3, <3>1 DEF RequestState
  <2>7. ASSUME NEW h \in Gifts, OpenGift(r, h) \/ RecallGift(r, h)
        PROVE  req'[r].gift # g
    <3>1. CASE gifts[h].status = "pending"
      <4>1. ASSUME NEW st \in RequestState, NEW outcome, UpdateOne(r, st, h, outcome)
            PROVE  req'[r].gift = h
        <5>1. req'[r] = [st EXCEPT !.at = "gift.load", !.gift = h,
                                   !.outcome = outcome, !.stamp = now]
          BY <2>1, <4>1, Becomes DEF UpdateOne
        <5> QED
          BY <5>1 DEF RequestState
      <4>2. req'[r].gift = h \/ req'[r] = Without(r, h)
        BY <2>1, <2>7, <4>1, IdleType, Becomes DEF OpenGift, RecallGift
      <4> QED
        BY <2>1, <2>3, <3>1, <4>2
    <3>2. CASE gifts[h].status # "pending"
      <4>1. req'[r] = Without(r, h)
        BY <2>1, <2>7, <3>2, Becomes DEF OpenGift, RecallGift
      <4> QED
        BY <2>1, <2>3, <4>1
    <3> QED
      BY <3>1, <3>2
  <2>8. ASSUME LoadGift(r) \/ CompareGift(r)
        PROVE  req'[r].gift # g
    <3>1. \/ \E e : req'[r] = [req[r] EXCEPT !.at = "gift.compare", !.entity = e]
          \/ \E d : req'[r] = [req[r] EXCEPT !.at = "gift.write", !.dirty = d]
      BY <2>1, <2>8, Becomes DEF LoadGift, CompareGift
    <3> QED
      BY <2>1, <3>1 DEF RequestState
  <2> QED
    BY <1>2, <2>1, <2>2, <2>4, <2>5, <2>6, <2>7, <2>8, ReqSteps DEF Begins, Moves
<1>3. ASSUME IInv, [Next]_vars, NEW g \in Gifts, SettledForGood(g)
      PROVE  SettledForGood(g)' /\ gifts'[g] = gifts[g]
  BY <1>1, <1>2, <1>3 DEF SettledForGood, HoldsGift
<1>4. IInv /\ [Next]_vars =>
        [\A g \in Gifts : SettledForGood(g) =>
           SettledForGood(g)' /\ gifts'[g] = gifts[g]]_vars
  BY <1>3
<1> QED
  BY <1>4, Inductive, PTL DEF Spec, SettledGiftIsFinal

-----------------------------------------------------------------------------
(* Batches. *)

LEMMA ReqMoves ==
  ASSUME TypeOK, [Next]_vars, NEW r \in Requests
  PROVE  req'[r] = req[r] \/ Start(r) \/ Advance(r) \/ FailItem(r) \/ Abort(r)
<1>1. ASSUME NEW q \in Requests, q # r,
             Start(q) \/ Advance(q) \/ FailItem(q) \/ Abort(q)
      PROVE  req'[r] = req[r]
  BY <1>1, OthersStay DEF Start, Advance, FailItem, ItemFails, Abort, Finish, UpdateOne,
     ConsumeFind, ConsumeUpdate, RecallBatch, BatchDone, RecallFind, RecallUpdate,
     OpenGift, RecallGift, LoadGift, CompareGift, WriteGift
<1>2. CASE Tick \/ Send \/ UNCHANGED vars
  BY <1>2 DEF Tick, Send, SendBatch, SendGift, vars
<1> QED
  BY <1>1, <1>2 DEF Next, Serve

(* What an Advance of r leaves of its batch. *)
LEMMA AdvanceBatch ==
  ASSUME IInv, NEW r \in Requests, BatchInHand(r), Advance(r)
  PROVE  \/ /\ req[r].at = "consume.update" /\ req[r].todo = {} /\ req'[r] = Idle
         \/ /\ req[r].at = "batch" /\ req[r].todo = {} /\ req'[r] = Idle
         \/ \E t \in Txs :
              /\ req[r].at = "batch" /\ t \in req[r].todo
              /\ CanRecall(req[r].wallet, t) /\ UNCHANGED gifts
              /\ req'[r].at = "recall.update" /\ req'[r].ids = {t}
              /\ req'[r].todo = req[r].todo /\ req'[r].wallet = req[r].wallet
         \/ \E t \in Txs :
              /\ req[r].at = "batch" /\ t \in req[r].todo
              /\ ~CanRecall(req[r].wallet, t)
              /\ req'[r] = Without(r, t)
         \/ \E t \in Txs :
              /\ req[r].at = "recall.update" /\ req[r].ids = {t}
              /\ UpdatePending({t}, "recalled") /\ req'[r] = Without(r, t)
         \/ \E g \in Gifts :
              /\ req[r].at = "batch" /\ g \in req[r].todo
              /\ req'[r].at = "gift.load" /\ req'[r].gift = g
              /\ req'[r].todo = req[r].todo /\ req'[r].wallet = req[r].wallet
         \/ \E g \in Gifts :
              /\ req[r].at = "batch" /\ g \in req[r].todo
              /\ ~(gifts[g].status = "pending" /\ Passed(gifts[g].recallableTime))
              /\ req'[r] = Without(r, g)
         \/ /\ req[r].at = "gift.load" /\ req'[r].at = "gift.compare"
            /\ req'[r].gift = req[r].gift
            /\ req'[r].todo = req[r].todo /\ req'[r].wallet = req[r].wallet
         \/ /\ req[r].at = "gift.compare" /\ req'[r].at = "gift.write"
            /\ req'[r].gift = req[r].gift
            /\ req'[r].todo = req[r].todo /\ req'[r].wallet = req[r].wallet
            /\ UNCHANGED gifts
            /\ gifts[req[r].gift].status = "pending" => "status" \in req'[r].dirty
         \/ /\ req[r].at = "gift.write" /\ WriteGift(r)
            /\ \/ /\ req[r].gift \in req[r].todo
                  /\ req'[r] = Without(r, req[r].gift)
               \/ req[r].todo = {} /\ req'[r] = Idle
<1>a. TypeOK /\ req[r] \in RequestState /\ GiftInHand(r)
  BY DEF IInv, TypeOK
<1>b. ASSUME NEW st, Become(r, st) PROVE req'[r] = st
  BY <1>a, <1>b, Becomes
<1>1. CASE ConsumeUpdate(r)
  <2>1. req[r].at = "consume.update" /\ req'[r] = Idle
    BY <1>1, <1>b DEF ConsumeUpdate, Finish
  <2>2. req[r].todo = {}
    BY <2>1 DEF BatchInHand, GiftSteps
  <2> QED
    BY <2>1, <2>2
<1>2. CASE BatchDone(r)
  <2>1. req[r].at = "batch" /\ req[r].todo = {} /\ req'[r] = Idle
    BY <1>2, <1>b DEF BatchDone, Finish
  <2> QED
    BY <2>1
<1>3. ASSUME NEW t \in Txs, RecallFind(r, t)
      PROVE  /\ req[r].at = "batch" /\ t \in req[r].todo /\ UNCHANGED gifts
             /\ \/ /\ CanRecall(req[r].wallet, t)
                   /\ req'[r].at = "recall.update" /\ req'[r].ids = {t}
                   /\ req'[r].todo = req[r].todo /\ req'[r].wallet = req[r].wallet
                \/ ~CanRecall(req[r].wallet, t) /\ req'[r] = Without(r, t)
  <2>1. req[r].at = "batch" /\ t \in req[r].todo /\ UNCHANGED gifts
    BY <1>3 DEF RecallFind
  <2>2. \/ /\ CanRecall(req[r].wallet, t)
           /\ req'[r] = [req[r] EXCEPT !.at = "recall.update", !.ids = {t}]
        \/ ~CanRecall(req[r].wallet, t) /\ req'[r] = Without(r, t)
    BY <1>3, <1>b DEF RecallFind
  <2>3. ASSUME req'[r] = [req[r] EXCEPT !.at = "recall.update", !.ids = {t}]
        PROVE  /\ req'[r].at = "recall.update" /\ req'[r].ids = {t}
               /\ req'[r].todo = req[r].todo /\ req'[r].wallet = req[r].wallet
    BY <1>a, <2>3 DEF RequestState
  <2> QED
    BY <2>1, <2>2, <2>3
<1>4. ASSUME NEW t \in Txs, RecallUpdate(r, t)
      PROVE  /\ req[r].at = "recall.update" /\ req[r].ids = {t}
             /\ UpdatePending({t}, "recalled") /\ req'[r] = Without(r, t)
  BY <1>4, <1>b DEF RecallUpdate
<1>5. ASSUME NEW g \in Gifts, RecallGift(r, g)
      PROVE  /\ req[r].at = "batch" /\ g \in req[r].todo
             /\ \/ /\ req'[r].at = "gift.load" /\ req'[r].gift = g
                   /\ req'[r].todo = req[r].todo /\ req'[r].wallet = req[r].wallet
                \/ /\ ~(gifts[g].status = "pending" /\ Passed(gifts[g].recallableTime))
                   /\ req'[r] = Without(r, g)
  <2>1. req[r].at = "batch" /\ g \in req[r].todo
    BY <1>5 DEF RecallGift
  <2>2. \/ req'[r] = [req[r] EXCEPT !.at = "gift.load", !.gift = g,
                                    !.outcome = "recalled", !.stamp = now]
        \/ /\ ~(gifts[g].status = "pending" /\ Passed(gifts[g].recallableTime))
           /\ req'[r] = Without(r, g)
    BY <1>5, <1>b DEF RecallGift, UpdateOne
  <2>3. ASSUME req'[r] = [req[r] EXCEPT !.at = "gift.load", !.gift = g,
                                        !.outcome = "recalled", !.stamp = now]
        PROVE  /\ req'[r].at = "gift.load" /\ req'[r].gift = g
               /\ req'[r].todo = req[r].todo /\ req'[r].wallet = req[r].wallet
    BY <1>a, <2>3 DEF RequestState
  <2> QED
    BY <2>1, <2>2, <2>3
<1>6. CASE LoadGift(r)
  <2>1. req[r].at = "gift.load"
    BY <1>6 DEF LoadGift
  <2>2. PICK e : req'[r] = [req[r] EXCEPT !.at = "gift.compare", !.entity = e]
    BY <1>6, <1>b, Zenon DEF LoadGift
  <2>3. /\ req'[r].at = "gift.compare" /\ req'[r].gift = req[r].gift
        /\ req'[r].todo = req[r].todo /\ req'[r].wallet = req[r].wallet
    BY <1>a, <2>2 DEF RequestState
  <2> QED
    BY <2>1, <2>3
<1>7. CASE CompareGift(r)
  <2>1. req[r].at = "gift.compare" /\ UNCHANGED gifts
    BY <1>7 DEF CompareGift
  <2>2. req[r].entity.status \in {"recalled", "consumed"}
    BY <1>a, <2>1 DEF GiftInHand, GiftSteps, RequestState
  <2> DEFINE d == {c \in {"status", "openedAt", "recalledAt"} :
                     \/ c = "status" /\ gifts[req[r].gift].status # req[r].entity.status
                     \/ c = "openedAt"
                        /\ gifts[req[r].gift].openedAt # req[r].entity.openedAt
                     \/ c = "recalledAt"
                        /\ gifts[req[r].gift].recalledAt # req[r].entity.recalledAt}
  <2>3. req'[r] = [req[r] EXCEPT !.at = "gift.write", !.dirty = d]
    BY <1>7, <1>b DEF CompareGift
  <2>4. gifts[req[r].gift].status = "pending" => "status" \in d
    BY <2>2
  <2> HIDE DEF d
  <2>5. /\ req'[r].at = "gift.write" /\ req'[r].gift = req[r].gift
        /\ req'[r].todo = req[r].todo /\ req'[r].wallet = req[r].wallet
        /\ req'[r].dirty = d
    BY <1>a, <2>3 DEF RequestState
  <2> QED
    BY <2>1, <2>4, <2>5
<1>8. CASE WriteGift(r)
  <2>1. req[r].at = "gift.write"
    BY <1>8 DEF WriteGift
  <2>2. \/ req[r].gift \in req[r].todo /\ req'[r] = Without(r, req[r].gift)
        \/ req[r].gift \notin req[r].todo /\ req'[r] = Idle
    BY <1>8, <1>b DEF WriteGift, Finish
  <2>3. req[r].gift \notin req[r].todo => req[r].todo = {}
    BY <2>1 DEF BatchInHand, GiftSteps
  <2> QED
    BY <1>8, <2>1, <2>2, <2>3
<1> QED
  BY <1>1, <1>2, <1>3, <1>4, <1>5, <1>6, <1>7, <1>8, Zenon DEF Advance

(* A pending gift that exists was pending before: nothing sets it back. *)
LEMMA PendingBefore ==
  ASSUME IInv, [Next]_vars, NEW g \in Gifts, gifts[g].status # "none",
         gifts'[g].status = "pending"
  PROVE  gifts[g].status = "pending"
<1>1. ASSUME NEW a \in Addresses, NEW h \in Gifts, SendGift(h, a)
      PROVE  gifts'[g] = gifts[g]
  BY <1>1 DEF SendGift, IInv, TypeOK
<1>2. ASSUME NEW r \in Requests, WriteGift(r)
      PROVE  gifts[g].status = "pending"
  <2>1. req[r].gift \in Gifts /\ req[r].entity.status # "pending"
    BY <1>2 DEF IInv, TypeOK, GiftInHand, GiftSteps, WriteGift, RequestState
  <2>2. \/ gifts'[g] = gifts[g]
        \/ gifts'[g] = Overwrite(gifts[g], req[r].entity, req[r].dirty)
    BY <1>2, <2>1 DEF WriteGift, IInv, TypeOK
  <2>3. gifts[g] \in GiftRow
    BY DEF IInv, TypeOK
  <2> QED
    BY <2>1, <2>2, <2>3 DEF Overwrite, GiftRow
<1> QED
  BY <1>1, <1>2, GiftWriters

(* What a request is left with when it starts. *)
LEMMA StartBatch ==
  ASSUME TypeOK, NEW r \in Requests, Start(r)
  PROVE  /\ req[r].at = "idle"
         /\ req'[r].at \in {"consume.update", "batch", "gift.load"}
         /\ req'[r].todo # {} => req'[r].at = "batch"
<1>a. \A st : Become(r, st) => req'[r] = st
  BY Becomes
<1>1. ASSUME NEW a, NEW x, ConsumeFind(r, a, x) \/ RecallBatch(r, a, x)
      PROVE  /\ req[r].at = "idle"
             /\ \/ req'[r].at = "consume.update" /\ req'[r].todo = {}
                \/ req'[r].at = "batch"
  <2>1. \/ req'[r] = [Idle EXCEPT !.at = "consume.update", !.wallet = a, !.ids = x]
        \/ req'[r] = [Idle EXCEPT !.at = "batch", !.wallet = a, !.todo = x]
    BY <1>1, <1>a DEF ConsumeFind, RecallBatch
  <2> QED
    BY <1>1, <2>1 DEF Idle, ConsumeFind, RecallBatch
<1>2. ASSUME NEW g \in Gifts, OpenGift(r, g)
      PROVE  req[r].at = "idle" /\ req'[r].at = "gift.load" /\ req'[r].todo = {}
  <2>1. PICK outcome : req'[r] = [Idle EXCEPT !.at = "gift.load", !.gift = g,
                                              !.outcome = outcome, !.stamp = now]
    BY <1>2, <1>a DEF OpenGift, UpdateOne
  <2> QED
    BY <1>2, <2>1 DEF Idle, OpenGift
<1> QED
  BY <1>1, <1>2 DEF Start

LEMMA BatchesInHandStep ==
  ASSUME IInv, BatchesInHand, [Next]_vars
  PROVE  BatchesInHand'
<1> SUFFICES ASSUME NEW r \in Requests
             PROVE  BatchInHand(r)'
  BY DEF BatchesInHand
<1>a. TypeOK /\ BatchInHand(r) /\ GiftInHand(r) /\ req[r] \in RequestState
  BY DEF IInv, BatchesInHand, TypeOK
<1>b. Idle.todo = {} /\ Idle.at = "idle"
  BY DEF Idle
<1> USE DEF GiftSteps
<1>1. CASE req'[r] = req[r]
  <2>1. ASSUME req[r].at = "gift.write", gifts'[req[r].gift].status = "pending"
        PROVE  gifts[req[r].gift].status = "pending"
    <3>1. req[r].gift \in Gifts /\ gifts[req[r].gift].status # "none"
      BY <1>a, <2>1 DEF GiftInHand
    <3> QED
      BY <2>1, <3>1, PendingBefore
  <2> QED
    BY <1>1, <1>a, <2>1 DEF BatchInHand
<1>2. CASE Start(r)
  BY <1>2, <1>a, StartBatch DEF BatchInHand
<1>3. CASE Abort(r)
  <2>1. req'[r] = Idle
    BY <1>3, <1>a, Becomes DEF Abort, Finish
  <2> QED
    BY <1>b, <2>1 DEF BatchInHand
<1>4. ASSUME LetsGo(r)
      PROVE  BatchInHand(r)'
  BY <1>4, <1>b, AfterLetsGo DEF BatchInHand
<1>5. ASSUME req[r].at \in {"gift.load", "gift.compare"},
             req'[r].at \in {"gift.compare", "gift.write"},
             req'[r].gift = req[r].gift, req'[r].todo = req[r].todo,
             req'[r].at = "gift.write" => /\ UNCHANGED gifts
                                          /\ gifts[req[r].gift].status = "pending"
                                                => "status" \in req'[r].dirty
      PROVE  BatchInHand(r)'
  BY <1>5, <1>a DEF BatchInHand
<1>6. ASSUME NEW g, g \in req[r].todo, req'[r].todo = req[r].todo,
             \/ req'[r].at = "recall.update" /\ req'[r].ids = {g}
             \/ req'[r].at = "gift.load" /\ req'[r].gift = g
      PROVE  BatchInHand(r)'
  BY <1>6 DEF BatchInHand
<1>7. CASE Advance(r)
  BY <1>a, <1>4, <1>5, <1>6, <1>7, AdvanceBatch DEF LetsGo
<1>8. CASE FailItem(r)
  BY <1>4, <1>8, <1>a, Becomes DEF FailItem, ItemFails, LetsGo
<1> QED
  BY <1>1, <1>2, <1>3, <1>7, <1>8, <1>a, ReqMoves

LEMMA BatchesKept == Spec => []BatchesInHand
<1>1. Init => BatchesInHand
  BY DEF Init, BatchesInHand, BatchInHand, Idle
<1>2. IInv /\ BatchesInHand /\ [Next]_vars => BatchesInHand'
  BY BatchesInHandStep
<1> QED
  BY <1>1, <1>2, Inductive, PTL DEF Spec

(* An item that can be recalled, can be until it is settled. *)
LEMMA RecallableStays ==
  ASSUME IInv, IInv', [Next]_vars, NEW t \in Txs, NEW a, CanRecall(a, t)
  PROVE  \/ /\ txs'[t].status = "pending" /\ txs'[t].sender = a /\ txs'[t].recallable
            /\ PassedBy(txs'[t].recallableTime, now')
         \/ IsSettled(t)'
<1>1. /\ txs[t].status = "pending" /\ txs[t].sender = a /\ txs[t].recallable
      /\ PassedBy(txs[t].recallableTime, now) /\ txs[t].recallableTime \in Nat
  BY DEF CanRecall, IInv, TypeOK, TxRow, Passed
<1>2. PassedBy(txs[t].recallableTime, now')
  BY <1>1, PassedStays DEF IInv
<1>3. txs'[t].status \in Status \ {"none"}
  BY <1>1, TxRowsStay DEF IInv, TypeOK, TxRow
<1>4. /\ txs'[t].sender = a /\ txs'[t].recallable
      /\ txs'[t].recallableTime = txs[t].recallableTime
  BY <1>1, TxRowsStay DEF IInv
<1> QED
  BY <1>2, <1>3, <1>4 DEF IsSettled, Status

LEMMA PendingGiftStays ==
  ASSUME IInv, IInv', [Next]_vars, NEW g \in Gifts,
         gifts[g].status = "pending", Passed(gifts[g].recallableTime)
  PROVE  \/ /\ gifts'[g].status = "pending"
            /\ gifts'[g].recallableTime = gifts[g].recallableTime
            /\ PassedBy(gifts'[g].recallableTime, now')
         \/ IsSettled(g)'
<1>1. PassedBy(gifts[g].recallableTime, now) /\ gifts[g].recallableTime \in Nat
  BY DEF IInv, TypeOK, GiftRow, Passed
<1>2. PassedBy(gifts[g].recallableTime, now')
  BY <1>1, PassedStays DEF IInv
<1>3. gifts'[g].status \in Status \ {"none"}
  BY GiftRowsStay DEF IInv, TypeOK, GiftRow
<1>4. gifts'[g].recallableTime = gifts[g].recallableTime
  BY GiftRowsStay
<1> QED
  BY <1>2, <1>3, <1>4 DEF IsSettled, Status

(* A batch parts with an item that can be recalled when it is settled, or   *)
(* when a query of that very item rejects.                                  *)
LEMMA ItemKept ==
  ASSUME IInv, IInv', BatchesInHand, [Next]_vars, NEW r \in Requests,
         NEW n \in Txs \cup Gifts, InBatch(r, n)
  PROVE  InBatch(r, n)' \/ IsSettled(n)' \/ n \in req'[r].rejected \/ Abort(r)
<1> SUFFICES ASSUME ~Abort(r), ~IsSettled(n)', n \notin req'[r].rejected
             PROVE  InBatch(r, n)'
  OBVIOUS
<1>a. TypeOK /\ BatchInHand(r) /\ GiftInHand(r) /\ req[r] \in RequestState
      /\ Txs \cap Gifts = {}
  BY NotesAssumption DEF IInv, BatchesInHand, TypeOK
<1>b. n \in req[r].todo
  BY DEF InBatch
<1>1. n \in req'[r].todo /\ req'[r].wallet = req[r].wallet
  <2>1. CASE req'[r] = req[r]
    BY <1>b, <2>1
  <2>2. CASE Start(r)
    <3>1. req[r].at = "idle"
      BY <1>a, <2>2, StartBatch
    <3> QED
      BY <1>a, <1>b, <3>1 DEF BatchInHand, GiftSteps
  <2>3. ASSUME NEW i, i # n, req'[r] = Without(r, i) \/ req'[r] = WithError(r, i)
        PROVE  n \in req'[r].todo /\ req'[r].wallet = req[r].wallet
    BY <1>b, <2>3, AfterWithout
  <2>4. ASSUME NEW t \in Txs, ~CanRecall(req[r].wallet, t) PROVE t # n
    BY <1>a, <2>4 DEF InBatch
  <2>5. ASSUME NEW t \in Txs, UpdatePending({t}, "recalled") PROVE t # n
    <3>1. ASSUME t = n PROVE FALSE
      <4>1. txs[n].status = "pending" /\ n \in Txs
        BY <1>a, <2>5, <3>1 DEF InBatch, CanRecall
      <4>2. txs'[n].status = "recalled"
        BY <1>a, <2>5, <3>1, <4>1 DEF UpdatePending, TypeOK, TxRow
      <4> QED
        BY <4>1, <4>2 DEF IsSettled
    <3> QED
      BY <3>1
  <2>6. ASSUME NEW g \in Gifts,
               ~(gifts[g].status = "pending" /\ Passed(gifts[g].recallableTime))
        PROVE  g # n
    BY <1>a, <2>6 DEF InBatch
  <2>7. ASSUME req[r].at = "gift.write", WriteGift(r) PROVE req[r].gift # n
    <3>1. ASSUME req[r].gift = n PROVE FALSE
      <4>1. n \in Gifts /\ req[r].entity.status \in {"recalled", "consumed"}
        BY <1>a, <2>7, <3>1 DEF GiftInHand, GiftSteps, RequestState
      <4>2. gifts[n].status = "pending" /\ gifts[n] \in GiftRow
        BY <1>a, <4>1 DEF InBatch, TypeOK
      <4>3. "status" \in req[r].dirty
        BY <1>a, <2>7, <3>1, <4>2 DEF BatchInHand
      <4>4. gifts'[n] = Overwrite(gifts[n], req[r].entity, req[r].dirty)
        BY <1>a, <2>7, <3>1, <4>1 DEF WriteGift, TypeOK
      <4>5. gifts'[n].status = req[r].entity.status
        BY <4>2, <4>3, <4>4 DEF Overwrite, GiftRow
      <4> QED
        BY <4>1, <4>5 DEF IsSettled
    <3> QED
      BY <3>1
  <2>8. CASE Advance(r)
    BY <1>a, <1>b, <2>3, <2>4, <2>5, <2>6, <2>7, <2>8, AdvanceBatch
  <2>9. CASE FailItem(r)
    <3>1. PICK i : req'[r] = WithError(r, i)
      BY <1>a, <2>9, Becomes DEF FailItem, ItemFails
    <3>2. i # n
      BY <3>1, AfterError
    <3> QED
      BY <2>3, <3>1, <3>2
  <2> QED
    BY <1>a, <2>1, <2>2, <2>8, <2>9, ReqMoves
<1>2. CASE n \in Txs /\ CanRecall(req[r].wallet, n)
  BY <1>1, <1>2, RecallableStays DEF InBatch, CanRecall, Passed
<1>3. CASE n \in Gifts /\ gifts[n].status = "pending" /\ Passed(gifts[n].recallableTime)
  BY <1>1, <1>3, PendingGiftStays DEF InBatch, Passed
<1> QED
  BY <1>2, <1>3 DEF InBatch

(* RecallableUntilSettled: what the dashboard lists as recallable to a      *)
(* wallet, recallBatch recalls for it, and no item drops off the lists of   *)
(* getRecallDashboardData until somebody settles it; a batch that goes on   *)
(* parts with an item it could recall only when it is settled or a query of *)
(* that item rejects, however many others fail beside it.                   *)
THEOREM ListedCanBeRecalled == Spec => RecallableUntilSettled
<1>1. ASSUME IInv, IInv', [Next]_vars, NEW a \in Addresses, NEW t \in Txs,
             normalizeAddress[a] = a, t \in RecallableTxs(a)
      PROVE  /\ CanRecall(a, t)' \/ IsSettled(t)'
             /\ t \in RecallableTxs(a)' \/ IsSettled(t)'
  <2>1. CanRecall(a, t)
    BY <1>1 DEF RecallableTxs, CanRecall
  <2> QED
    BY <1>1, <2>1, RecallableStays DEF RecallableTxs, CanRecall, Passed
<1>2. ASSUME IInv, IInv', [Next]_vars, NEW a \in Addresses, NEW g \in RecallableGifts(a)
      PROVE  g \in RecallableGifts(a)' \/ IsSettled(g)'
  <2>1. /\ g \in Gifts /\ gifts[g].status = "pending"
        /\ gifts[g].sender = normalizeAddress[a]
        /\ Passed(gifts[g].recallableTime)
    BY <1>2 DEF RecallableGifts, findRecallableGifts
  <2>2. gifts'[g].sender = gifts[g].sender
    BY <1>2, <2>1, GiftRowsStay
  <2> QED
    BY <1>2, <2>1, <2>2, PendingGiftStays
       DEF RecallableGifts, findRecallableGifts, Passed
<1>3. ASSUME IInv, IInv', [Next]_vars, NEW a \in Addresses, NEW t \in WaitingTxs(a)
      PROVE  t \in RecallableTxs(a)' \cup WaitingTxs(a)' \/ IsSettled(t)'
  <2>1. /\ t \in Txs /\ txs[t].status = "pending"
        /\ txs[t].sender = normalizeAddress[a] /\ txs[t].recallable
    BY <1>3 DEF WaitingTxs
  <2>2. /\ txs'[t].status \in Status \ {"none"}
        /\ txs'[t].sender = normalizeAddress[a] /\ txs'[t].recallable
    BY <1>3, <2>1, TxRowsStay DEF IInv, TypeOK, TxRow
  <2> QED
    BY <2>1, <2>2 DEF WaitingTxs, RecallableTxs, IsSettled, Status
<1>4. \A a \in Addresses : WaitingGifts(a) = {}
  BY DEF WaitingGifts, findRecallableGifts
<1>5. ASSUME IInv, IInv', [Next]_vars, NEW a \in Addresses, normalizeAddress[a] = a
      PROVE  /\ \A t \in RecallableTxs(a) : CanRecall(a, t)' \/ IsSettled(t)'
             /\ \A n \in recallableItems(a) : n \in recallableItems(a)' \/ IsSettled(n)'
             /\ \A n \in waitingToRecallItems(a) :
                   \/ n \in recallableItems(a)' \cup waitingToRecallItems(a)'
                   \/ IsSettled(n)'
  <2>1. RecallableTxs(a) \subseteq Txs
    BY DEF RecallableTxs
  <2> QED
    BY <1>1, <1>2, <1>3, <1>4, <1>5, <2>1 DEF recallableItems, waitingToRecallItems
<1>6. IInv /\ IInv' /\ BatchesInHand /\ [Next]_vars =>
        [/\ \A a \in Addresses : normalizeAddress[a] = a =>
              /\ \A t \in RecallableTxs(a) : CanRecall(a, t)' \/ IsSettled(t)'
              /\ \A n \in recallableItems(a) : n \in recallableItems(a)' \/ IsSettled(n)'
              /\ \A n \in waitingToRecallItems(a) :
                    \/ n \in recallableItems(a)' \cup waitingToRecallItems(a)'
                    \/ IsSettled(n)'
         /\ \A r \in Requests, n \in Txs \cup Gifts :
              InBatch(r, n) => \/ InBatch(r, n)' \/ IsSettled(n)'
                               \/ n \in req'[r].rejected
                               \/ Abort(r)]_vars
  BY <1>5, ItemKept
<1> QED
  BY <1>6, Inductive, BatchesKept, PTL DEF Spec, RecallableUntilSettled

-----------------------------------------------------------------------------
LEMMA Smaller ==
  ASSUME TypeOK, NEW r \in Requests
  PROVE  /\ IsFiniteSet(req[r].todo) /\ Cardinality(req[r].todo) \in Nat
         /\ \A i \in req[r].todo :
              Cardinality(req[r].todo \ {i}) = Cardinality(req[r].todo) - 1
<1>1. req[r].todo \subseteq Txs \cup Gifts
  BY DEF TypeOK, RequestState
<1>2. IsFiniteSet(Txs \cup Gifts)
  BY FiniteAssumption, FS_Union
<1>3. IsFiniteSet(req[r].todo)
  BY <1>1, <1>2, FS_Subset
<1> QED
  BY <1>3, FS_CardinalityType, FS_RemoveElement

LEMMA StepsCounted ==
  ASSUME NEW st \in RequestState
  PROVE  4 * Cardinality(st.todo) + Ahead(st.at) \in Nat
<1>1. IsFiniteSet(Txs \cup Gifts)
  BY FiniteAssumption, FS_Union
<1>2. st.todo \subseteq Txs \cup Gifts /\ st.at \in Steps
  BY DEF RequestState
<1>3. Cardinality(st.todo) \in Nat
  BY <1>1, <1>2, FS_Subset, FS_CardinalityType
<1>4. Ahead(st.at) \in Nat
  BY <1>2 DEF Ahead, Steps, GiftSteps
<1> QED
  BY <1>3, <1>4

(* Every query of a request brings it nearer to its end, answered or not: a *)
(* batch of n items is done after at most 4 n + 4 of them, whatever races   *)
(* it.  With RecallableUntilSettled, this is why BatchSettles holds under   *)
(* LiveSpec.                                                                *)
THEOREM BatchesShrink == Spec => BatchShrinks
<1>1. ASSUME IInv, BatchesInHand, [Next]_vars, NEW r \in Requests,
             Advance(r) \/ FailItem(r)
      PROVE  StepsLeft(r)' < StepsLeft(r)
  <2> DEFINE c == Cardinality(req[r].todo)
             d == Cardinality(req'[r].todo)
  <2>a. TypeOK /\ BatchInHand(r)
    BY <1>1 DEF IInv, BatchesInHand
  <2>b. c \in Nat /\ \A i \in req[r].todo : Cardinality(req[r].todo \ {i}) = c - 1
    BY <2>a, Smaller
  <2>c. Cardinality({}) = 0 /\ Idle.todo = {} /\ Idle.at = "idle"
    BY FS_EmptySet DEF Idle
  <2>1. ASSUME NEW i \in req[r].todo, req'[r] = Without(r, i) \/ req'[r] = WithError(r, i)
        PROVE  d = c - 1 /\ req'[r].at = "batch"
    <3>1. req'[r].todo = req[r].todo \ {i} /\ req'[r].at = "batch"
      BY <2>1, AfterWithout
    <3> QED
      BY <2>b, <3>1
  <2>2. CASE req'[r] = Idle /\ req[r].at \in {"consume.update", "batch", "gift.write"}
    <3>1. StepsLeft(r)' = 0
      BY <2>c, <2>2 DEF StepsLeft, Ahead
    <3>2. Ahead(req[r].at) \in {1, 4}
      BY <2>2 DEF Ahead
    <3> QED
      BY <2>b, <3>1, <3>2 DEF StepsLeft
  <2>3. ASSUME NEW i \in req[r].todo, req'[r] = Without(r, i) \/ req'[r] = WithError(r, i),
               req[r].at \in {"batch", "recall.update"} \cup GiftSteps
        PROVE  StepsLeft(r)' < StepsLeft(r)
    BY <2>b, <2>1, <2>3 DEF StepsLeft, Ahead, GiftSteps
  <2>4. ASSUME req'[r].todo = req[r].todo,
               \/ req[r].at = "batch" /\ req'[r].at \in {"recall.update", "gift.load"}
               \/ req[r].at = "gift.load" /\ req'[r].at = "gift.compare"
               \/ req[r].at = "gift.compare" /\ req'[r].at = "gift.write"
        PROVE  StepsLeft(r)' < StepsLeft(r)
    BY <2>b, <2>4 DEF StepsLeft, Ahead
  <2>5. ASSUME NEW t \in Txs, req[r].at = "recall.update", req[r].ids = {t},
               req'[r] = Without(r, t)
        PROVE  StepsLeft(r)' < StepsLeft(r)
    <3>1. t \in req[r].todo
      BY <2>a, <2>5 DEF BatchInHand
    <3> QED
      BY <2>3, <2>5, <3>1
  <2>6. CASE Advance(r)
    BY <1>1, <2>a, <2>2, <2>3, <2>4, <2>5, <2>6, AdvanceBatch DEF GiftSteps
  <2>7. CASE FailItem(r)
    <3>1. PICK i \in Txs \cup Gifts : ItemFails(r, i)
      BY <2>7 DEF FailItem
    <3>2. i \in req[r].todo /\ req[r].at \in {"batch", "recall.update"} \cup GiftSteps
      BY <3>1 DEF ItemFails
    <3>3. req'[r] = WithError(r, i)
      BY <2>a, <3>1, Becomes DEF ItemFails
    <3> QED
      BY <2>3, <3>2, <3>3
  <2> QED
    BY <1>1, <2>6, <2>7
<1>2. ASSUME IInv, BatchesInHand, [Next]_vars, NEW r \in Requests, req[r].at # "idle"
      PROVE  StepsLeft(r)' <= StepsLeft(r)
  <2>a. TypeOK /\ TypeOK'
    BY <1>2, NextKeepsTypes DEF IInv
  <2>b. req[r] \in RequestState /\ req'[r] \in RequestState
    BY <2>a DEF TypeOK
  <2>c. StepsLeft(r) \in Nat /\ StepsLeft(r)' \in Nat
    BY <2>b, StepsCounted DEF StepsLeft
  <2>1. CASE req'[r] = req[r]
    BY <2>1, <2>c DEF StepsLeft
  <2>2. CASE req'[r] = Idle
    <3>1. Cardinality({}) = 0
      BY FS_EmptySet
    <3>2. StepsLeft(r)' = 0
      BY <2>2, <3>1 DEF StepsLeft, Ahead, Idle
    <3> QED
      BY <3>2, <2>c
  <2>3. CASE Advance(r) \/ FailItem(r)
    <3>1. StepsLeft(r)' < StepsLeft(r)
      BY <1>1, <1>2, <2>3
    <3> QED
      BY <3>1, <2>c
  <2>4. CASE Abort(r)
    BY <2>2, <2>4, <2>a, Becomes DEF Abort, Finish
  <2>5. ~Start(r)
    BY <1>2 DEF Start, ConsumeFind, RecallBatch, OpenGift
  <2> QED
    BY <1>2, <2>a, <2>1, <2>3, <2>4, <2>5, ReqMoves
<1>3. IInv /\ BatchesInHand /\ [Next]_vars =>
        [\A r \in Requests :
           /\ Advance(r) \/ FailItem(r) => StepsLeft(r)' < StepsLeft(r)
           /\ req[r].at # "idle" => StepsLeft(r)' <= StepsLeft(r)]_vars
  BY <1>1, <1>2
<1> QED
  BY <1>3, Inductive, BatchesKept, PTL DEF Spec, BatchShrinks
=============================================================================
