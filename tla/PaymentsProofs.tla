--------------------------- MODULE PaymentsProofs ---------------------------
(* Theorems about Payments for every value of its constants. *)
EXTENDS Payments, CountingLemmas

-----------------------------------------------------------------------------
(* Who writes what. *)

LEMMA OnlyAdvanceWrites ==
  ASSUME NEW c \in Calls, Create(c) \/ Answer(c) \/ Abort(c)
  PROVE  UNCHANGED <<payments, statuses, requests>>
<1>1. CASE Create(c)
  BY <1>1 DEF Create, CreateBy, FindGroup, FindOneGroup, FindDuplicate
<1>2. CASE Answer(c) \/ Abort(c)
  BY <1>2 DEF Answer, FindRequest, Abort
<1> QED
  BY <1>1, <1>2

LEMMA PaymentWriters ==
  ASSUME [Next]_vars
  PROVE  \/ UNCHANGED payments
         \/ \E c \in Calls, p \in PaymentIds : InsertPayment(c, p)
         \/ \E c \in Calls : SavePayment(c)
<1>1. ASSUME NEW c \in Calls, Advance(c)
      PROVE  UNCHANGED payments \/ SavePayment(c)
             \/ \E p \in PaymentIds : InsertPayment(c, p)
  BY <1>1 DEF Advance, InsertGroup, createMemberStatus, createGroupPaymentRequests,
     InsertRequest, AcceptUpdate, DenyUpdate, FindMemberStatus, SaveMember, CheckAllPaid
<1> QED
  BY <1>1, OnlyAdvanceWrites DEF Next, Serve, vars

LEMMA StatusWriters ==
  ASSUME [Next]_vars
  PROVE  \/ UNCHANGED statuses
         \/ \E c \in Calls : createMemberStatus(c) \/ SaveMember(c)
<1>1. ASSUME NEW c \in Calls, Advance(c)
      PROVE  UNCHANGED statuses \/ createMemberStatus(c) \/ SaveMember(c)
  BY <1>1 DEF Advance, InsertGroup, InsertPayment, createGroupPaymentRequests,
     InsertRequest, AcceptUpdate, DenyUpdate, FindMemberStatus, SavePayment, CheckAllPaid
<1> QED
  BY <1>1, OnlyAdvanceWrites DEF Next, Serve, vars

LEMMA RequestWriters ==
  ASSUME [Next]_vars
  PROVE  \/ UNCHANGED requests
         \/ \E c \in Calls : \/ createGroupPaymentRequests(c)
                             \/ AcceptUpdate(c) \/ DenyUpdate(c)
         \/ \E c \in Calls, i \in RequestIds : InsertRequest(c, i)
<1>1. ASSUME NEW c \in Calls, Advance(c)
      PROVE  \/ UNCHANGED requests
             \/ createGroupPaymentRequests(c) \/ AcceptUpdate(c) \/ DenyUpdate(c)
             \/ \E i \in RequestIds : InsertRequest(c, i)
  BY <1>1 DEF Advance, InsertGroup, InsertPayment, createMemberStatus,
     FindMemberStatus, SaveMember, SavePayment, CheckAllPaid
<1> QED
  BY <1>1, OnlyAdvanceWrites DEF Next, Serve, vars

LEMMA Becomes ==
  ASSUME TypeOK, NEW c \in Calls, NEW st, Become(c, st)
  PROVE  call'[c] = st /\ \A d \in Calls \ {c} : call'[d] = call[d]
  BY DEF Become, TypeOK

LEMMA Goes ==
  ASSUME TypeOK, NEW c \in Calls, NEW step \in Steps, Goto(c, step)
  PROVE  /\ call'[c].at = step
         /\ call'[c].who = call[c].who /\ call'[c].payment = call[c].payment
         /\ call'[c].request = call[c].request /\ call'[c].slot = call[c].slot
         /\ \A d \in Calls \ {c} : call'[d] = call[d]
<1>1. call[c] \in CallState
  BY DEF TypeOK
<1>2. call'[c] = [call[c] EXCEPT !.at = step]
  BY Becomes DEF Goto
<1>3. \A d \in Calls \ {c} : call'[d] = call[d]
  BY Becomes DEF Goto
<1> QED
  BY <1>1, <1>2, <1>3 DEF CallState

-----------------------------------------------------------------------------
(* Types. *)

LEMMA ListTypes ==
  /\ NoList \in Lists
  /\ \A list \in Lists : normalized(list) \in Lists
  BY NormalizeAssumption DEF NoList, Lists, normalized, Address

LEMMA IdleType == Idle \in CallState
  BY ListTypes DEF Idle, CallState, Steps, Address

LEMMA InitType == Init => TypeOK
<1>1. NoGroup \in GroupRow
  BY ListTypes DEF NoGroup, GroupRow, Address
<1>2. NoPayment \in PaymentRow /\ NoMember \in MemberRow /\ NoRequest \in RequestRow
  BY DEF NoPayment, NoMember, NoRequest, PaymentRow, MemberRow, RequestRow, Address
<1> QED
  BY <1>1, <1>2, IdleType DEF Init, TypeOK

LEMMA BecomeType ==
  ASSUME TypeOK, NEW c \in Calls, NEW st \in CallState, Become(c, st)
  PROVE  call' \in [Calls -> CallState]
  BY DEF TypeOK, Become

LEMMA FinishType ==
  ASSUME TypeOK, NEW c \in Calls, Finish(c)
  PROVE  call' \in [Calls -> CallState]
  BY IdleType, BecomeType DEF Finish

LEMMA GotoType ==
  ASSUME TypeOK, NEW c \in Calls, NEW step \in Steps, Goto(c, step)
  PROVE  call' \in [Calls -> CallState]
<1>1. [call[c] EXCEPT !.at = step] \in CallState
  BY DEF TypeOK, CallState
<1> QED
  BY <1>1, BecomeType DEF Goto

LEMMA CreateType ==
  ASSUME TypeOK, NEW c \in Calls, Create(c) \/ Answer(c)
  PROVE  TypeOK'
<1>0. \A a \in Addresses : normalizeAddress[a] \in Address
  BY NormalizeAssumption DEF Address
<1>1. ASSUME NEW a \in Addresses, NEW name \in Names, NEW list \in Lists,
             FindGroup(c, a, name, list)
      PROVE  TypeOK'
  <2>1. [Idle EXCEPT !.at = "group.insert", !.who = normalizeAddress[a], !.name = name,
                     !.members = normalized(list)] \in CallState
    BY <1>0, IdleType, ListTypes DEF CallState, Steps
  <2>2. call' \in [Calls -> CallState]
    BY <1>1, <2>1, BecomeType DEF FindGroup
  <2> QED
    BY <1>1, <2>2 DEF FindGroup, TypeOK
<1>2. ASSUME NEW a \in Addresses, NEW g \in GroupIds, NEW share \in Amounts \cup {Zero},
             FindOneGroup(c, a, g, share)
      PROVE  TypeOK'
  <2>1. groups[g].members \in Lists
    BY DEF TypeOK, GroupRow
  <2>2. [Idle EXCEPT !.at = "payment.insert", !.who = normalizeAddress[a],
                     !.members = groups[g].members, !.amount = share] \in CallState
    BY <1>0, <2>1, IdleType DEF CallState, Steps
  <2>3. call' \in [Calls -> CallState]
    BY <1>2, <2>2, BecomeType DEF FindOneGroup
  <2> QED
    BY <1>2, <2>3 DEF FindOneGroup, TypeOK
<1>3. ASSUME NEW a \in Addresses, NEW payee \in Addresses, NEW amount \in Amounts,
             FindDuplicate(c, a, payee, amount)
      PROVE  TypeOK'
  <2>1. [Idle EXCEPT !.at = "request.insert", !.payer = normalizeAddress[a],
                     !.who = normalizeAddress[payee], !.amount = amount] \in CallState
    BY <1>0, IdleType DEF CallState, Steps
  <2>2. call' \in [Calls -> CallState]
    BY <1>3, <2>1, BecomeType DEF FindDuplicate
  <2> QED
    BY <1>3, <2>2 DEF FindDuplicate, TypeOK
<1>4. ASSUME NEW a \in Addresses, NEW i \in RequestIds,
             NEW step \in {"accept.update", "deny.update"}, FindRequest(c, a, i, step)
      PROVE  TypeOK'
  <2>1. requests[i].payment \in PaymentIds \cup {None}
    BY DEF TypeOK, RequestRow
  <2>2. [Idle EXCEPT !.at = step, !.who = normalizeAddress[a], !.request = i,
                     !.payment = requests[i].payment] \in CallState
    BY <1>0, <2>1, IdleType DEF CallState, Steps
  <2>3. call' \in [Calls -> CallState]
    BY <1>4, <2>2, BecomeType DEF FindRequest
  <2> QED
    BY <1>4, <2>3 DEF FindRequest, TypeOK
<1> QED
  BY <1>1, <1>2, <1>3, <1>4 DEF Create, CreateBy, Answer

LEMMA UpdateStatusType ==
  ASSUME TypeOK, NEW c \in Calls, NEW status \in {"accepted", "denied"},
         updateStatus(c, status)
  PROVE  requests' \in [RequestIds -> RequestRow]
<1>1. \A i \in RequestIds : [requests[i] EXCEPT !.status = status] \in RequestRow
  BY DEF TypeOK, RequestRow
<1> QED
  BY <1>1 DEF updateStatus, TypeOK

(* The row SaveMember writes. *)
LEMMA MemberSaved ==
  ASSUME TypeOK, NEW c \in Calls, AnswerInHand(c), MemberInHand(c), SaveMember(c)
  PROVE  statuses' = [q \in PaymentIds |-> [t \in Slots |->
                        IF q = call[c].payment /\ t = call[c].slot
                        THEN [status |-> "paid", member |-> statuses[q][t].member]
                        ELSE statuses[q][t]]]
<1> DEFINE p == call[c].payment
           s == call[c].slot
<1>1. p \in PaymentIds /\ s \in Slots
  BY DEF AnswerInHand, MemberInHand, Paying, SaveMember
<1>2. statuses[p][s] \in MemberRow
  BY <1>1 DEF TypeOK
<1>3. [statuses[p][s] EXCEPT !.status = "paid"]
        = [status |-> "paid", member |-> statuses[p][s].member]
  BY <1>2 DEF MemberRow
<1>4. statuses' = [statuses EXCEPT ![p] =
                     [statuses[p] EXCEPT ![s] = [statuses[p][s] EXCEPT !.status = "paid"]]]
  BY DEF SaveMember
<1>5. statuses \in [PaymentIds -> [Slots -> MemberRow]]
  BY DEF TypeOK
<1> HIDE DEF p, s
<1>6. \A q \in PaymentIds : statuses[q] = [t \in Slots |-> statuses[q][t]]
  BY <1>5
<1>7. [statuses[p] EXCEPT ![s] = [statuses[p][s] EXCEPT !.status = "paid"]]
        = [t \in Slots |-> IF t = s
                           THEN [status |-> "paid", member |-> statuses[p][s].member]
                           ELSE statuses[p][t]]
  BY <1>1, <1>3, <1>5
<1>8. statuses' = [q \in PaymentIds |-> [t \in Slots |->
                     IF q = p /\ t = s
                     THEN [status |-> "paid", member |-> statuses[q][t].member]
                     ELSE statuses[q][t]]]
  BY <1>1, <1>4, <1>5, <1>6, <1>7
<1> QED
  BY <1>8 DEF p, s

LEMMA AdvanceType ==
  ASSUME TypeOK, NEW c \in Calls, Advance(c),
         OwnPayment(c), AnswerInHand(c), MemberInHand(c)
  PROVE  TypeOK'
<1>0. call[c] \in CallState
  BY DEF TypeOK
<1>1. CASE InsertGroup(c)
  <2>1. groups' \in [GroupIds -> GroupRow]
    BY <1>0, <1>1 DEF InsertGroup, TypeOK, GroupRow, CallState
  <2>2. call' \in [Calls -> CallState]
    BY <1>1, FinishType DEF InsertGroup
  <2> QED
    BY <1>1, <2>1, <2>2 DEF InsertGroup, TypeOK
<1>2. ASSUME NEW p \in PaymentIds, InsertPayment(c, p) PROVE TypeOK'
  <2>1. payments' \in [PaymentIds -> PaymentRow]
    BY <1>0, <1>2 DEF InsertPayment, TypeOK, PaymentRow, CallState
  <2>2. [call[c] EXCEPT !.at = "statuses.insert", !.payment = p] \in CallState
    BY <1>0 DEF CallState, Steps
  <2>3. call' \in [Calls -> CallState]
    BY <1>2, <2>2, BecomeType DEF InsertPayment
  <2> QED
    BY <1>2, <2>1, <2>3 DEF InsertPayment, TypeOK
<1>3. CASE createMemberStatus(c)
  <2>1. \A s \in Slots : call[c].members[s] \in Address
    BY <1>0 DEF CallState, Lists
  <2>2. [s \in Slots |-> IF s \in Used(call[c].members)
                         THEN [status |-> "pending", member |-> call[c].members[s]]
                         ELSE NoMember] \in [Slots -> MemberRow]
    BY <2>1 DEF MemberRow, NoMember, Address
  <2>3. statuses' \in [PaymentIds -> [Slots -> MemberRow]]
    BY <1>3, <2>2 DEF createMemberStatus, TypeOK
  <2>4. call' \in [Calls -> CallState]
    BY <1>3, GotoType DEF createMemberStatus, Steps
  <2> QED
    BY <1>3, <2>3, <2>4 DEF createMemberStatus, TypeOK
<1>4. CASE createGroupPaymentRequests(c)
  <2>1. ASSUME NEW ids \in Numberings(Members(call[c].members)), InsertRequests(c, ids)
        PROVE  requests' \in [RequestIds -> RequestRow]
    <3>1. DOMAIN ids \subseteq Address
      BY <1>0, <2>1 DEF Numberings, Members, Used, CallState, Lists
    <3>2. ASSUME NEW i \in RequestIds, \E m \in DOMAIN ids : ids[m] = i
          PROVE  [status |-> "pending",
                  payer |-> CHOOSE m \in DOMAIN ids : ids[m] = i,
                  payee |-> call[c].who, amount |-> call[c].amount,
                  payment |-> call[c].payment] \in RequestRow
      <4>1. (CHOOSE m \in DOMAIN ids : ids[m] = i) \in Address
        BY <3>1, <3>2
      <4>2. /\ call[c].who \in Address /\ call[c].amount \in Amounts \cup {Zero, None}
            /\ call[c].payment \in PaymentIds \cup {None}
        BY <1>0 DEF CallState
      <4> QED
        BY <4>1, <4>2 DEF RequestRow
    <3> QED
      BY <2>1, <3>2 DEF InsertRequests, TypeOK
  <2>2. requests' \in [RequestIds -> RequestRow]
    BY <1>4, <2>1 DEF createGroupPaymentRequests, TypeOK
  <2>3. call' \in [Calls -> CallState]
    BY <1>4, FinishType DEF createGroupPaymentRequests
  <2> QED
    BY <1>4, <2>2, <2>3 DEF createGroupPaymentRequests, TypeOK
<1>5. ASSUME NEW i \in RequestIds, InsertRequest(c, i) PROVE TypeOK'
  <2>1. requests' \in [RequestIds -> RequestRow]
    BY <1>0, <1>5 DEF InsertRequest, TypeOK, RequestRow, CallState
  <2>2. call' \in [Calls -> CallState]
    BY <1>5, FinishType DEF InsertRequest
  <2> QED
    BY <1>5, <2>1, <2>2 DEF InsertRequest, TypeOK
<1>6. CASE AcceptUpdate(c) \/ DenyUpdate(c)
  <2>1. requests' \in [RequestIds -> RequestRow]
    BY <1>6, UpdateStatusType DEF AcceptUpdate, DenyUpdate
  <2>2. call' \in [Calls -> CallState]
    BY <1>6, FinishType, GotoType DEF AcceptUpdate, DenyUpdate, Steps
  <2> QED
    BY <1>6, <2>1, <2>2 DEF AcceptUpdate, DenyUpdate, TypeOK
<1>7. CASE FindMemberStatus(c)
  <2>1. \A s \in Slots : [call[c] EXCEPT !.at = "member.save", !.slot = s] \in CallState
    BY <1>0 DEF CallState, Steps
  <2>2. call' \in [Calls -> CallState]
    BY <1>7, <2>1, BecomeType, FinishType DEF FindMemberStatus
  <2> QED
    BY <1>7, <2>2 DEF FindMemberStatus, TypeOK
<1>8. CASE SaveMember(c)
  <2>1. statuses' \in [PaymentIds -> [Slots -> MemberRow]]
    BY <1>8, MemberSaved DEF TypeOK, MemberRow
  <2>2. call' \in [Calls -> CallState]
    BY <1>8, GotoType DEF SaveMember, Steps
  <2> QED
    BY <1>8, <2>1, <2>2 DEF SaveMember, TypeOK
<1>9. CASE CheckAllPaid(c)
  <2>1. call' \in [Calls -> CallState]
    BY <1>9, FinishType, GotoType DEF CheckAllPaid, Steps
  <2> QED
    BY <1>9, <2>1 DEF CheckAllPaid, TypeOK
<1>10. CASE SavePayment(c)
  <2>1. payments' \in [PaymentIds -> PaymentRow]
    BY <1>10 DEF SavePayment, TypeOK, PaymentRow
  <2>2. call' \in [Calls -> CallState]
    BY <1>10, FinishType DEF SavePayment
  <2> QED
    BY <1>10, <2>1, <2>2 DEF SavePayment, TypeOK
<1> QED
  BY <1>1, <1>2, <1>3, <1>4, <1>5, <1>6, <1>7, <1>8, <1>9, <1>10 DEF Advance

LEMMA NextType ==
  ASSUME IInv, [Next]_vars
  PROVE  TypeOK'
<1>1. TypeOK /\ \A c \in Calls : OwnPayment(c) /\ AnswerInHand(c) /\ MemberInHand(c)
  BY DEF IInv
<1>2. ASSUME NEW c \in Calls, Abort(c) PROVE TypeOK'
  <2>1. call' \in [Calls -> CallState]
    BY <1>1, <1>2, FinishType DEF Abort
  <2> QED
    BY <1>1, <1>2, <2>1 DEF Abort, TypeOK
<1>3. CASE UNCHANGED vars
  BY <1>1, <1>3 DEF vars, TypeOK
<1> QED
  BY <1>1, <1>2, <1>3, CreateType, AdvanceType DEF Next, Serve

-----------------------------------------------------------------------------
(* What the tables keep, whoever writes them. *)

LEMMA PaymentsStay ==
  ASSUME IInv, [Next]_vars, NEW p \in PaymentIds, payments[p].status # "none"
  PROVE  payments'[p].status # "none"
<1>1. TypeOK
  BY DEF IInv
<1>2. ASSUME NEW c \in Calls, NEW q \in PaymentIds, InsertPayment(c, q)
      PROVE  payments'[p].status # "none"
  BY <1>1, <1>2 DEF InsertPayment, TypeOK
<1>3. ASSUME NEW c \in Calls, SavePayment(c)
      PROVE  payments'[p].status # "none"
  BY <1>1, <1>3 DEF SavePayment, TypeOK, PaymentRow
<1> QED
  BY <1>2, <1>3, PaymentWriters

LEMMA StatusUpdated ==
  ASSUME TypeOK, NEW c \in Calls, NEW status, updateStatus(c, status), NEW i \in RequestIds
  PROVE  /\ requests'[i].payment = requests[i].payment
         /\ requests'[i].payer = requests[i].payer
         /\ i = call[c].request => requests'[i].status = status
         /\ i # call[c].request => requests'[i] = requests[i]
<1>1. requests[i] \in RequestRow
  BY DEF TypeOK
<1> QED
  BY <1>1 DEF updateStatus, TypeOK, RequestRow

LEMMA RequestsStay ==
  ASSUME IInv, [Next]_vars, NEW i \in RequestIds, requests[i].status # "none"
  PROVE  /\ requests'[i].status # "none"
         /\ requests'[i].payment = requests[i].payment
         /\ requests'[i].payer = requests[i].payer
         /\ requests[i].status \in {"accepted", "denied"} =>
               requests'[i].status \in {"accepted", "denied"}
<1>1. TypeOK
  BY DEF IInv
<1>2. ASSUME NEW c \in Calls, createGroupPaymentRequests(c)
      PROVE  requests'[i] = requests[i]
  <2>1. ASSUME NEW ids \in Numberings(Members(call[c].members)), InsertRequests(c, ids)
        PROVE  requests'[i] = requests[i]
    <3>1. \A m \in DOMAIN ids : ids[m] # i
      BY <2>1 DEF Numberings
    <3> QED
      BY <2>1, <3>1 DEF InsertRequests
  <2> QED
    BY <1>2, <2>1 DEF createGroupPaymentRequests
<1>3. ASSUME NEW c \in Calls, NEW j \in RequestIds, InsertRequest(c, j)
      PROVE  requests'[i] = requests[i]
  BY <1>1, <1>3 DEF InsertRequest, TypeOK
<1>4. ASSUME NEW c \in Calls, AcceptUpdate(c) \/ DenyUpdate(c)
      PROVE  /\ requests'[i].payment = requests[i].payment
             /\ requests'[i].payer = requests[i].payer
             /\ \/ requests'[i].status = requests[i].status
                \/ requests'[i].status \in {"accepted", "denied"}
  BY <1>1, <1>4, StatusUpdated DEF AcceptUpdate, DenyUpdate
<1> QED
  BY <1>2, <1>3, <1>4, RequestWriters

(* A new row of a group payment belongs to the one under construction. *)
LEMMA NewRequests ==
  ASSUME IInv, [Next]_vars, NEW i \in RequestIds
  PROVE  \/ requests'[i].payment = requests[i].payment
         \/ requests'[i].payment = None
         \/ \E c \in Calls : /\ createGroupPaymentRequests(c)
                             /\ requests'[i].payment = call[c].payment
<1>1. TypeOK
  BY DEF IInv
<1>2. ASSUME NEW c \in Calls, createGroupPaymentRequests(c)
      PROVE  \/ requests'[i].payment = requests[i].payment
             \/ requests'[i].payment = call[c].payment
  BY <1>2 DEF createGroupPaymentRequests, InsertRequests
<1>3. ASSUME NEW c \in Calls, NEW j \in RequestIds, InsertRequest(c, j)
      PROVE  requests'[i].payment \in {requests[i].payment, None}
  BY <1>1, <1>3 DEF InsertRequest, TypeOK
<1>4. ASSUME NEW c \in Calls, AcceptUpdate(c) \/ DenyUpdate(c)
      PROVE  requests'[i].payment = requests[i].payment
  BY <1>1, <1>4, StatusUpdated DEF AcceptUpdate, DenyUpdate
<1> QED
  BY <1>2, <1>3, <1>4, RequestWriters

(* The rows of the members of a payment that is not under construction only *)
(* ever turn paid.                                                          *)
LEMMA StatusesStay ==
  ASSUME IInv, [Next]_vars, NEW p \in PaymentIds,
         \A c \in Calls : createMemberStatus(c) => call[c].payment # p
  PROVE  \A s \in Slots : /\ statuses'[p][s].member = statuses[p][s].member
                          /\ statuses'[p][s].status \in {statuses[p][s].status, "paid"}
<1>1. TypeOK /\ \A c \in Calls : AnswerInHand(c) /\ MemberInHand(c)
  BY DEF IInv
<1>2. ASSUME NEW c \in Calls, createMemberStatus(c)
      PROVE  statuses'[p] = statuses[p]
  BY <1>1, <1>2 DEF createMemberStatus, TypeOK
<1>3. ASSUME NEW c \in Calls, SaveMember(c), NEW s \in Slots
      PROVE  /\ statuses'[p][s].member = statuses[p][s].member
             /\ statuses'[p][s].status \in {statuses[p][s].status, "paid"}
  BY <1>1, <1>3, MemberSaved
<1> QED
  BY <1>2, <1>3, StatusWriters

LEMMA PaidStays ==
  ASSUME IInv, [Next]_vars, NEW p \in PaymentIds,
         \A c \in Calls : createMemberStatus(c) => call[c].payment # p
  PROVE  /\ SaidPaid(p) => SaidPaid(p)'
         /\ AllPaid(p) => AllPaid(p)'
<1>1. \A s \in Slots : statuses'[p][s].status \in {statuses[p][s].status, "paid"}
  BY StatusesStay
<1> QED
  BY <1>1 DEF SaidPaid, AllPaid

-----------------------------------------------------------------------------
(* The calls. *)

Acts(c) == Create(c) \/ Answer(c) \/ Advance(c) \/ Abort(c)

LEMMA OthersStay ==
  ASSUME TypeOK, NEW c \in Calls, Acts(c), NEW d \in Calls, d # c
  PROVE  call'[d] = call[d]
<1>1. CASE Create(c)
  BY <1>1, Becomes DEF Create, CreateBy, FindGroup, FindOneGroup, FindDuplicate
<1>2. CASE Answer(c) \/ Abort(c)
  BY <1>2, Becomes DEF Answer, FindRequest, Abort, Finish
<1>3. CASE Advance(c)
  BY <1>3, Becomes DEF Advance, Goto, Finish, InsertGroup, InsertPayment,
     createMemberStatus, createGroupPaymentRequests, InsertRequest, AcceptUpdate,
     DenyUpdate, FindMemberStatus, SaveMember, CheckAllPaid, SavePayment
<1> QED
  BY <1>1, <1>2, <1>3 DEF Acts

LEMMA OneActs ==
  ASSUME TypeOK, [Next]_vars
  PROVE  \/ UNCHANGED vars
         \/ \E c \in Calls : Acts(c)
  BY DEF Next, Serve, Acts

(* Steps that let go of everything, and steps that go on with what they hold. *)
Ends(c) == call'[c].at \in {"idle", "group.insert", "payment.insert", "request.insert"}
           /\ call'[c].payment = None
Holding(c) == /\ call'[c].who = call[c].who /\ call'[c].payment = call[c].payment
              /\ call'[c].request = call[c].request

LEMMA Finishes ==
  ASSUME TypeOK, NEW c \in Calls, Finish(c)
  PROVE  Ends(c)
<1>1. call'[c] = Idle
  BY Becomes DEF Finish
<1> QED
  BY <1>1 DEF Idle, Ends

LEMMA CreateEnds ==
  ASSUME TypeOK, NEW c \in Calls, Create(c)
  PROVE  Ends(c)
<1>1. ASSUME NEW a, NEW name, NEW list, FindGroup(c, a, name, list) PROVE Ends(c)
  <2>1. call'[c] = [Idle EXCEPT !.at = "group.insert", !.who = normalizeAddress[a],
                                !.name = name, !.members = normalized(list)]
    BY <1>1, Becomes DEF FindGroup
  <2> QED
    BY <2>1 DEF Idle, Ends
<1>2. ASSUME NEW a, NEW g, NEW share, FindOneGroup(c, a, g, share) PROVE Ends(c)
  <2>1. call'[c] = [Idle EXCEPT !.at = "payment.insert", !.who = normalizeAddress[a],
                                !.members = groups[g].members, !.amount = share]
    BY <1>2, Becomes DEF FindOneGroup
  <2> QED
    BY <2>1 DEF Idle, Ends
<1>3. ASSUME NEW a, NEW payee, NEW amount, FindDuplicate(c, a, payee, amount)
      PROVE  Ends(c)
  <2>1. call'[c] = [Idle EXCEPT !.at = "request.insert", !.payer = normalizeAddress[a],
                                !.who = normalizeAddress[payee], !.amount = amount]
    BY <1>3, Becomes DEF FindDuplicate
  <2> QED
    BY <2>1 DEF Idle, Ends
<1> QED
  BY <1>1, <1>2, <1>3 DEF Create, CreateBy

LEMMA AnswerTakes ==
  ASSUME TypeOK, NEW c \in Calls, NEW a \in Addresses, NEW i \in RequestIds,
         NEW step \in {"accept.update", "deny.update"}, FindRequest(c, a, i, step)
  PROVE  /\ call'[c].at = step /\ call'[c].request = i
         /\ call'[c].who = requests[i].payer /\ call'[c].payment = requests[i].payment
         /\ requests[i].status = "pending" /\ call[c].at = "idle"
         /\ UNCHANGED <<payments, statuses, requests>>
<1>1. call'[c] = [Idle EXCEPT !.at = step, !.who = normalizeAddress[a], !.request = i,
                              !.payment = requests[i].payment]
  BY Becomes DEF FindRequest
<1>2. /\ call'[c].at = step /\ call'[c].request = i
      /\ call'[c].who = normalizeAddress[a] /\ call'[c].payment = requests[i].payment
  BY <1>1 DEF Idle
<1> QED
  BY <1>2 DEF FindRequest

LEMMA InsertTakes ==
  ASSUME TypeOK, NEW c \in Calls, NEW p \in PaymentIds, InsertPayment(c, p)
  PROVE  call'[c].at = "statuses.insert" /\ call'[c].payment = p
<1>1. call[c] \in CallState
  BY DEF TypeOK
<1>2. call'[c] = [call[c] EXCEPT !.at = "statuses.insert", !.payment = p]
  BY Becomes DEF InsertPayment
<1> QED
  BY <1>1, <1>2 DEF CallState

LEMMA MemberTakes ==
  ASSUME TypeOK, NEW c \in Calls, FindMemberStatus(c)
  PROVE  \/ Ends(c)
         \/ /\ Holding(c) /\ call'[c].at = "member.save" /\ call'[c].slot \in Slots
            /\ statuses[call[c].payment][call'[c].slot].member = call[c].who
<1>1. call[c] \in CallState
  BY DEF TypeOK
<1>2. ASSUME NEW s \in Slots, statuses[call[c].payment][s].member = call[c].who,
             Become(c, [call[c] EXCEPT !.at = "member.save", !.slot = s])
      PROVE  /\ Holding(c) /\ call'[c].at = "member.save" /\ call'[c].slot = s
  <2>1. call'[c] = [call[c] EXCEPT !.at = "member.save", !.slot = s]
    BY <1>2, Becomes
  <2> QED
    BY <1>1, <2>1 DEF CallState, Holding
<1> QED
  BY <1>2, Finishes DEF FindMemberStatus

(* Where a payment in a call comes from. *)
LEMMA PaymentTaken ==
  ASSUME TypeOK, NEW c \in Calls, Acts(c)
  PROVE  \/ call'[c].payment \in {None, call[c].payment}
         \/ \E p \in PaymentIds : InsertPayment(c, p) /\ call'[c].payment = p
         \/ \E i \in RequestIds : call'[c].payment = requests[i].payment
<1>1. CASE Create(c)
  BY <1>1, CreateEnds DEF Ends
<1>2. CASE Answer(c)
  BY <1>2, AnswerTakes DEF Answer
<1>3. CASE Abort(c)
  BY <1>3, Finishes DEF Abort, Ends
<1>4. ASSUME NEW p \in PaymentIds, InsertPayment(c, p) PROVE call'[c].payment = p
  BY <1>4, InsertTakes
<1>5. CASE FindMemberStatus(c)
  BY <1>5, MemberTakes DEF Ends, Holding
<1>6. \A step \in Steps : Goto(c, step) => call'[c].payment = call[c].payment
  BY Goes
<1>7. Finish(c) => call'[c].payment = None
  BY Finishes DEF Ends
<1>8. CASE Advance(c)
  BY <1>4, <1>5, <1>6, <1>7, <1>8 DEF Advance, InsertGroup, createMemberStatus,
     createGroupPaymentRequests, InsertRequest, AcceptUpdate, DenyUpdate, SaveMember,
     CheckAllPaid, SavePayment, Steps
<1> QED
  BY <1>1, <1>2, <1>3, <1>8 DEF Acts

(* All a step does with what its call holds. *)
LEMMA StepTakes ==
  ASSUME TypeOK, NEW c \in Calls, Acts(c)
  PROVE  \/ Ends(c)
         \/ \E a \in Addresses, i \in RequestIds,
               step \in {"accept.update", "deny.update"} : FindRequest(c, a, i, step)
         \/ \E p \in PaymentIds : InsertPayment(c, p)
         \/ Holding(c) /\ createMemberStatus(c) /\ call'[c].at = "requests.insert"
         \/ /\ Holding(c) /\ AcceptUpdate(c) /\ call'[c].at = "member.find"
            /\ call[c].payment # None
         \/ Holding(c) /\ FindMemberStatus(c) /\ call'[c].at = "member.save"
         \/ Holding(c) /\ SaveMember(c) /\ call'[c].at = "all.find"
         \/ /\ Holding(c) /\ CheckAllPaid(c) /\ call'[c].at = "payment.save"
            /\ AllPaid(call[c].payment)
<1>1. CASE Create(c)
  BY <1>1, CreateEnds
<1>2. CASE Answer(c)
  BY <1>2 DEF Answer
<1>3. CASE Abort(c)
  BY <1>3, Finishes DEF Abort
<1>4. ASSUME NEW step \in {"requests.insert", "member.find", "all.find", "payment.save"},
             Goto(c, step)
      PROVE  Holding(c) /\ call'[c].at = step
  <2>1. step \in Steps
    BY DEF Steps
  <2> QED
    BY <1>4, <2>1, Goes DEF Holding
<1>5. CASE Advance(c)
  <2>1. CASE \/ InsertGroup(c) \/ createGroupPaymentRequests(c) \/ DenyUpdate(c)
             \/ SavePayment(c) \/ \E i \in RequestIds : InsertRequest(c, i)
    BY <2>1, Finishes DEF InsertGroup, createGroupPaymentRequests, DenyUpdate,
       SavePayment, InsertRequest
  <2>2. CASE createMemberStatus(c)
    BY <2>2, <1>4 DEF createMemberStatus
  <2>3. CASE AcceptUpdate(c)
    BY <2>3, <1>4, Finishes DEF AcceptUpdate
  <2>4. CASE FindMemberStatus(c)
    BY <2>4, MemberTakes
  <2>5. CASE SaveMember(c)
    BY <2>5, <1>4 DEF SaveMember
  <2>6. CASE CheckAllPaid(c)
    BY <2>6, <1>4, Finishes DEF CheckAllPaid
  <2> QED
    BY <1>5, <2>1, <2>2, <2>3, <2>4, <2>5, <2>6 DEF Advance
<1> QED
  BY <1>1, <1>2, <1>3, <1>5 DEF Acts

-----------------------------------------------------------------------------
(* IInv is inductive. *)

LEMMA InitInv == Init => IInv
<1> SUFFICES ASSUME Init PROVE IInv
  OBVIOUS
<1>1. TypeOK
  BY InitType
<1>2. \A c \in Calls : call[c].at = "idle" /\ call[c].payment = None
  BY DEF Init, Idle
<1>3. \A p \in PaymentIds : payments[p].status = "none"
  BY DEF Init, NoPayment
<1>4. \A p \in PaymentIds, s \in Slots : statuses[p][s].status = "none"
  BY DEF Init, NoMember
<1>5. \A i \in RequestIds : requests[i].payment = None
  BY DEF Init, NoRequest
<1>6. CompletedIsPaid /\ PaidWasAnswered /\ Referenced
  BY <1>2, <1>3, <1>4, <1>5 DEF CompletedIsPaid, PaidWasAnswered, Referenced
<1>7. \A c \in Calls : OwnPayment(c) /\ AnswerInHand(c) /\ MemberInHand(c)
  BY <1>2 DEF OwnPayment, AnswerInHand, MemberInHand, Constructing, Paying
<1> QED
  BY <1>1, <1>6, <1>7 DEF IInv

(* A call that constructs a payment has just inserted it or goes on. *)
LEMMA Constructs ==
  ASSUME IInv, [Next]_vars, NEW c \in Calls, Constructing(c)'
  PROVE  \/ /\ Constructing(c) /\ call'[c].payment = call[c].payment
            /\ ~createGroupPaymentRequests(c)
         \/ InsertPayment(c, call'[c].payment) /\ call'[c].payment \in PaymentIds
<1>1. TypeOK
  BY DEF IInv
<1>2. call'[c].at \in {"statuses.insert", "requests.insert"}
  BY DEF Constructing
<1>3. ~Ends(c)
  BY <1>2 DEF Ends
<1>4. ~createGroupPaymentRequests(c)
  BY <1>1, <1>3, Finishes DEF createGroupPaymentRequests
<1>5. CASE call'[c] = call[c]
  BY <1>2, <1>4, <1>5 DEF Constructing
<1>6. CASE Acts(c)
  <2>1. ASSUME NEW a \in Addresses, NEW i \in RequestIds,
               NEW step \in {"accept.update", "deny.update"}, FindRequest(c, a, i, step)
        PROVE  FALSE
    BY <1>1, <1>2, <2>1, AnswerTakes
  <2>2. ASSUME NEW p \in PaymentIds, InsertPayment(c, p)
        PROVE  InsertPayment(c, call'[c].payment) /\ call'[c].payment \in PaymentIds
    BY <1>1, <2>2, InsertTakes
  <2>3. CASE Holding(c) /\ createMemberStatus(c)
    BY <2>3, <1>4 DEF Holding, createMemberStatus, Constructing
  <2> QED
    BY <1>1, <1>2, <1>3, <1>6, <2>1, <2>2, <2>3, StepTakes
<1> QED
  BY <1>1, <1>5, <1>6, OneActs, OthersStay DEF vars

LEMMA OwnPaymentKept ==
  ASSUME IInv, [Next]_vars, NEW c \in Calls
  PROVE  OwnPayment(c)'
<1> SUFFICES ASSUME Constructing(c)'
             PROVE  /\ call'[c].payment \in PaymentIds
                    /\ payments'[call'[c].payment].status = "pending"
                    /\ \A d \in Calls \ {c} : call'[d].payment # call'[c].payment
                    /\ \A i \in RequestIds : requests'[i].payment # call'[c].payment
  BY DEF OwnPayment
<1> DEFINE p == call'[c].payment
<1>1. TypeOK /\ Referenced /\ OwnPayment(c)
  BY DEF IInv
<1>2. None \notin PaymentIds
  BY PaymentsAssumption
<1>3. CASE InsertPayment(c, p) /\ p \in PaymentIds
  <2>1. payments[p].status = "none" /\ payments'[p].status = "pending"
    BY <1>1, <1>3 DEF InsertPayment, TypeOK
  <2>2. \A d \in Calls : call[d].payment # p
    BY <1>1, <1>2, <1>3, <2>1 DEF Referenced
  <2>3. \A i \in RequestIds : requests[i].payment # p
    BY <1>1, <1>2, <1>3, <2>1 DEF Referenced
  <2>4. call[c].at = "payment.insert"
    BY <1>3 DEF InsertPayment
  <2>5. Acts(c)
    BY <1>3 DEF Acts, Advance
  <2>6. UNCHANGED requests
    BY <1>3 DEF InsertPayment
  <2> QED
    BY <1>1, <1>3, <2>1, <2>2, <2>3, <2>5, <2>6, OthersStay
<1>4. CASE Constructing(c) /\ p = call[c].payment /\ ~createGroupPaymentRequests(c)
  <2>1. /\ p \in PaymentIds /\ payments[p].status = "pending"
        /\ \A d \in Calls \ {c} : call[d].payment # p
        /\ \A i \in RequestIds : requests[i].payment # p
    BY <1>1, <1>4 DEF OwnPayment
  <2>2. payments'[p].status = "pending"
    <3>1. ASSUME NEW d \in Calls, NEW q \in PaymentIds, InsertPayment(d, q)
          PROVE  payments'[p].status = "pending"
      BY <1>1, <2>1, <3>1 DEF InsertPayment, TypeOK
    <3>2. ASSUME NEW d \in Calls, SavePayment(d)
          PROVE  payments'[p].status = "pending"
      <4>1. d # c
        BY <1>4, <3>2 DEF Constructing, SavePayment
      <4> QED
        BY <1>1, <2>1, <3>2, <4>1 DEF SavePayment, TypeOK
    <3> QED
      BY <2>1, <3>1, <3>2, PaymentWriters
  <2>3. \A d \in Calls \ {c} : call'[d].payment # p
    <3>1. ASSUME NEW d \in Calls \ {c}, Acts(d)
          PROVE  call'[d].payment # p
      <4>1. ASSUME NEW q \in PaymentIds, InsertPayment(d, q), call'[d].payment = q
            PROVE  call'[d].payment # p
        BY <2>1, <4>1 DEF InsertPayment
      <4> HIDE DEF p
      <4> QED
        BY <1>1, <1>2, <2>1, <3>1, <4>1, PaymentTaken
    <3> HIDE DEF p
    <3> QED
      BY <1>1, <2>1, <3>1, OneActs, OthersStay DEF vars
  <2>4. \A i \in RequestIds : requests'[i].payment # p
    <3> HIDE DEF p
    <3>1. \A d \in Calls : createGroupPaymentRequests(d) => call[d].payment # p
      BY <1>4, <2>1
    <3> QED
      BY <1>2, <2>1, <3>1, NewRequests
  <2> QED
    BY <2>1, <2>2, <2>3, <2>4
<1> QED
  BY <1>3, <1>4, Constructs

LEMMA AnswerInHandKept ==
  ASSUME IInv, [Next]_vars, NEW c \in Calls
  PROVE  AnswerInHand(c)'
<1>1. TypeOK /\ AnswerInHand(c)
  BY DEF IInv
<1>2. ASSUME NEW i \in RequestIds, requests[i].status # "none"
      PROVE  /\ requests'[i].status # "none"
             /\ requests'[i].payment = requests[i].payment
             /\ requests'[i].payer = requests[i].payer
             /\ requests[i].status \in {"accepted", "denied"} =>
                   requests'[i].status \in {"accepted", "denied"}
  BY <1>2, RequestsStay
<1>3. CASE call'[c] = call[c]
  BY <1>1, <1>2, <1>3 DEF AnswerInHand, Paying
<1>4. CASE Acts(c)
  <2>1. CASE Ends(c)
    BY <2>1 DEF Ends, AnswerInHand, Paying
  <2>2. ASSUME NEW a \in Addresses, NEW i \in RequestIds,
               NEW step \in {"accept.update", "deny.update"}, FindRequest(c, a, i, step)
        PROVE  AnswerInHand(c)'
    <3>1. /\ call'[c].at = step /\ call'[c].request = i
          /\ call'[c].who = requests[i].payer /\ call'[c].payment = requests[i].payment
          /\ requests[i].status = "pending" /\ UNCHANGED requests
      BY <1>1, <2>2, AnswerTakes
    <3> QED
      BY <3>1 DEF AnswerInHand, Paying
  <2>3. CASE \E p \in PaymentIds : InsertPayment(c, p)
    BY <1>1, <2>3, InsertTakes DEF AnswerInHand, Paying
  <2>4. CASE Holding(c) /\ createMemberStatus(c) /\ call'[c].at = "requests.insert"
    BY <2>4 DEF AnswerInHand, Paying
  <2>5. CASE /\ Holding(c) /\ AcceptUpdate(c) /\ call'[c].at = "member.find"
             /\ call[c].payment # None
    <3>1. /\ call[c].request \in RequestIds
          /\ requests[call[c].request].status # "none"
          /\ requests[call[c].request].payment = call[c].payment
          /\ requests[call[c].request].payer = call[c].who
      BY <1>1, <2>5 DEF AcceptUpdate, AnswerInHand
    <3>2. call[c].payment \in PaymentIds
      BY <1>1, <2>5 DEF TypeOK, CallState
    <3>3. requests'[call[c].request].status = "accepted"
      BY <1>1, <2>5, <3>1, StatusUpdated DEF AcceptUpdate
    <3> QED
      BY <1>2, <2>5, <3>1, <3>2, <3>3 DEF AnswerInHand, Paying, Holding
  <2>6. CASE /\ Holding(c) /\ call'[c].at \in {"member.save", "all.find", "payment.save"}
             /\ FindMemberStatus(c) \/ SaveMember(c) \/ CheckAllPaid(c)
    <3>1. Paying(c)
      BY <2>6 DEF FindMemberStatus, SaveMember, CheckAllPaid, Paying
    <3> QED
      BY <1>1, <1>2, <2>6, <3>1 DEF AnswerInHand, Paying, Holding
  <2> QED
    BY <1>1, <1>4, <2>1, <2>2, <2>3, <2>4, <2>5, <2>6, StepTakes
<1> QED
  BY <1>1, <1>3, <1>4, OneActs, OthersStay DEF vars

(* Nobody writes the statuses of a payment that is being paid from scratch. *)
LEMMA NotConstructed ==
  ASSUME IInv, NEW c \in Calls, Paying(c), NEW d \in Calls, createMemberStatus(d)
  PROVE  call[d].payment # call[c].payment
<1>1. c # d /\ Constructing(d)
  BY DEF Paying, createMemberStatus, Constructing
<1> QED
  BY <1>1 DEF IInv, OwnPayment

LEMMA MemberInHandKept ==
  ASSUME IInv, [Next]_vars, NEW c \in Calls
  PROVE  MemberInHand(c)'
<1>1. TypeOK /\ AnswerInHand(c) /\ MemberInHand(c)
  BY DEF IInv
<1>2. ASSUME Paying(c), NEW p \in PaymentIds, p = call[c].payment
      PROVE  /\ \A s \in Slots : statuses'[p][s].member = statuses[p][s].member
             /\ SaidPaid(p) => SaidPaid(p)'
             /\ AllPaid(p) => AllPaid(p)'
  <2>1. \A d \in Calls : createMemberStatus(d) => call[d].payment # p
    BY <1>2, NotConstructed
  <2> QED
    BY <2>1, StatusesStay, PaidStays
<1>3. Paying(c) => call[c].payment \in PaymentIds
  BY <1>1 DEF AnswerInHand
<1>4. CASE call'[c] = call[c]
  <2>1. CASE Paying(c)
    <3> DEFINE p == call[c].payment
    <3>1. /\ p \in PaymentIds
          /\ \A s \in Slots : statuses'[p][s].member = statuses[p][s].member
          /\ (\E s \in Slots : statuses[p][s].status = "paid") =>
                \E s \in Slots : statuses'[p][s].status = "paid"
          /\ (\A s \in Slots : statuses[p][s].status \in {"none", "paid"}) =>
                \A s \in Slots : statuses'[p][s].status \in {"none", "paid"}
      BY <1>2, <1>3, <2>1 DEF SaidPaid, AllPaid
    <3> QED
      BY <1>1, <1>4, <3>1 DEF MemberInHand, SaidPaid, AllPaid
  <2>2. CASE ~Paying(c)
    BY <1>4, <2>2 DEF MemberInHand, Paying
  <2> QED
    BY <2>1, <2>2
<1>5. CASE Acts(c)
  <2>1. CASE Ends(c)
    BY <2>1 DEF Ends, MemberInHand
  <2>2. ASSUME NEW a \in Addresses, NEW i \in RequestIds,
               NEW step \in {"accept.update", "deny.update"}, FindRequest(c, a, i, step)
        PROVE  MemberInHand(c)'
    <3>1. call'[c].at = step
      BY <1>1, <2>2, AnswerTakes
    <3> QED
      BY <3>1 DEF MemberInHand
  <2>3. CASE \E p \in PaymentIds : InsertPayment(c, p)
    BY <1>1, <2>3, InsertTakes DEF MemberInHand
  <2>4. CASE call'[c].at \in {"requests.insert", "member.find"}
    BY <2>4 DEF MemberInHand
  <2>5. CASE Holding(c) /\ FindMemberStatus(c) /\ call'[c].at = "member.save"
    <3>1. UNCHANGED statuses
      BY <2>5 DEF FindMemberStatus
    <3>2. call'[c].slot \in Slots
          /\ statuses[call[c].payment][call'[c].slot].member = call[c].who
      BY <1>1, <2>5, MemberTakes DEF Ends
    <3> QED
      BY <2>5, <3>1, <3>2 DEF MemberInHand, Holding
  <2>6. CASE Holding(c) /\ SaveMember(c) /\ call'[c].at = "all.find"
    <3>1. call[c].payment \in PaymentIds /\ call[c].slot \in Slots
      BY <1>1, <1>3, <2>6 DEF SaveMember, Paying, MemberInHand
    <3>2. statuses'[call[c].payment][call[c].slot].status = "paid"
      BY <1>1, <2>6, <3>1, MemberSaved
    <3> QED
      BY <2>6, <3>1, <3>2 DEF MemberInHand, Holding, SaidPaid
  <2>7. CASE /\ Holding(c) /\ CheckAllPaid(c) /\ call'[c].at = "payment.save"
             /\ AllPaid(call[c].payment)
    <3>1. UNCHANGED statuses /\ call[c].at = "all.find"
      BY <2>7 DEF CheckAllPaid
    <3>2. SaidPaid(call[c].payment)
      BY <1>1, <3>1 DEF MemberInHand
    <3> QED
      BY <2>7, <3>1, <3>2 DEF MemberInHand, Holding, SaidPaid, AllPaid
  <2> QED
    BY <1>1, <1>5, <2>1, <2>2, <2>3, <2>4, <2>5, <2>6, <2>7, StepTakes
<1> QED
  BY <1>1, <1>4, <1>5, OneActs, OthersStay DEF vars

LEMMA ReferencedKept ==
  ASSUME IInv, [Next]_vars
  PROVE  Referenced'
<1>1. /\ TypeOK /\ Referenced
      /\ \A c \in Calls : OwnPayment(c)
  BY DEF IInv
<1>2. \A p \in PaymentIds : payments[p].status # "none" => payments'[p].status # "none"
  BY PaymentsStay
<1>3. \A i \in RequestIds : requests[i].payment \in PaymentIds \cup {None}
  BY <1>1 DEF TypeOK, RequestRow
<1>4. \A c \in Calls : call[c].payment \in PaymentIds \cup {None}
  BY <1>1 DEF TypeOK, CallState
<1>5. ASSUME NEW c \in Calls, call'[c].payment # None
      PROVE  payments'[call'[c].payment].status # "none"
  <2>1. CASE call'[c].payment = call[c].payment
    BY <1>1, <1>2, <1>4, <1>5, <2>1 DEF Referenced
  <2>2. ASSUME NEW p \in PaymentIds, InsertPayment(c, p), call'[c].payment = p
        PROVE  payments'[p].status = "pending"
    BY <1>1, <2>2 DEF InsertPayment, TypeOK
  <2>3. ASSUME NEW i \in RequestIds, call'[c].payment = requests[i].payment
        PROVE  payments'[call'[c].payment].status # "none"
    BY <1>1, <1>2, <1>3, <1>5, <2>3 DEF Referenced
  <2>4. CASE Acts(c)
    BY <1>1, <1>5, <2>1, <2>2, <2>3, <2>4, PaymentTaken
  <2> QED
    BY <1>1, <2>1, <2>4, OneActs, OthersStay DEF vars
<1>6. ASSUME NEW i \in RequestIds, requests'[i].payment # None
      PROVE  payments'[requests'[i].payment].status # "none"
  <2>1. CASE requests'[i].payment = requests[i].payment
    BY <1>1, <1>2, <1>3, <1>6, <2>1 DEF Referenced
  <2>2. ASSUME NEW c \in Calls, createGroupPaymentRequests(c),
               requests'[i].payment = call[c].payment
        PROVE  payments'[requests'[i].payment].status # "none"
    <3>1. call[c].payment \in PaymentIds /\ payments[call[c].payment].status = "pending"
      BY <1>1, <2>2 DEF OwnPayment, Constructing, createGroupPaymentRequests
    <3> QED
      BY <1>2, <2>2, <3>1
  <2> QED
    BY <1>6, <2>1, <2>2, NewRequests
<1> QED
  BY <1>5, <1>6 DEF Referenced

LEMMA CompletedIsPaidKept ==
  ASSUME IInv, [Next]_vars
  PROVE  CompletedIsPaid'
<1>1. /\ TypeOK /\ CompletedIsPaid
      /\ \A c \in Calls : OwnPayment(c) /\ AnswerInHand(c) /\ MemberInHand(c)
  BY DEF IInv
<1> SUFFICES ASSUME NEW p \in PaymentIds, payments'[p].status = "completed"
             PROVE  AllPaid(p)' /\ SaidPaid(p)'
  BY DEF CompletedIsPaid
<1>2. CASE payments[p].status = "completed"
  <2>1. \A c \in Calls : createMemberStatus(c) => call[c].payment # p
    BY <1>1, <1>2 DEF createMemberStatus, OwnPayment, Constructing
  <2>2. AllPaid(p) /\ SaidPaid(p)
    BY <1>1, <1>2 DEF CompletedIsPaid
  <2> QED
    BY <2>1, <2>2, PaidStays
<1>3. ASSUME NEW c \in Calls, SavePayment(c), p = call[c].payment
      PROVE  AllPaid(p)' /\ SaidPaid(p)'
  <2>1. AllPaid(p) /\ SaidPaid(p)
    BY <1>1, <1>3 DEF SavePayment, MemberInHand
  <2>2. UNCHANGED statuses
    BY <1>3 DEF SavePayment
  <2> QED
    BY <2>1, <2>2 DEF AllPaid, SaidPaid
<1>4. ASSUME NEW c \in Calls, SavePayment(c), p # call[c].payment
      PROVE  payments[p].status = "completed"
  BY <1>1, <1>4 DEF SavePayment, TypeOK
<1>5. ASSUME NEW c \in Calls, NEW q \in PaymentIds, InsertPayment(c, q)
      PROVE  payments[p].status = "completed"
  BY <1>1, <1>5 DEF InsertPayment, TypeOK
<1> QED
  BY <1>2, <1>3, <1>4, <1>5, PaymentWriters

LEMMA PaidWasAnsweredKept ==
  ASSUME IInv, [Next]_vars
  PROVE  PaidWasAnswered'
<1>1. /\ TypeOK /\ PaidWasAnswered
      /\ \A c \in Calls : AnswerInHand(c) /\ MemberInHand(c)
  BY DEF IInv
<1> SUFFICES ASSUME NEW p \in PaymentIds, NEW s \in Slots,
                    statuses'[p][s].status = "paid"
             PROVE  \E i \in RequestIds :
                       /\ requests'[i].payment = p
                       /\ requests'[i].payer = statuses'[p][s].member
                       /\ requests'[i].status \in {"accepted", "denied"}
  BY DEF PaidWasAnswered
<1>2. CASE statuses[p][s] = statuses'[p][s]
  <2>1. PICK i \in RequestIds : /\ requests[i].payment = p
                                /\ requests[i].payer = statuses[p][s].member
                                /\ requests[i].status \in {"accepted", "denied"}
    BY <1>1, <1>2 DEF PaidWasAnswered
  <2>2. /\ requests'[i].payment = requests[i].payment
        /\ requests'[i].payer = requests[i].payer
        /\ requests'[i].status \in {"accepted", "denied"}
    BY <2>1, RequestsStay
  <2> QED
    BY <1>2, <2>1, <2>2
<1>3. ASSUME NEW c \in Calls, createMemberStatus(c)
      PROVE  statuses[p][s] = statuses'[p][s]
  BY <1>1, <1>3 DEF createMemberStatus, TypeOK, NoMember
<1>4. ASSUME NEW c \in Calls, SaveMember(c), p = call[c].payment, s = call[c].slot
      PROVE  \E i \in RequestIds :
                /\ requests'[i].payment = p
                /\ requests'[i].payer = statuses'[p][s].member
                /\ requests'[i].status \in {"accepted", "denied"}
  <2>1. /\ call[c].request \in RequestIds
        /\ requests[call[c].request].payment = p
        /\ requests[call[c].request].payer = call[c].who
        /\ requests[call[c].request].status \in {"accepted", "denied"}
    BY <1>1, <1>4 DEF SaveMember, AnswerInHand, Paying
  <2>2. statuses[p][s].member = call[c].who
    BY <1>1, <1>4 DEF SaveMember, MemberInHand
  <2>3. statuses'[p][s].member = statuses[p][s].member
    BY <1>1, <1>4, MemberSaved
  <2>4. UNCHANGED requests
    BY <1>4 DEF SaveMember
  <2> QED
    BY <2>1, <2>2, <2>3, <2>4
<1>5. ASSUME NEW c \in Calls, SaveMember(c), p # call[c].payment \/ s # call[c].slot
      PROVE  statuses[p][s] = statuses'[p][s]
  BY <1>1, <1>5, MemberSaved
<1> QED
  BY <1>2, <1>3, <1>4, <1>5, StatusWriters

LEMMA Inductive == Spec => []IInv
<1>1. Init => IInv
  BY InitInv
<1>2. IInv /\ [Next]_vars => IInv'
  BY NextType, OwnPaymentKept, AnswerInHandKept, MemberInHandKept, ReferencedKept,
     CompletedIsPaidKept, PaidWasAnsweredKept DEF IInv
<1> QED
  BY <1>1, <1>2, PTL DEF Spec

-----------------------------------------------------------------------------
(* TypeOK: every row of the tables and every call is well formed. *)
THEOREM TypeCorrect == Spec => []TypeOK
<1>1. IInv => TypeOK
  BY DEF IInv
<1> QED
  BY <1>1, Inductive, PTL

(* CompletedIsPaid: updateGroupPaymentMemberStatus completes a payment only *)
(* when every member has paid, however the acceptances interleave.          *)
THEOREM CompletedIsAlwaysPaid == Spec => []CompletedIsPaid
<1>1. IInv => CompletedIsPaid
  BY DEF IInv
<1> QED
  BY <1>1, Inductive, PTL

(* PaidWasAnswered: acceptRequest marks no member as paid but the payer of  *)
(* the request it has found.                                                *)
THEOREM PaidIsAlwaysAnswered == Spec => []PaidWasAnswered
<1>1. IInv => PaidWasAnswered
  BY DEF IInv
<1> QED
  BY <1>1, Inductive, PTL

(* AnswerIsFinal: an accepted or denied request that no call is answering   *)
(* is left alone for good.                                                  *)
THEOREM AnswersStay == Spec => AnswerIsFinal
<1>1. ASSUME IInv, [Next]_vars, NEW i \in RequestIds, Settled(i)
      PROVE  Settled(i)' /\ requests'[i] = requests[i]
  <2>1. TypeOK /\ \A c \in Calls : AnswerInHand(c)
    BY <1>1 DEF IInv
  <2>2. requests[i].status \in {"accepted", "denied"}
        /\ \A c \in Calls : ~Answers(c, i)
    BY <1>1 DEF Settled
  <2>3. requests'[i] = requests[i]
    <3>1. ASSUME NEW c \in Calls, createGroupPaymentRequests(c)
          PROVE  requests'[i] = requests[i]
      <4>1. ASSUME NEW ids \in Numberings(Members(call[c].members)),
                   InsertRequests(c, ids)
            PROVE  requests'[i] = requests[i]
        <5>1. \A m \in DOMAIN ids : ids[m] # i
          BY <2>2, <4>1 DEF Numberings
        <5> QED
          BY <4>1, <5>1 DEF InsertRequests
      <4> QED
        BY <3>1, <4>1 DEF createGroupPaymentRequests
    <3>2. ASSUME NEW c \in Calls, NEW j \in RequestIds, InsertRequest(c, j)
          PROVE  requests'[i] = requests[i]
      BY <2>1, <2>2, <3>2 DEF InsertRequest, TypeOK
    <3>3. ASSUME NEW c \in Calls, AcceptUpdate(c) \/ DenyUpdate(c)
          PROVE  requests'[i] = requests[i]
      <4>1. call[c].request # i
        BY <2>2, <3>3 DEF Answers, AcceptUpdate, DenyUpdate
      <4> QED
        BY <2>1, <3>3, <4>1, StatusUpdated DEF AcceptUpdate, DenyUpdate
    <3> QED
      BY <1>1, <3>1, <3>2, <3>3, RequestWriters
  <2>4. ASSUME NEW c \in Calls PROVE ~Answers(c, i)'
    <3>1. CASE call'[c] = call[c]
      BY <2>2, <3>1 DEF Answers
    <3>2. CASE Acts(c)
      <4>1. CASE call'[c].at \notin {"accept.update", "deny.update"}
        BY <4>1 DEF Answers
      <4>2. ASSUME NEW a \in Addresses, NEW j \in RequestIds,
                   NEW step \in {"accept.update", "deny.update"},
                   FindRequest(c, a, j, step)
            PROVE  ~Answers(c, i)'
        <5>1. call'[c].request = j /\ requests[j].status = "pending"
          BY <2>1, <4>2, AnswerTakes
        <5> QED
          BY <2>2, <5>1 DEF Answers
      <4>3. ASSUME NEW p \in PaymentIds, InsertPayment(c, p)
            PROVE  call'[c].at = "statuses.insert"
        BY <2>1, <4>3, InsertTakes
      <4> QED
        BY <2>1, <3>2, <4>1, <4>2, <4>3, StepTakes DEF Ends
    <3> QED
      BY <1>1, <2>1, <3>1, <3>2, OneActs, OthersStay DEF vars
  <2> QED
    BY <2>2, <2>3, <2>4 DEF Settled
<1>2. IInv /\ [Next]_vars =>
        [\A i \in RequestIds : Settled(i) =>
            Settled(i)' /\ requests'[i] = requests[i]]_vars
  BY <1>1
<1> QED
  BY <1>2, Inductive, PTL DEF Spec, AnswerIsFinal

-----------------------------------------------------------------------------
(* Equal pending requests, and the calls that may still insert one. *)

(* A call about to insert what it has only checked for has just been made. *)
LEMMA JustCreated ==
  ASSUME TypeOK, NEW c \in Calls, Acts(c),
         call'[c].at \in {"group.insert", "payment.insert", "request.insert"}
  PROVE  Create(c)
<1>1. Finish(c) => call'[c].at = "idle"
  BY Becomes DEF Finish, Idle
<1>2. \A step \in Steps : Goto(c, step) => call'[c].at = step
  BY Goes
<1>4. CASE Answer(c)
  BY <1>4, AnswerTakes DEF Answer
<1>5. CASE Abort(c)
  BY <1>1, <1>5 DEF Abort
<1>6. ASSUME NEW p \in PaymentIds, InsertPayment(c, p) PROVE FALSE
  BY <1>6, InsertTakes
<1>7. ASSUME FindMemberStatus(c) PROVE FALSE
  <2>1. ASSUME NEW s \in Slots, Become(c, [call[c] EXCEPT !.at = "member.save", !.slot = s])
        PROVE  FALSE
    <3>1. call[c] \in CallState /\ call'[c] = [call[c] EXCEPT !.at = "member.save", !.slot = s]
      BY <2>1, Becomes DEF TypeOK
    <3> QED
      BY <3>1 DEF CallState
  <2>2. \/ Finish(c)
        \/ \E s \in Slots : Become(c, [call[c] EXCEPT !.at = "member.save", !.slot = s])
    BY <1>7, Zenon DEF FindMemberStatus
  <2>3. ~Finish(c)
    BY <1>1
  <2> QED
    BY <2>1, <2>2, <2>3, Zenon
<1>8. CASE Advance(c)
  BY <1>1, <1>2, <1>6, <1>7, <1>8 DEF Advance, InsertGroup, createMemberStatus,
     createGroupPaymentRequests, InsertRequest, AcceptUpdate, DenyUpdate, SaveMember,
     CheckAllPaid, SavePayment, Steps
<1> QED
  BY <1>4, <1>5, <1>8 DEF Acts

LEMMA CreatedAt ==
  ASSUME TypeOK, NEW c \in Calls, Create(c)
  PROVE  \/ /\ call'[c].at = "group.insert"
            /\ \E a \in Addresses, name \in Names, list \in Lists :
                  FindGroup(c, a, name, list)
         \/ /\ call'[c].at = "payment.insert"
            /\ \E a \in Addresses : call'[c].who = normalizeAddress[a]
         \/ /\ call'[c].at = "request.insert"
            /\ \E a, payee \in Addresses, amount \in Amounts :
                  FindDuplicate(c, a, payee, amount)
<1>1. ASSUME NEW a, NEW name, NEW list, FindGroup(c, a, name, list)
      PROVE  call'[c].at = "group.insert"
  <2>1. call'[c] = [Idle EXCEPT !.at = "group.insert", !.who = normalizeAddress[a],
                                !.name = name, !.members = normalized(list)]
    BY <1>1, Becomes DEF FindGroup
  <2> QED
    BY <2>1 DEF Idle
<1>2. ASSUME NEW a, NEW g, NEW share, FindOneGroup(c, a, g, share)
      PROVE  call'[c].at = "payment.insert" /\ call'[c].who = normalizeAddress[a]
  <2>1. call'[c] = [Idle EXCEPT !.at = "payment.insert", !.who = normalizeAddress[a],
                                !.members = groups[g].members, !.amount = share]
    BY <1>2, Becomes DEF FindOneGroup
  <2> QED
    BY <2>1 DEF Idle
<1>3. ASSUME NEW a, NEW payee, NEW amount, FindDuplicate(c, a, payee, amount)
      PROVE  call'[c].at = "request.insert"
  <2>1. call'[c] = [Idle EXCEPT !.at = "request.insert", !.payer = normalizeAddress[a],
                                !.who = normalizeAddress[payee], !.amount = amount]
    BY <1>3, Becomes DEF FindDuplicate
  <2> QED
    BY <2>1 DEF Idle
<1> QED
  BY <1>1, <1>2, <1>3 DEF Create, CreateBy

LEMMA PassesCheck ==
  ASSUME TypeOK, NEW c \in Calls, Acts(c), call'[c].at = "request.insert"
  PROVE  \E a, payee \in Addresses, amount \in Amounts : FindDuplicate(c, a, payee, amount)
  BY JustCreated, CreatedAt

LEMMA DuplicateStep ==
  ASSUME IInv, [Next]_vars, NEW payer \in Addresses, NEW payee \in Addresses,
         NEW amount \in Amounts
  PROVE  LET S == Equal(payer, payee, amount)
             F == PastCheck(payer, payee, amount)
         IN \/ S' \subseteq S /\ F' \subseteq F
            \/ S' = {}
            \/ \E i, r : i \notin S /\ S' = S \cup {i} /\ r \in F /\ F' = F \ {r}
<1> DEFINE S == Equal(payer, payee, amount)
           F == PastCheck(payer, payee, amount)
<1>1. TypeOK /\ \A c \in Calls : OwnPayment(c)
  BY DEF IInv
<1>2. UNCHANGED requests => S' = S
  BY DEF Equal, EqualTo
<1>3. ASSUME NEW c \in Calls, Acts(c), ~(F' \subseteq F)
      PROVE  S' = {}
  <2>1. \A d \in Calls \ {c} : call'[d] = call[d]
    BY <1>1, <1>3, OthersStay
  <2>2. c \in F' /\ c \notin F
    BY <1>3, <2>1 DEF PastCheck
  <2>3. PICK a \in Addresses, b \in Addresses, m \in Amounts : FindDuplicate(c, a, b, m)
    BY <1>1, <1>3, <2>2, PassesCheck DEF PastCheck
  <2>4. call'[c] = [Idle EXCEPT !.at = "request.insert", !.payer = normalizeAddress[a],
                                !.who = normalizeAddress[b], !.amount = m]
    BY <1>1, <2>3, Becomes DEF FindDuplicate
  <2>5. normalizeAddress[a] = payer /\ normalizeAddress[b] = payee /\ m = amount
    BY <2>2, <2>4 DEF PastCheck, Idle
  <2>6. S = {}
    BY <2>3, <2>5 DEF FindDuplicate, Equal
  <2> QED
    BY <1>2, <2>3, <2>6 DEF FindDuplicate
<1>4. ASSUME NEW c \in Calls, createGroupPaymentRequests(c)
      PROVE  S' \subseteq S
  <2>1. call[c].payment # None
    BY <1>1, <1>4, PaymentsAssumption DEF createGroupPaymentRequests, OwnPayment,
       Constructing
  <2>2. ASSUME NEW i \in S'
        PROVE  i \in S
    <3>1. i \in RequestIds /\ requests'[i].payment = None
      BY <2>2 DEF Equal
    <3>2. requests'[i] = requests[i]
      BY <1>4, <2>1, <3>1 DEF createGroupPaymentRequests, InsertRequests
    <3> QED
      BY <2>2, <3>1, <3>2 DEF Equal, EqualTo
  <2> QED
    BY <2>2
<1>5. ASSUME NEW c \in Calls, AcceptUpdate(c) \/ DenyUpdate(c)
      PROVE  S' \subseteq S
  <2>1. PICK status \in {"accepted", "denied"} : updateStatus(c, status)
    BY <1>5 DEF AcceptUpdate, DenyUpdate
  <2>2. ASSUME NEW i \in S'
        PROVE  i \in S
    <3>1. i \in RequestIds /\ requests'[i].status = "pending"
      BY <2>2 DEF Equal
    <3>2. requests'[i] = requests[i]
      BY <1>1, <2>1, <3>1, StatusUpdated
    <3> QED
      BY <2>2, <3>1, <3>2 DEF Equal, EqualTo
  <2> QED
    BY <2>2
<1>6. ASSUME NEW c \in Calls, NEW i \in RequestIds, InsertRequest(c, i)
      PROVE  \/ S' \subseteq S
             \/ i \notin S /\ S' = S \cup {i} /\ c \in F /\ F' = F \ {c}
  <2>1. /\ requests'[i] = [status |-> "pending", payer |-> call[c].payer,
                           payee |-> call[c].who, amount |-> call[c].amount,
                           payment |-> None]
        /\ \A j \in RequestIds \ {i} : requests'[j] = requests[j]
    BY <1>1, <1>6 DEF InsertRequest, TypeOK
  <2>2. call'[c] = Idle /\ \A d \in Calls \ {c} : call'[d] = call[d]
    BY <1>1, <1>6, Becomes DEF InsertRequest, Finish
  <2>3. F' = F \ {c}
    BY <2>2 DEF PastCheck, Idle
  <2>4. i \notin S
    BY <1>6 DEF InsertRequest, Equal
  <2>5. CASE c \in F
    <3>1. i \in S'
      BY <2>1, <2>5 DEF PastCheck, Equal, EqualTo
    <3>2. S' = S \cup {i}
      BY <2>1, <2>4, <3>1 DEF Equal, EqualTo
    <3> QED
      BY <2>3, <2>4, <2>5, <3>2
  <2>6. CASE c \notin F
    <3>1. i \notin S'
      BY <1>6, <2>1, <2>6 DEF InsertRequest, PastCheck, Equal, EqualTo
    <3> QED
      BY <2>1, <3>1 DEF Equal, EqualTo
  <2> QED
    BY <2>5, <2>6
<1>7. \/ S' \subseteq S
      \/ \E i, r : i \notin S /\ S' = S \cup {i} /\ r \in F /\ F' = F \ {r}
  BY <1>2, <1>4, <1>5, <1>6, RequestWriters
<1>8. CASE UNCHANGED vars
  BY <1>2, <1>8 DEF vars, PastCheck
<1>9. F' \subseteq F \/ S' = {}
  BY <1>1, <1>3, <1>8, OneActs DEF PastCheck
<1> QED
  BY <1>7, <1>9

LEMMA DuplicatesInductive == Spec => []DuplicatesInv
<1>1. Cardinality(Calls) \in Nat /\ Cardinality(Calls) <= Cardinality(Calls)
  BY PaymentsAssumption, FS_CardinalityType
<1>2. \A payer, payee, amount : PastCheck(payer, payee, amount) \subseteq Calls
  BY DEF PastCheck
<1>3. Init => DuplicatesInv
  <2> SUFFICES ASSUME Init, NEW payer \in Addresses, NEW payee \in Addresses,
                      NEW amount \in Amounts
               PROVE  /\ IsFiniteSet(Equal(payer, payee, amount))
                      /\ Cardinality(Equal(payer, payee, amount))
                            + Cardinality(PastCheck(payer, payee, amount))
                           <= Cardinality(Calls)
    BY DEF DuplicatesInv
  <2>1. Equal(payer, payee, amount) = {}
    BY DEF Init, Equal, NoRequest
  <2>2. PastCheck(payer, payee, amount) = {}
    BY DEF Init, PastCheck, Idle
  <2> QED
    BY <1>1, <2>1, <2>2, FS_EmptySet
<1>4. IInv /\ DuplicatesInv /\ [Next]_vars => DuplicatesInv'
  <2> SUFFICES ASSUME IInv, DuplicatesInv, [Next]_vars, NEW payer \in Addresses,
                      NEW payee \in Addresses, NEW amount \in Amounts
               PROVE  (/\ IsFiniteSet(Equal(payer, payee, amount))
                       /\ Cardinality(Equal(payer, payee, amount))
                             + Cardinality(PastCheck(payer, payee, amount))
                            <= Cardinality(Calls))'
    BY DEF DuplicatesInv
  <2>1. /\ IsFiniteSet(Equal(payer, payee, amount))
        /\ Cardinality(Equal(payer, payee, amount))
              + Cardinality(PastCheck(payer, payee, amount)) <= Cardinality(Calls)
    BY DEF DuplicatesInv
  <2>2. PastCheck(payer, payee, amount)' \subseteq Calls
    BY DEF PastCheck
  <2> QED
    BY <1>1, <1>2, <2>1, <2>2, DuplicateStep, PaymentsAssumption, Counting
<1> QED
  BY <1>3, <1>4, Inductive, PTL DEF Spec

(* DuplicatesBounded: createRequest never lets more equal requests be       *)
(* pending than calls can run side by side.                                 *)
THEOREM DuplicatesStayBounded == Spec => []DuplicatesBounded
<1>1. DuplicatesInv => DuplicatesBounded
  <2> SUFFICES ASSUME DuplicatesInv, NEW payer \in Addresses, NEW payee \in Addresses,
                      NEW amount \in Amounts
               PROVE  Cardinality(Equal(payer, payee, amount)) <= Cardinality(Calls)
    BY DEF DuplicatesBounded
  <2>1. IsFiniteSet(PastCheck(payer, payee, amount))
    BY PaymentsAssumption, FS_Subset DEF PastCheck
  <2>2. Cardinality(PastCheck(payer, payee, amount)) \in Nat
        /\ Cardinality(Equal(payer, payee, amount)) \in Nat
        /\ Cardinality(Calls) \in Nat
    BY <2>1, PaymentsAssumption, FS_CardinalityType DEF DuplicatesInv
  <2> QED
    BY <2>2 DEF DuplicatesInv
<1> QED
  BY <1>1, DuplicatesInductive, PTL

-----------------------------------------------------------------------------
(* The requests of a payment and the rows of its members. *)

LEMMA AskedInit == Init => AskedInv
<1>1. Init => \A i \in RequestIds : requests[i].payment = None
  BY DEF Init, NoRequest
<1>2. Init => \A c \in Calls : call[c].at = "idle"
  BY DEF Init, Idle
<1> QED
  BY <1>1, <1>2, PaymentsAssumption DEF AskedInv, AskedTogether, RowsInHand, RequestsOf

(* Nobody else writes the rows of a payment under construction. *)
LEMMA RowsInHandKept ==
  ASSUME IInv, [Next]_vars, NEW c \in Calls, RowsInHand(c)
  PROVE  RowsInHand(c)'
<1> SUFFICES ASSUME call'[c].at = "requests.insert", NEW s \in Slots
             PROVE  statuses'[call'[c].payment][s].member = call'[c].members[s]
  BY DEF RowsInHand
<1>1. TypeOK /\ OwnPayment(c)
  BY DEF IInv
<1>2. CASE call'[c] = call[c]
  <2>1. call[c].payment \in PaymentIds
    BY <1>1, <1>2 DEF OwnPayment, Constructing
  <2>2. \A d \in Calls : createMemberStatus(d) => call[d].payment # call[c].payment
    BY <1>1, <1>2 DEF OwnPayment, Constructing, createMemberStatus
  <2>3. statuses'[call[c].payment][s].member = statuses[call[c].payment][s].member
    BY <2>1, <2>2, StatusesStay
  <2> QED
    BY <1>2, <2>3 DEF RowsInHand
<1>3. CASE createMemberStatus(c)
  <2>1. call[c] \in CallState /\ call[c].members \in [Slots -> Address]
    BY <1>1 DEF TypeOK, CallState, Lists
  <2>2. call'[c] = [call[c] EXCEPT !.at = "requests.insert"]
    BY <1>1, <1>3, Becomes DEF createMemberStatus, Goto
  <2>3. call'[c].payment = call[c].payment /\ call'[c].members = call[c].members
    BY <2>1, <2>2 DEF CallState
  <2>4. call[c].payment \in PaymentIds
    BY <1>1, <1>3 DEF createMemberStatus, OwnPayment, Constructing
  <2>5. statuses'[call[c].payment] =
          [t \in Slots |-> IF t \in Used(call[c].members)
                           THEN [status |-> "pending", member |-> call[c].members[t]]
                           ELSE NoMember]
    BY <1>1, <1>3, <2>4 DEF createMemberStatus, TypeOK
  <2> QED
    BY <2>1, <2>3, <2>5 DEF Used, NoMember
<1>4. CASE Acts(c)
  BY <1>1, <1>3, <1>4, StepTakes, AnswerTakes, InsertTakes DEF Ends
<1> QED
  BY <1>1, <1>2, <1>4, OneActs, OthersStay DEF vars

(* The rows of the payments and the requests that are there stay.          *)
LEMMA AskedRowsStay ==
  ASSUME IInv, AskedInv, [Next]_vars, NEW p \in PaymentIds, RequestsOf(p) # {}
  PROVE  \A s \in Slots : statuses'[p][s].member = statuses[p][s].member
<1>1. PICK i \in RequestIds : requests[i].payment = p
  BY DEF RequestsOf
<1>2. \A c \in Calls : createMemberStatus(c) => call[c].payment # p
  BY <1>1 DEF IInv, OwnPayment, Constructing, createMemberStatus
<1> QED
  BY <1>2, StatusesStay

LEMMA RequestsAdded ==
  ASSUME IInv, AskedInv, [Next]_vars, NEW i \in RequestIds, requests'[i].payment # None
  PROVE  /\ requests'[i].status # "none"
         /\ \/ /\ requests'[i].payment = requests[i].payment
               /\ requests'[i].payer = requests[i].payer
            \/ \E c \in Calls : \E ids \in Numberings(Members(call[c].members)) :
                  /\ createGroupPaymentRequests(c) /\ ValidRequests(call[c])
                  /\ InsertRequests(c, ids)
                  /\ \E m \in DOMAIN ids : ids[m] = i
<1>0. TypeOK
  BY DEF IInv
<1>1. CASE requests[i].payment # None
  BY <1>1, RequestsStay DEF AskedInv
<1>2. CASE requests[i].payment = None
  <2>1. requests'[i] # requests[i]
    BY <1>2
  <2>2. ASSUME NEW c \in Calls, AcceptUpdate(c) \/ DenyUpdate(c)
        PROVE  FALSE
    <3>1. requests'[i].payment = requests[i].payment
      BY <1>0, <2>2, StatusUpdated DEF AcceptUpdate, DenyUpdate
    <3> QED
      BY <1>2, <3>1
  <2>3. ASSUME NEW c \in Calls, NEW j \in RequestIds, InsertRequest(c, j)
        PROVE  FALSE
    <3>1. requests'[i].payment \in {requests[i].payment, None}
      BY <1>0, <2>3 DEF InsertRequest, TypeOK
    <3> QED
      BY <1>2, <3>1
  <2>4. PICK c \in Calls : createGroupPaymentRequests(c)
    BY <2>1, <2>2, <2>3, RequestWriters
  <2>5. PICK ids \in Numberings(Members(call[c].members)) :
           ValidRequests(call[c]) /\ InsertRequests(c, ids)
    BY <2>1, <2>4 DEF createGroupPaymentRequests
  <2>6. (\E m \in DOMAIN ids : ids[m] = i) /\ requests'[i].status = "pending"
    BY <2>1, <2>5 DEF InsertRequests
  <2> QED
    BY <2>4, <2>5, <2>6
<1> QED
  BY <1>1, <1>2

(* The requests that createGroupPaymentRequests inserts. *)
LEMMA AskedNow ==
  ASSUME IInv, AskedInv, [Next]_vars, NEW c \in Calls, createGroupPaymentRequests(c),
         ValidRequests(call[c]), NEW ids \in Numberings(Members(call[c].members)),
         InsertRequests(c, ids), NEW p \in PaymentIds, p = call[c].payment
  PROVE  /\ \A s \in Slots : Row(p, s)' =>
              \E i \in RequestsOf(p)' : requests'[i].payer = statuses'[p][s].member
         /\ \A i, j \in RequestsOf(p)' : requests'[i].payer = requests'[j].payer => i = j
         /\ \A s, t \in Slots : Row(p, s)' /\ statuses'[p][s].member = statuses'[p][t].member
                                => s = t
<1> DEFINE list == call[c].members
<1>1. TypeOK /\ OwnPayment(c) /\ RowsInHand(c) /\ call[c].at = "requests.insert"
  BY DEF IInv, AskedInv, createGroupPaymentRequests
<1>2. /\ \A s \in Slots : statuses'[p][s].member = list[s]
      /\ \A i \in RequestIds : requests[i].payment # p
  BY <1>1 DEF createGroupPaymentRequests, RowsInHand, OwnPayment, Constructing
<1>3. /\ ids \in [Members(list) -> RequestIds]
      /\ \A m, n \in Members(list) : ids[m] = ids[n] => m = n
  BY DEF Numberings
<1>4. \A m \in Members(list) : (CHOOSE n \in Members(list) : ids[n] = ids[m]) = m
  BY <1>3
<1>5. \A m \in Members(list) : /\ ids[m] \in RequestIds
                               /\ requests'[ids[m]].payer = m
                               /\ requests'[ids[m]].payment = p
  BY <1>3, <1>4 DEF InsertRequests
<1>6. \A i \in RequestIds : requests'[i].payment = p => \E m \in Members(list) : ids[m] = i
  BY <1>2, <1>3 DEF InsertRequests
<1>7. \A s \in Slots : list[s] # None => list[s] \in Members(list)
  BY DEF Members, Used
<1>8. ASSUME NEW s \in Slots, Row(p, s)'
      PROVE  \E i \in RequestsOf(p)' : requests'[i].payer = statuses'[p][s].member
  <2>1. statuses'[p][s].member = list[s] /\ list[s] \in Members(list)
    BY <1>2, <1>7, <1>8 DEF Row
  <2> QED
    BY <1>5, <2>1 DEF RequestsOf
<1>9. ASSUME NEW i \in RequestsOf(p)', NEW j \in RequestsOf(p)',
             requests'[i].payer = requests'[j].payer
      PROVE  i = j
  <2>1. PICK m \in Members(list), n \in Members(list) : ids[m] = i /\ ids[n] = j
    BY <1>6, <1>9 DEF RequestsOf
  <2> QED
    BY <1>5, <1>9, <2>1
<1>10. ASSUME NEW s \in Slots, NEW t \in Slots, Row(p, s)',
              statuses'[p][s].member = statuses'[p][t].member
       PROVE  s = t
  <2>1. list[s] = list[t] /\ list[s] # None
    BY <1>2, <1>10 DEF Row
  <2> QED
    BY <2>1 DEF ValidRequests, Distinct, Used
<1> QED
  BY <1>8, <1>9, <1>10

LEMMA AskedNext == IInv /\ AskedInv /\ [Next]_vars => AskedInv'
<1> SUFFICES ASSUME IInv, AskedInv, [Next]_vars
             PROVE  AskedInv'
  OBVIOUS
<1>1. \A c \in Calls : RowsInHand(c)'
  BY RowsInHandKept DEF AskedInv
<1>2. \A i \in RequestIds : requests'[i].payment # None => requests'[i].status # "none"
  BY RequestsAdded
<1>3. ASSUME NEW p \in PaymentIds, RequestsOf(p)' # {}
      PROVE  /\ \A s \in Slots : Row(p, s)' =>
                  \E i \in RequestsOf(p)' : requests'[i].payer = statuses'[p][s].member
             /\ \A i, j \in RequestsOf(p)' : requests'[i].payer = requests'[j].payer => i = j
             /\ \A s, t \in Slots :
                  Row(p, s)' /\ statuses'[p][s].member = statuses'[p][t].member => s = t
  <2>0. p # None
    BY PaymentsAssumption
  <2>1. CASE \E c \in Calls : \E ids \in Numberings(Members(call[c].members)) :
               /\ createGroupPaymentRequests(c) /\ ValidRequests(call[c])
               /\ InsertRequests(c, ids) /\ p = call[c].payment
    BY <2>1, AskedNow
  <2>2. CASE ~ \E c \in Calls : \E ids \in Numberings(Members(call[c].members)) :
                 /\ createGroupPaymentRequests(c) /\ ValidRequests(call[c])
                 /\ InsertRequests(c, ids) /\ p = call[c].payment
    <3>1. ASSUME NEW i \in RequestIds, requests'[i].payment = p
          PROVE  requests[i].payment = p /\ requests'[i].payer = requests[i].payer
      <4>1. ASSUME NEW c \in Calls, NEW ids \in Numberings(Members(call[c].members)),
                   createGroupPaymentRequests(c), ValidRequests(call[c]),
                   InsertRequests(c, ids), \E m \in DOMAIN ids : ids[m] = i
            PROVE  p = call[c].payment
        BY <3>1, <4>1 DEF InsertRequests
      <4> QED
        BY <2>0, <2>2, <3>1, <4>1, RequestsAdded
    <3>2. ASSUME NEW i \in RequestIds, requests[i].payment = p
          PROVE  requests'[i].payment = p /\ requests'[i].payer = requests[i].payer
      BY <2>0, <3>2, RequestsStay DEF AskedInv
    <3>3. RequestsOf(p)' = RequestsOf(p) /\ \A i \in RequestsOf(p) : requests'[i].payer = requests[i].payer
      BY <3>1, <3>2 DEF RequestsOf
    <3>4. \A s \in Slots : statuses'[p][s].member = statuses[p][s].member
      BY <1>3, <3>3, AskedRowsStay
    <3> QED
      BY <1>3, <3>3, <3>4 DEF AskedInv, AskedTogether, Row
  <2> QED
    BY <2>1, <2>2
<1> QED
  BY <1>1, <1>2, <1>3 DEF AskedInv, AskedTogether

(* AskedTogether: createGroupPayment asks all the members, each once, or    *)
(* none of them.                                                            *)
THEOREM MembersAreAskedTogether == Spec => []AskedTogether
<1>1. AskedInv => AskedTogether
  BY DEF AskedInv
<1> QED
  BY <1>1, AskedInit, AskedNext, Inductive, PTL DEF Spec

-----------------------------------------------------------------------------
(* GroupSpec: the tables implement the abstract group payment. *)

LEMMA ViewInit == Init => ViewInv
<1> SUFFICES ASSUME Init PROVE ViewInv
  OBVIOUS
<1>1. \A p \in PaymentIds : payments[p] = NoPayment /\ NoRows(p)
  BY DEF Init, NoRows
<1>2. \A p \in PaymentIds, s \in Slots : statuses[p][s].status = "none" /\ ~Row(p, s)
  BY DEF Init, NoMember, Row
<1>3. \A i \in RequestIds : requests[i].payment = None
  BY DEF Init, NoRequest
<1>4. \A c \in Calls : call[c].at = "idle"
  BY DEF Init, Idle
<1> QED
  BY <1>1, <1>2, <1>3, <1>4 DEF ViewInv, Constructing

(* What a payment that is there keeps. *)
LEMMA OwnersStay ==
  ASSUME IInv, [Next]_vars, NEW p \in PaymentIds
  PROVE  payments[p].status # "none" => payments'[p].owner = payments[p].owner
<1>1. TypeOK
  BY DEF IInv
<1>2. ASSUME NEW c \in Calls, SavePayment(c)
      PROVE  payments'[p].owner = payments[p].owner
  BY <1>1, <1>2 DEF SavePayment, TypeOK, PaymentRow
<1>3. ASSUME NEW c \in Calls, NEW q \in PaymentIds, InsertPayment(c, q),
             payments[p].status # "none"
      PROVE  payments'[p].owner = payments[p].owner
  BY <1>1, <1>3 DEF InsertPayment, TypeOK
<1> QED
  BY <1>2, <1>3, PaymentWriters

LEMMA NothingYetKept ==
  ASSUME IInv, ViewInv, [Next]_vars, NEW p \in PaymentIds, payments'[p].status = "none"
  PROVE  payments'[p] = NoPayment /\ NoRows(p)'
<1>1. TypeOK /\ Referenced
      /\ \A c \in Calls : OwnPayment(c) /\ AnswerInHand(c)
  BY DEF IInv
<1>2. payments[p].status = "none"
  BY PaymentsStay
<1>3. payments[p] = NoPayment /\ NoRows(p)
  BY <1>2 DEF ViewInv
<1>4. payments'[p] = payments[p]
  <2>1. ASSUME NEW c \in Calls, NEW q \in PaymentIds, InsertPayment(c, q)
        PROVE  payments'[p] = payments[p]
    BY <1>1, <2>1 DEF InsertPayment, TypeOK
  <2>2. ASSUME NEW c \in Calls, SavePayment(c)
        PROVE  payments'[p] = payments[p]
    <3>1. call[c].payment # p
      BY <1>1, <1>2, <2>2, PaymentsAssumption DEF Referenced, SavePayment
    <3> QED
      BY <1>1, <2>2, <3>1 DEF SavePayment, TypeOK
  <2> QED
    BY <2>1, <2>2, PaymentWriters
<1>5. \A c \in Calls : call[c].payment # p
  BY <1>1, <1>2, PaymentsAssumption DEF Referenced
<1>6. statuses'[p] = statuses[p]
  <2>1. ASSUME NEW c \in Calls, createMemberStatus(c) \/ SaveMember(c)
        PROVE  statuses'[p] = statuses[p]
    BY <1>1, <1>5, <2>1 DEF createMemberStatus, SaveMember, TypeOK
  <2> QED
    BY <2>1, StatusWriters
<1> QED
  BY <1>3, <1>4, <1>6 DEF NoRows

(* A call that pays acts for the payer of its request, which is somebody. *)
LEMMA PayerInHand ==
  ASSUME IInv, ViewInv, NEW c \in Calls, Paying(c)
  PROVE  /\ call[c].who # None /\ call[c].payment \in PaymentIds
         /\ call[c].request \in RequestsOf(call[c].payment)
         /\ requests[call[c].request].payer = call[c].who
         /\ requests[call[c].request].status \in {"accepted", "denied"}
<1>1. AnswerInHand(c)
  BY DEF IInv
<1> QED
  BY <1>1, PaymentsAssumption DEF AnswerInHand, ViewInv, RequestsOf

LEMMA RowsMarkedKept ==
  ASSUME IInv, ViewInv, [Next]_vars, NEW p \in PaymentIds, NEW s \in Slots
  PROVE  statuses'[p][s].status = "none" <=> ~Row(p, s)'
<1>1. TypeOK /\ \A c \in Calls : OwnPayment(c) /\ AnswerInHand(c) /\ MemberInHand(c)
  BY DEF IInv
<1>2. statuses[p][s].status = "none" <=> statuses[p][s].member = None
  BY DEF ViewInv, Row
<1>3. CASE statuses'[p][s] = statuses[p][s]
  BY <1>2, <1>3 DEF Row
<1>4. ASSUME NEW c \in Calls, createMemberStatus(c), p = call[c].payment
      PROVE  statuses'[p][s].status = "none" <=> ~Row(p, s)'
  <2>1. statuses'[p] =
          [t \in Slots |-> IF t \in Used(call[c].members)
                           THEN [status |-> "pending", member |-> call[c].members[t]]
                           ELSE NoMember]
    BY <1>1, <1>4 DEF createMemberStatus, TypeOK
  <2> QED
    BY <2>1 DEF Used, NoMember, Row
<1>5. ASSUME NEW c \in Calls, createMemberStatus(c), p # call[c].payment
      PROVE  statuses'[p] = statuses[p]
  BY <1>1, <1>5 DEF createMemberStatus, TypeOK
<1>6. ASSUME NEW c \in Calls, SaveMember(c), p = call[c].payment, s = call[c].slot
      PROVE  statuses'[p][s].status = "none" <=> ~Row(p, s)'
  <2>1. statuses'[p][s] = [status |-> "paid", member |-> statuses[p][s].member]
    BY <1>1, <1>6, MemberSaved
  <2>2. statuses[p][s].member # None
    BY <1>1, <1>6, PayerInHand DEF SaveMember, MemberInHand, Paying
  <2> QED
    BY <2>1, <2>2 DEF Row
<1>7. ASSUME NEW c \in Calls, SaveMember(c), p # call[c].payment \/ s # call[c].slot
      PROVE  statuses'[p][s] = statuses[p][s]
  BY <1>1, <1>7, MemberSaved
<1> QED
  BY <1>3, <1>4, <1>5, <1>6, <1>7, StatusWriters

LEMMA PayersKept ==
  ASSUME IInv, AskedInv, ViewInv, [Next]_vars, NEW i \in RequestIds,
         requests'[i].payment # None
  PROVE  requests'[i].payer # None
<1>1. CASE requests'[i].payment = requests[i].payment /\ requests'[i].payer = requests[i].payer
  BY <1>1 DEF ViewInv
<1>2. ASSUME NEW c \in Calls, NEW ids \in Numberings(Members(call[c].members)),
             InsertRequests(c, ids), \E m \in DOMAIN ids : ids[m] = i
      PROVE  requests'[i].payer # None
  <2>1. requests'[i].payer = CHOOSE m \in DOMAIN ids : ids[m] = i
    BY <1>2 DEF InsertRequests
  <2>2. (CHOOSE m \in DOMAIN ids : ids[m] = i) \in DOMAIN ids
    BY <1>2
  <2>3. DOMAIN ids = Members(call[c].members)
    BY DEF Numberings
  <2> QED
    BY <2>1, <2>2, <2>3 DEF Members, Used
<1> QED
  BY <1>1, <1>2, RequestsAdded

LEMMA ConstructionKept ==
  ASSUME IInv, ViewInv, [Next]_vars, NEW c \in Calls
  PROVE  /\ Constructing(c)' => payments'[call'[c].payment].owner = call'[c].who
         /\ call'[c].at = "statuses.insert" => NoRows(call[c].payment)'
<1> SUFFICES ASSUME Constructing(c)'
             PROVE  /\ payments'[call'[c].payment].owner = call'[c].who
                    /\ call'[c].at = "statuses.insert" =>
                          \A s \in Slots : statuses'[call'[c].payment][s] = NoMember
  BY DEF Constructing, NoRows
<1> DEFINE p == call'[c].payment
<1>1. TypeOK /\ \A d \in Calls : OwnPayment(d) /\ AnswerInHand(d)
  BY DEF IInv
<1>2. ASSUME InsertPayment(c, p), p \in PaymentIds
      PROVE  /\ payments'[p].owner = call'[c].who
             /\ \A s \in Slots : statuses'[p][s] = NoMember
  <2>1. call[c] \in CallState
    BY <1>1 DEF TypeOK
  <2>2. call'[c] = [call[c] EXCEPT !.at = "statuses.insert", !.payment = p]
    BY <1>1, <1>2, Becomes DEF InsertPayment
  <2>3. call'[c].who = call[c].who
    BY <2>1, <2>2 DEF CallState
  <2>4. payments'[p].owner = call[c].who
    BY <1>1, <1>2 DEF InsertPayment, TypeOK
  <2>5. payments[p].status = "none" /\ UNCHANGED statuses
    BY <1>2 DEF InsertPayment
  <2>6. NoRows(p)
    BY <1>2, <2>5 DEF ViewInv
  <2> QED
    BY <2>3, <2>4, <2>5, <2>6 DEF NoRows
<1>3. ASSUME Constructing(c), p = call[c].payment, ~createGroupPaymentRequests(c)
      PROVE  /\ payments'[p].owner = call'[c].who
             /\ call'[c].at = "statuses.insert" =>
                   \A s \in Slots : statuses'[p][s] = NoMember
  <2>1. /\ p \in PaymentIds /\ payments[p].status = "pending"
        /\ \A d \in Calls \ {c} : call[d].payment # p
    BY <1>1, <1>3 DEF OwnPayment
  <2>2. payments'[p].owner = call[c].who
    BY <1>3, <2>1, OwnersStay DEF ViewInv
  <2>3. call'[c].who = call[c].who /\ (call'[c].at = call[c].at \/ createMemberStatus(c))
    <3>1. CASE call'[c] = call[c]
      BY <3>1
    <3>2. CASE Acts(c)
      <4>1. ~Ends(c)
        BY DEF Ends, Constructing
      <4>2. \A a \in Addresses, i \in RequestIds,
              step \in {"accept.update", "deny.update"} : ~FindRequest(c, a, i, step)
        BY <1>3 DEF FindRequest, Constructing
      <4> QED
        BY <1>1, <1>3, <3>2, <4>1, <4>2, StepTakes DEF Holding, Constructing,
           InsertPayment, AcceptUpdate, FindMemberStatus, SaveMember, CheckAllPaid
    <3> QED
      BY <1>1, <3>1, <3>2, OneActs, OthersStay DEF vars
  <2>4. createMemberStatus(c) => call'[c].at = "requests.insert"
    BY <1>1, Goes DEF createMemberStatus, Steps
  <2>5. ASSUME call'[c].at = "statuses.insert"
        PROVE  \A s \in Slots : statuses'[p][s] = NoMember
    <3>1. call[c].at = "statuses.insert" /\ NoRows(p)
      BY <1>3, <2>3, <2>4, <2>5 DEF ViewInv
    <3>2. ASSUME NEW d \in Calls, createMemberStatus(d) \/ SaveMember(d)
          PROVE  statuses'[p] = statuses[p]
      <4>1. d # c
        BY <2>4, <2>5, <3>1, <3>2 DEF SaveMember
      <4>2. call[d].payment # p
        BY <2>1, <4>1
      <4> HIDE DEF p
      <4> QED
        BY <1>1, <2>1, <3>2, <4>2 DEF createMemberStatus, SaveMember, TypeOK
    <3>3. statuses'[p] = statuses[p]
      BY <3>2, StatusWriters
    <3> QED
      BY <3>1, <3>3 DEF NoRows
  <2> QED
    BY <2>2, <2>3, <2>5
<1> QED
  BY <1>2, <1>3, Constructs

LEMMA OwnerInHandKept ==
  ASSUME IInv, ViewInv, [Next]_vars, NEW c \in Calls, call'[c].at = "payment.insert"
  PROVE  call'[c].who # None
<1>1. TypeOK
  BY DEF IInv
<1>2. CASE call'[c] = call[c]
  BY <1>2 DEF ViewInv
<1>3. CASE Acts(c)
  <2>1. PICK a \in Addresses : call'[c].who = normalizeAddress[a]
    BY <1>1, <1>3, JustCreated, CreatedAt
  <2> QED
    BY <2>1, NormalizeAssumption, PaymentsAssumption
<1> QED
  BY <1>1, <1>2, <1>3, OneActs, OthersStay DEF vars

LEMMA ViewNext == IInv /\ AskedInv /\ ViewInv /\ [Next]_vars => ViewInv'
<1> SUFFICES ASSUME IInv, AskedInv, ViewInv, [Next]_vars PROVE ViewInv'
  OBVIOUS
<1>1. \A p \in PaymentIds :
        /\ payments'[p].status = "none" => payments'[p] = NoPayment /\ NoRows(p)'
        /\ \A s \in Slots : statuses'[p][s].status = "none" <=> ~Row(p, s)'
  BY NothingYetKept, RowsMarkedKept
<1>2. \A i \in RequestIds : requests'[i].payment # None => requests'[i].payer # None
  BY PayersKept
<1>3. \A c \in Calls :
        /\ Constructing(c)' => payments'[call'[c].payment].owner = call'[c].who
        /\ call'[c].at = "statuses.insert" => NoRows(call[c].payment)'
        /\ call'[c].at = "payment.insert" => call'[c].who # None
  BY ConstructionKept, OwnerInHandKept
<1> QED
  BY <1>1, <1>2, <1>3 DEF ViewInv

(* What is said of a payment changes with its row, its members' rows and    *)
(* its requests only.                                                       *)
LEMMA ListStays ==
  ASSUME NEW q \in PaymentIds, statuses'[q] = statuses[q]
  PROVE  Listed(q)' = Listed(q) /\ Paid(q)' = Paid(q)
  BY DEF Listed, Paid, Row

LEMMA AnswersOfStay ==
  ASSUME NEW q \in PaymentIds, RequestsOf(q)' = RequestsOf(q),
         \A i \in RequestsOf(q) : requests'[i] = requests[i]
  PROVE  Asked(q)' = Asked(q) /\ Answered(q)' = Answered(q)
<1>1. Asked(q)' = Asked(q)
  BY DEF Asked
<1>2. Answered(q)' = Answered(q)
  BY DEF Answered
<1> QED
  BY <1>1, <1>2

LEMMA ViewStays ==
  ASSUME NEW q \in PaymentIds,
         payments'[q] = payments[q], statuses'[q] = statuses[q],
         RequestsOf(q)' = RequestsOf(q),
         \A i \in RequestsOf(q) : requests'[i] = requests[i]
  PROVE  View(q)' = View(q)
  BY ListStays, AnswersOfStay DEF View

LEMMA ViewChanged ==
  ASSUME NEW p \in PaymentIds, NEW w, View(p)' = w,
         \A q \in PaymentIds \ {p} : View(q)' = View(q)
  PROVE  Group!Change(p, w)
  BY DEF Group!Change

LEMMA NothingSaid ==
  ASSUME NEW p \in PaymentIds
  PROVE  /\ NoRows(p) => Listed(p) = {} /\ Paid(p) = {}
         /\ RequestsOf(p) = {} => Asked(p) = {} /\ Answered(p) = {}
  BY DEF NoRows, NoMember, Listed, Paid, Asked, Answered, Row

LEMMA OpenStep ==
  ASSUME IInv, AskedInv, ViewInv, NEW c \in Calls, NEW p \in PaymentIds, InsertPayment(c, p)
  PROVE  Group!Next
<1>1. TypeOK /\ Referenced
  BY DEF IInv
<1>2. payments[p] = NoPayment /\ NoRows(p)
  BY DEF InsertPayment, ViewInv
<1>3. RequestsOf(p) = {}
  BY <1>1, <1>2, PaymentsAssumption DEF RequestsOf, Referenced, NoPayment
<1>4. View(p) = Group!New
  BY <1>2, <1>3, NothingSaid DEF View, Group!New, NoPayment
<1>5. call[c].who \in Addresses
  BY <1>1 DEF InsertPayment, ViewInv, TypeOK, CallState, Address
<1>6. payments'[p] = [status |-> "pending", owner |-> call[c].who]
      /\ \A q \in PaymentIds \ {p} : payments'[q] = payments[q]
  BY <1>1 DEF InsertPayment, TypeOK
<1>7. UNCHANGED <<statuses, requests>>
  BY DEF InsertPayment
<1>8. \A q \in PaymentIds : RequestsOf(q)' = RequestsOf(q)
  BY <1>7 DEF RequestsOf
<1>9. View(p)' = Group!Opened(call[c].who)
  <2>1. Listed(p)' = {} /\ Paid(p)' = {} /\ Asked(p)' = {} /\ Answered(p)' = {}
    BY <1>2, <1>3, <1>7, <1>8, NothingSaid, ListStays, AnswersOfStay
  <2>2. View(p)' = [status |-> "pending", owner |-> call[c].who, members |-> {},
                    asked |-> {}, answered |-> {}, paid |-> {}]
    BY <1>6, <2>1 DEF View
  <2> QED
    BY <2>2 DEF Group!Opened
<1>10. \A q \in PaymentIds \ {p} : View(q)' = View(q)
  BY <1>6, <1>7, <1>8, ViewStays
<1>11. Group!Open(p, call[c].who)
  BY <1>4, <1>9, <1>10, ViewChanged DEF Group!Open
<1> QED
  BY <1>5, <1>11 DEF Group!Next

LEMMA ListStep ==
  ASSUME IInv, AskedInv, ViewInv, NEW c \in Calls, createMemberStatus(c),
         NEW p \in PaymentIds, p = call[c].payment
  PROVE  Group!Next
<1>1. TypeOK /\ OwnPayment(c)
  BY DEF IInv
<1>2. /\ payments[p].status = "pending" /\ NoRows(p)
      /\ \A i \in RequestIds : requests[i].payment # p
  BY <1>1 DEF createMemberStatus, OwnPayment, Constructing, ViewInv
<1>3. UNCHANGED <<payments, requests>>
  BY DEF createMemberStatus
<1>4. /\ \A s \in Slots : statuses'[p][s] =
           IF s \in Used(call[c].members)
           THEN [status |-> "pending", member |-> call[c].members[s]]
           ELSE NoMember
      /\ \A q \in PaymentIds \ {p} : statuses'[q] = statuses[q]
  BY <1>1, <1>2 DEF createMemberStatus, TypeOK
<1>5. RequestsOf(p) = {} /\ \A q \in PaymentIds : RequestsOf(q)' = RequestsOf(q)
  BY <1>2, <1>3 DEF RequestsOf
<1>6. PICK S : S = Listed(p)'
  OBVIOUS
<1>7. S \subseteq Addresses
  <2>1. \A s \in Slots : call[c].members[s] \in Addresses \cup {None}
    BY <1>1 DEF TypeOK, CallState, Lists, Address
  <2>2. ASSUME NEW s \in Slots
        PROVE  statuses'[p][s].member \in Addresses \cup {None}
    <3>1. CASE s \in Used(call[c].members)
      <4>1. statuses'[p][s] = [status |-> "pending", member |-> call[c].members[s]]
        BY <1>4, <3>1
      <4> QED
        BY <2>1, <4>1
    <3>2. CASE s \notin Used(call[c].members)
      <4>1. statuses'[p][s] = NoMember
        BY <1>4, <3>2
      <4> QED
        BY <4>1 DEF NoMember
    <3> QED
      BY <3>1, <3>2
  <2>3. ASSUME NEW m \in S
        PROVE  m \in Addresses
    <3>1. PICK s \in Slots : statuses'[p][s].member = m /\ m # None
      BY <1>6 DEF Listed, Row
    <3>2. statuses'[p][s].member \in Addresses \cup {None}
      BY <2>2
    <3> QED
      BY <3>1, <3>2
  <2> QED
    BY <2>3
<1>8. Paid(p)' = {}
  <2>1. ASSUME NEW s \in Slots
        PROVE  statuses'[p][s].status # "paid"
    <3>1. \/ statuses'[p][s] = [status |-> "pending", member |-> call[c].members[s]]
          \/ statuses'[p][s] = NoMember
      BY <1>4
    <3> QED
      BY <3>1 DEF NoMember
  <2> QED
    BY <2>1 DEF Paid
<1>9. /\ Listed(p) = {} /\ Paid(p) = {} /\ Asked(p) = {} /\ Answered(p) = {}
      /\ Asked(p)' = {} /\ Answered(p)' = {}
  BY <1>2, <1>3, <1>5, NothingSaid, AnswersOfStay
<1>10. View(p)' = [View(p) EXCEPT !.members = S]
  BY <1>3, <1>6, <1>8, <1>9 DEF View
<1>11. \A q \in PaymentIds \ {p} : View(q)' = View(q)
  BY <1>3, <1>4, <1>5, ViewStays
<1>12. Group!Change(p, [View(p) EXCEPT !.members = S])
  BY <1>10, <1>11, ViewChanged
<1>13. Group!List(p, S)
  <2>1. View(p).status = "pending" /\ View(p).members = {} /\ View(p).asked = {}
    BY <1>2, <1>9 DEF View
  <2> QED
    BY <1>12, <2>1 DEF Group!List
<1> QED
  BY <1>7, <1>13 DEF Group!Next

LEMMA CompleteStep ==
  ASSUME IInv, AskedInv, ViewInv, NEW c \in Calls, SavePayment(c),
         NEW p \in PaymentIds, p = call[c].payment
  PROVE  Group!Next
<1>1. TypeOK /\ MemberInHand(c)
  BY DEF IInv
<1>3. AllPaid(p) /\ SaidPaid(p)
  BY <1>1 DEF SavePayment, MemberInHand
<1>4. UNCHANGED <<statuses, requests>>
  BY DEF SavePayment
<1>5. /\ payments'[p].status = "completed" /\ payments'[p].owner = payments[p].owner
      /\ \A q \in PaymentIds \ {p} : payments'[q] = payments[q]
  BY <1>1 DEF SavePayment, TypeOK, PaymentRow
<1>6. \A s \in Slots : Row(p, s) <=> statuses[p][s].status = "paid"
  BY <1>3 DEF AllPaid, ViewInv
<1>7. Paid(p) = Listed(p) /\ Paid(p) # {}
  BY <1>3, <1>6 DEF Paid, Listed, SaidPaid
<1>8. \A q \in PaymentIds : RequestsOf(q)' = RequestsOf(q)
  BY <1>4 DEF RequestsOf
<1>9. View(p)' = [View(p) EXCEPT !.status = "completed"]
  BY <1>4, <1>5, <1>8, ListStays, AnswersOfStay DEF View
<1>10. \A q \in PaymentIds \ {p} : View(q)' = View(q)
  BY <1>4, <1>5, <1>8, ViewStays
<1>11. Group!Change(p, [View(p) EXCEPT !.status = "completed"])
  BY <1>9, <1>10, ViewChanged
<1>12. View(p).paid = View(p).members /\ View(p).paid # {}
  BY <1>7 DEF View
<1>13. Group!Complete(p)
  BY <1>11, <1>12 DEF Group!Complete
<1> QED
  BY <1>13 DEF Group!Next

(* The requests of a payment that createGroupPaymentRequests inserts, and   *)
(* what it leaves alone.                                                    *)
LEMMA AskStep ==
  ASSUME IInv, AskedInv, ViewInv, [Next]_vars, NEW c \in Calls,
         createGroupPaymentRequests(c), ValidRequests(call[c]),
         NEW ids \in Numberings(Members(call[c].members)), InsertRequests(c, ids),
         NEW p \in PaymentIds, p = call[c].payment
  PROVE  Group!Next
<1> DEFINE list == call[c].members
<1>1. TypeOK /\ OwnPayment(c) /\ RowsInHand(c) /\ call[c].at = "requests.insert"
  BY DEF IInv, AskedInv, createGroupPaymentRequests
<1>2. /\ payments[p].status = "pending" /\ payments[p].owner = call[c].who
      /\ \A s \in Slots : statuses[p][s].member = list[s]
      /\ \A i \in RequestIds : requests[i].payment # p
  BY <1>1 DEF RowsInHand, OwnPayment, Constructing, ViewInv
<1>3. UNCHANGED <<payments, statuses>>
  BY DEF createGroupPaymentRequests
<1>4. /\ ids \in [Members(list) -> RequestIds]
      /\ \A m \in Members(list) : requests[ids[m]].status = "none"
      /\ \A m, n \in Members(list) : ids[m] = ids[n] => m = n
  BY DEF Numberings
<1>5. \A m \in Members(list) : (CHOOSE n \in Members(list) : ids[n] = ids[m]) = m
  BY <1>4
<1>6. \A m \in Members(list) : /\ requests'[ids[m]].payer = m
                               /\ requests'[ids[m]].payment = p
                               /\ requests'[ids[m]].status = "pending"
  BY <1>4, <1>5 DEF InsertRequests
<1>7. \A i \in RequestIds : (\A m \in Members(list) : ids[m] # i) => requests'[i] = requests[i]
  BY <1>4 DEF InsertRequests
<1>8. \A i \in RequestsOf(p)' : \E m \in Members(list) : ids[m] = i
  BY <1>2, <1>7 DEF RequestsOf
<1>9. Listed(p) = Members(list)
  BY <1>2 DEF Listed, Row, Members, Used
<1>10. Asked(p)' = Listed(p)
  <2>1. ASSUME NEW m \in Asked(p)' PROVE m \in Members(list)
    BY <1>6, <1>8 DEF Asked
  <2>2. ASSUME NEW m \in Members(list) PROVE m \in Asked(p)'
    BY <1>4, <1>6 DEF Asked, RequestsOf
  <2> QED
    BY <1>9, <2>1, <2>2
<1>11. Answered(p)' = {}
  BY <1>6, <1>8 DEF Answered
<1>12. Asked(p) = {} /\ Answered(p) = {}
  BY <1>2, NothingSaid DEF RequestsOf
<1>13. View(p)' = [View(p) EXCEPT !.asked = View(p).members]
  BY <1>3, <1>10, <1>11, <1>12, ListStays DEF View
<1>14. ASSUME NEW q \in PaymentIds \ {p}
       PROVE  View(q)' = View(q)
  <2>1. \A m \in Members(list) : requests[ids[m]].payment = None
    BY <1>4 DEF AskedInv
  <2>2. \A i \in RequestIds : requests'[i].payment = q <=> requests[i].payment = q
    BY <1>6, <1>7, <2>1, PaymentsAssumption
  <2>3. RequestsOf(q)' = RequestsOf(q)
    BY <2>2 DEF RequestsOf
  <2>4. \A i \in RequestsOf(q) : requests'[i] = requests[i]
    BY <1>7, <2>1, PaymentsAssumption DEF RequestsOf
  <2> QED
    BY <1>3, <2>3, <2>4, ViewStays
<1>15. Group!Change(p, [View(p) EXCEPT !.asked = View(p).members])
  BY <1>13, <1>14, ViewChanged
<1>16. /\ View(p).status = "pending" /\ View(p).asked = {}
       /\ View(p).owner \notin View(p).members
  BY <1>2, <1>9, <1>12 DEF View, ValidRequests
<1>17. Group!Ask(p)
  BY <1>15, <1>16 DEF Group!Ask
<1> QED
  BY <1>17 DEF Group!Next

LEMMA AnswerStep ==
  ASSUME IInv, AskedInv, ViewInv, NEW c \in Calls, AcceptUpdate(c) \/ DenyUpdate(c),
         NEW p \in PaymentIds, p = call[c].payment
  PROVE  Group!Next
<1> DEFINE r == call[c].request
           m == call[c].who
<1>1. TypeOK /\ AnswerInHand(c)
  BY DEF IInv
<1>2. /\ r \in RequestIds /\ requests[r].payment = p /\ requests[r].payer = m
  BY <1>1 DEF AcceptUpdate, DenyUpdate, AnswerInHand
<1>3. UNCHANGED <<payments, statuses>>
  BY DEF AcceptUpdate, DenyUpdate
<1>4. PICK status \in {"accepted", "denied"} : updateStatus(c, status)
  BY DEF AcceptUpdate, DenyUpdate
<1>5. \A i \in RequestIds : /\ requests'[i].payment = requests[i].payment
                            /\ requests'[i].payer = requests[i].payer
                            /\ i = r => requests'[i].status = status
                            /\ i # r => requests'[i] = requests[i]
  BY <1>1, <1>4, StatusUpdated
<1>6. m \in Addresses
  BY <1>1, <1>2, PaymentsAssumption DEF ViewInv, TypeOK, CallState, Address
<1> HIDE DEF r, m
<1>7. \A q \in PaymentIds : RequestsOf(q)' = RequestsOf(q)
  BY <1>5 DEF RequestsOf
<1>8. Asked(p)' = Asked(p) /\ m \in Asked(p)
  BY <1>2, <1>5, <1>7 DEF Asked, RequestsOf
<1>9. Answered(p)' = Answered(p) \cup {m}
  <2> DEFINE A == {j \in RequestsOf(p) : requests[j].status \in {"accepted", "denied"}}
             B == {j \in RequestsOf(p) : requests'[j].status \in {"accepted", "denied"}}
  <2>1. B = A \cup {r}
    BY <1>2, <1>5 DEF RequestsOf
  <2>2. \A j \in RequestsOf(p) : requests'[j].payer = requests[j].payer
    BY <1>5 DEF RequestsOf
  <2>3. Answered(p)' = {requests'[i].payer : i \in B}
    BY <1>7 DEF Answered
  <2>4. Answered(p) = {requests[i].payer : i \in A}
    BY DEF Answered
  <2>5. A \subseteq RequestsOf(p) /\ r \in RequestsOf(p) /\ requests[r].payer = m
    BY <1>2 DEF RequestsOf
  <2> HIDE DEF A, B
  <2> QED
    BY <2>1, <2>2, <2>3, <2>4, <2>5
<1>10. View(p)' = [View(p) EXCEPT !.answered = @ \cup {m}]
  BY <1>3, <1>8, <1>9, ListStays DEF View
<1>11. ASSUME NEW q \in PaymentIds \ {p}
       PROVE  View(q)' = View(q)
  <2>1. \A i \in RequestsOf(q) : requests'[i] = requests[i]
    BY <1>2, <1>5 DEF RequestsOf
  <2> QED
    BY <1>3, <1>7, <2>1, ViewStays
<1>12. Group!Change(p, [View(p) EXCEPT !.answered = @ \cup {m}])
  BY <1>10, <1>11, ViewChanged
<1>13. m \in View(p).asked
  BY <1>8 DEF View
<1>14. PICK n \in Addresses : n = m
  BY <1>6
<1>15. Group!Answer(p, n)
  BY <1>12, <1>13, <1>14 DEF Group!Answer
<1> QED
  BY <1>15 DEF Group!Next

LEMMA PayStep ==
  ASSUME IInv, AskedInv, ViewInv, NEW c \in Calls, SaveMember(c),
         NEW p \in PaymentIds, p = call[c].payment
  PROVE  Group!Next
<1>1. TypeOK /\ AnswerInHand(c) /\ MemberInHand(c)
  BY DEF IInv
<1>2. PICK s \in Slots : s = call[c].slot /\ statuses[p][s].member = call[c].who
  BY <1>1 DEF SaveMember, MemberInHand
<1>3. PICK m \in Addresses : m = call[c].who
  BY <1>1, PayerInHand DEF SaveMember, Paying, TypeOK, CallState, Address
<1>4. UNCHANGED <<payments, requests>>
  BY DEF SaveMember
<1>5. /\ \A q \in PaymentIds \ {p} : statuses'[q] = statuses[q]
      /\ \A t \in Slots : statuses'[p][t].member = statuses[p][t].member
      /\ \A t \in Slots : t # s => statuses'[p][t].status = statuses[p][t].status
      /\ statuses'[p][s].status = "paid"
  <2>1. statuses' = [q \in PaymentIds |-> [t \in Slots |->
                        IF q = call[c].payment /\ t = call[c].slot
                        THEN [status |-> "paid", member |-> statuses[q][t].member]
                        ELSE statuses[q][t]]]
    BY <1>1, MemberSaved
  <2>2. \A q \in PaymentIds \ {p} : statuses'[q] = statuses[q]
    BY <1>1 DEF SaveMember, TypeOK
  <2> QED
    BY <1>2, <2>1, <2>2
<1>6. \A q \in PaymentIds : RequestsOf(q)' = RequestsOf(q)
  BY <1>4 DEF RequestsOf
<1>7. Listed(p)' = Listed(p)
  BY <1>5 DEF Listed, Row
<1>8. Paid(p)' = Paid(p) \cup {m}
  <2>1. \A t \in Slots : statuses'[p][t].status = "paid"
                           <=> statuses[p][t].status = "paid" \/ t = s
    BY <1>5
  <2> QED
    BY <1>2, <1>3, <1>5, <2>1 DEF Paid
<1>9. Asked(p)' = Asked(p) /\ Answered(p)' = Answered(p) /\ m \in Answered(p)
  <2>1. m \in Answered(p)
    BY <1>3, PayerInHand DEF SaveMember, Paying, Answered
  <2> QED
    BY <1>4, <1>6, <2>1, AnswersOfStay
<1>10. View(p)' = [View(p) EXCEPT !.paid = @ \cup {m}]
  BY <1>4, <1>7, <1>8, <1>9 DEF View
<1>11. \A q \in PaymentIds \ {p} : View(q)' = View(q)
  BY <1>4, <1>5, <1>6, ViewStays
<1>12. Group!Change(p, [View(p) EXCEPT !.paid = @ \cup {m}])
  BY <1>10, <1>11, ViewChanged
<1>13. m \in View(p).answered
  BY <1>9 DEF View
<1>14. Group!Pay(p, m)
  BY <1>12, <1>13 DEF Group!Pay
<1> QED
  BY <1>14 DEF Group!Next

(* Steps on which no group payment depends. *)
LEMMA NothingChanges ==
  ASSUME UNCHANGED <<payments, statuses>>,
         \A q \in PaymentIds : RequestsOf(q)' = RequestsOf(q),
         \A q \in PaymentIds : \A i \in RequestsOf(q) : requests'[i] = requests[i]
  PROVE  [p \in PaymentIds |-> View(p)]' = [p \in PaymentIds |-> View(p)]
  BY ViewStays

LEMMA GroupStep ==
  ASSUME IInv, AskedInv, ViewInv, [Next]_vars
  PROVE  \/ Group!Next
         \/ [p \in PaymentIds |-> View(p)]' = [p \in PaymentIds |-> View(p)]
<1> DEFINE Stutter == [p \in PaymentIds |-> View(p)]' = [p \in PaymentIds |-> View(p)]
<1>0. TypeOK /\ \A c \in Calls : OwnPayment(c) /\ AnswerInHand(c)
  BY DEF IInv
<1>1. CASE UNCHANGED <<payments, statuses, requests>>
  <2>1. \A q \in PaymentIds : RequestsOf(q)' = RequestsOf(q)
    BY <1>1 DEF RequestsOf
  <2> QED
    BY <1>1, <2>1, NothingChanges
<1>2. ASSUME NEW c \in Calls, createGroupPaymentRequests(c)
      PROVE  Group!Next \/ Stutter
  <2>1. call[c].payment \in PaymentIds /\ UNCHANGED <<payments, statuses>>
    BY <1>0, <1>2 DEF createGroupPaymentRequests, OwnPayment, Constructing
  <2>2. CASE UNCHANGED requests
    BY <1>1, <2>1, <2>2
  <2>3. ASSUME ValidRequests(call[c]),
               NEW ids \in Numberings(Members(call[c].members)), InsertRequests(c, ids)
        PROVE  Group!Next
    BY <1>2, <2>1, <2>3, AskStep
  <2> QED
    BY <1>2, <2>2, <2>3 DEF createGroupPaymentRequests
<1>3. ASSUME NEW c \in Calls, AcceptUpdate(c) \/ DenyUpdate(c)
      PROVE  Group!Next \/ Stutter
  <2>1. CASE call[c].payment \in PaymentIds
    BY <1>3, <2>1, AnswerStep
  <2>2. CASE call[c].payment = None
    <3>1. PICK status \in {"accepted", "denied"} : updateStatus(c, status)
      BY <1>3 DEF AcceptUpdate, DenyUpdate
    <3>2. call[c].request \in RequestIds /\ requests[call[c].request].payment = None
      BY <1>0, <1>3, <2>2 DEF AcceptUpdate, DenyUpdate, AnswerInHand
    <3>3. \A i \in RequestIds : /\ requests'[i].payment = requests[i].payment
                                /\ i # call[c].request => requests'[i] = requests[i]
      BY <1>0, <3>1, StatusUpdated
    <3>4. \A q \in PaymentIds : RequestsOf(q)' = RequestsOf(q)
      BY <3>3 DEF RequestsOf
    <3>5. \A q \in PaymentIds : \A i \in RequestsOf(q) : requests'[i] = requests[i]
      BY <3>2, <3>3, PaymentsAssumption DEF RequestsOf
    <3>6. UNCHANGED <<payments, statuses>>
      BY <1>3 DEF AcceptUpdate, DenyUpdate
    <3> QED
      BY <3>4, <3>5, <3>6, NothingChanges
  <2>3. call[c].payment \in PaymentIds \cup {None}
    BY <1>0 DEF TypeOK, CallState
  <2> QED
    BY <2>1, <2>2, <2>3
<1>4. ASSUME NEW c \in Calls, NEW i \in RequestIds, InsertRequest(c, i)
      PROVE  Stutter
  <2>1. /\ requests[i].payment = None /\ requests'[i].payment = None
        /\ \A j \in RequestIds \ {i} : requests'[j] = requests[j]
    BY <1>0, <1>4 DEF InsertRequest, AskedInv, TypeOK
  <2>2. \A q \in PaymentIds : RequestsOf(q)' = RequestsOf(q)
    BY <2>1, PaymentsAssumption DEF RequestsOf
  <2>3. \A q \in PaymentIds : \A j \in RequestsOf(q) : requests'[j] = requests[j]
    BY <2>1, PaymentsAssumption DEF RequestsOf
  <2>4. UNCHANGED <<payments, statuses>>
    BY <1>4 DEF InsertRequest
  <2> QED
    BY <2>2, <2>3, <2>4, NothingChanges
<1>5. ASSUME NEW c \in Calls, createMemberStatus(c) PROVE Group!Next
  <2>1. call[c].payment \in PaymentIds
    BY <1>0, <1>5 DEF createMemberStatus, OwnPayment, Constructing
  <2> QED
    BY <1>5, <2>1, ListStep
<1>6. ASSUME NEW c \in Calls, SaveMember(c) \/ SavePayment(c) PROVE Group!Next
  <2>1. call[c].payment \in PaymentIds
    BY <1>6, PayerInHand DEF SaveMember, SavePayment, Paying
  <2> QED
    BY <1>6, <2>1, PayStep, CompleteStep
<1>7. CASE UNCHANGED <<payments, statuses>> /\ ~UNCHANGED requests
  BY <1>2, <1>3, <1>4, <1>7, RequestWriters
<1>8. CASE ~UNCHANGED statuses
  BY <1>5, <1>6, <1>8, StatusWriters
<1>9. CASE ~UNCHANGED payments
  BY <1>6, <1>9, OpenStep, PaymentWriters
<1> QED
  BY <1>1, <1>7, <1>8, <1>9

LEMMA GroupInit == Init => Group!Init
<1> SUFFICES ASSUME Init, NEW p \in PaymentIds PROVE View(p) = Group!New
  BY DEF Group!Init
<1>1. payments[p] = NoPayment /\ NoRows(p) /\ RequestsOf(p) = {}
  BY PaymentsAssumption DEF Init, NoRows, RequestsOf, NoRequest
<1> QED
  BY <1>1, NothingSaid DEF View, NoPayment, Group!New

(* GroupSpec: createGroupPayment, acceptRequest, denyRequest and            *)
(* updateGroupPaymentMemberStatus, one query at a time and in any order,    *)
(* implement the abstract group payment.                                    *)
THEOREM TablesKeepThePromise == Spec => GroupSpec
<1>1. IInv /\ AskedInv /\ ViewInv /\ [Next]_vars
        => [Group!Next]_([p \in PaymentIds |-> View(p)])
  BY GroupStep
<1>2. IInv /\ AskedInv /\ [Next]_vars => AskedInv'
  BY AskedNext
<1>3. IInv /\ AskedInv /\ ViewInv /\ [Next]_vars => ViewInv'
  BY ViewNext
<1> QED
  BY <1>1, <1>2, <1>3, AskedInit, ViewInit, GroupInit, Inductive, PTL
     DEF Spec, GroupSpec, Group!Spec

(* What the abstract group payment promises follows from its steps alone. *)
LEMMA ChangedView ==
  ASSUME NEW p \in PaymentIds, NEW w, Group!Change(p, w)
  PROVE  View(p)' = w /\ \A q \in PaymentIds \ {p} : View(q)' = View(q)
<1>1. [q \in PaymentIds |-> View(q)'] = [[q \in PaymentIds |-> View(q)] EXCEPT ![p] = w]
  BY DEF Group!Change
<1> HIDE DEF View
<1> QED
  BY <1>1

LEMMA PromiseStep ==
  ASSUME Group!Promise, Group!Next, NEW p \in PaymentIds
  PROVE  Group!Kept(View(p)')
<1>1. Group!Kept(View(p))
  BY DEF Group!Promise
<1>2. PICK q \in PaymentIds :
        \/ \E a \in Addresses : Group!Open(q, a)
        \/ \E S \in SUBSET Addresses : Group!List(q, S)
        \/ Group!Ask(q)
        \/ \E m \in Addresses : Group!Answer(q, m) \/ Group!Pay(q, m)
        \/ Group!Complete(q)
  BY DEF Group!Next
<1>3. ASSUME NEW w, Group!Change(q, w)
      PROVE  (p = q /\ View(p)' = w) \/ View(p)' = View(p)
  BY <1>3, ChangedView
<1>4. PICK v : v = View(p)
  OBVIOUS
<1>5. v = [status |-> v.status, owner |-> v.owner, members |-> v.members,
           asked |-> v.asked, answered |-> v.answered, paid |-> v.paid]
  BY <1>4 DEF View
<1>6. /\ v.paid \subseteq v.answered /\ v.answered \subseteq v.asked
      /\ v.asked \in {{}, v.members} /\ v.owner \notin v.asked
      /\ v.status = "completed" => v.paid = v.members /\ v.members # {}
  BY <1>1, <1>4 DEF Group!Kept
<1>7. CASE View(p)' = View(p)
  BY <1>1, <1>7
<1>8. ASSUME View(p)' # View(p), p = q
      PROVE  Group!Kept(View(p)')
  <2>1. ASSUME NEW a \in Addresses, Group!Open(p, a) PROVE Group!Kept(View(p)')
    <3>1. View(p)' = Group!Opened(a)
      BY <1>3, <1>8, <2>1 DEF Group!Open
    <3> QED
      BY <3>1 DEF Group!Opened, Group!Kept
  <2>2. ASSUME NEW S \in SUBSET Addresses, Group!List(p, S) PROVE Group!Kept(View(p)')
    <3>1. /\ View(p)' = [v EXCEPT !.members = S]
          /\ v.asked = {} /\ v.status = "pending"
      BY <1>3, <1>4, <1>8, <2>2 DEF Group!List
    <3> QED
      BY <1>5, <1>6, <3>1 DEF Group!Kept
  <2>3. CASE Group!Ask(p)
    <3>1. /\ View(p)' = [v EXCEPT !.asked = v.members]
          /\ v.asked = {} /\ v.status = "pending" /\ v.owner \notin v.members
      BY <1>3, <1>4, <1>8, <2>3 DEF Group!Ask
    <3> QED
      BY <1>5, <1>6, <3>1 DEF Group!Kept
  <2>4. ASSUME NEW m \in Addresses, Group!Answer(p, m) PROVE Group!Kept(View(p)')
    <3>1. View(p)' = [v EXCEPT !.answered = @ \cup {m}] /\ m \in v.asked
      BY <1>3, <1>4, <1>8, <2>4 DEF Group!Answer
    <3> QED
      BY <1>5, <1>6, <3>1 DEF Group!Kept
  <2>5. ASSUME NEW m \in Addresses, Group!Pay(p, m) PROVE Group!Kept(View(p)')
    <3>1. View(p)' = [v EXCEPT !.paid = @ \cup {m}] /\ m \in v.answered
      BY <1>3, <1>4, <1>8, <2>5 DEF Group!Pay
    <3> QED
      BY <1>5, <1>6, <3>1 DEF Group!Kept
  <2>6. CASE Group!Complete(p)
    <3>1. /\ View(p)' = [v EXCEPT !.status = "completed"]
          /\ v.paid = v.members /\ v.paid # {}
      BY <1>3, <1>4, <1>8, <2>6 DEF Group!Complete
    <3> QED
      BY <1>5, <1>6, <3>1 DEF Group!Kept
  <2> QED
    BY <1>2, <1>8, <2>1, <2>2, <2>3, <2>4, <2>5, <2>6
<1>9. ASSUME p # q
      PROVE  View(p)' = View(p)
  BY <1>2, <1>3, <1>9 DEF Group!Open, Group!List, Group!Ask, Group!Answer, Group!Pay,
     Group!Complete
<1> QED
  BY <1>7, <1>8, <1>9

(* The promise itself: whoever is marked as paid has answered and was       *)
(* asked, the owner is not asked, and a completed payment was paid by each  *)
(* of its members, of which there is at least one.                          *)
THEOREM PromiseHolds == Spec => []Group!Promise
<1>1. Group!Init => Group!Promise
  <2> SUFFICES ASSUME Group!Init, NEW p \in PaymentIds PROVE Group!Kept(View(p))
    BY DEF Group!Promise
  <2>1. [q \in PaymentIds |-> View(q)] = [q \in PaymentIds |-> Group!New]
    BY DEF Group!Init
  <2>2. View(p) = Group!New
    BY <2>1
  <2> QED
    BY <2>2 DEF Group!New, Group!Kept
<1>2. Group!Promise /\ [Group!Next]_([p \in PaymentIds |-> View(p)]) => Group!Promise'
  <2> SUFFICES ASSUME Group!Promise, [Group!Next]_([p \in PaymentIds |-> View(p)])
               PROVE  \A p \in PaymentIds : Group!Kept(View(p)')
    BY DEF Group!Promise
  <2>1. CASE Group!Next
    BY <2>1, PromiseStep
  <2>2. CASE [p \in PaymentIds |-> View(p)]' = [p \in PaymentIds |-> View(p)]
    <3>1. \A p \in PaymentIds : View(p)' = View(p)
      BY <2>2
    <3> QED
      BY <3>1 DEF Group!Promise
  <2> QED
    BY <2>1, <2>2
<1> QED
  BY <1>1, <1>2, TablesKeepThePromise, PTL DEF GroupSpec, Group!Spec

-----------------------------------------------------------------------------
(* AcceptedInProgress: accepted requests are carried through. *)

LEMMA AskedInductive == Spec => []AskedInv
  BY AskedInit, AskedNext, Inductive, PTL DEF Spec

LEMMA ViewInductive == Spec => []ViewInv
  BY ViewInit, ViewNext, AskedInductive, Inductive, PTL DEF Spec

(* Nothing takes a completed payment back. *)
LEMMA CompletedStays ==
  ASSUME IInv, [Next]_vars, NEW p \in PaymentIds, payments[p].status = "completed"
  PROVE  payments'[p].status = "completed"
<1>1. TypeOK
  BY DEF IInv
<1>2. ASSUME NEW c \in Calls, SavePayment(c)
      PROVE  payments'[p].status = "completed"
  BY <1>1, <1>2 DEF SavePayment, TypeOK, PaymentRow
<1>3. ASSUME NEW c \in Calls, NEW q \in PaymentIds, InsertPayment(c, q)
      PROVE  payments'[p].status = "completed"
  BY <1>1, <1>3 DEF InsertPayment, TypeOK
<1> QED
  BY <1>2, <1>3, PaymentWriters

(* A call on behalf of an acceptance that does not fail goes on. *)
LEMMA GoesOn ==
  ASSUME IInv, [Serve]_vars, NEW c \in Calls, Paying(c)
  PROVE  \/ call'[c] = call[c]
         \/ FindMemberStatus(c) \/ SaveMember(c) \/ CheckAllPaid(c) \/ SavePayment(c)
<1>1. TypeOK
  BY DEF IInv
<1>2. ~Create(c) /\ ~Answer(c)
  BY DEF Paying, Create, CreateBy, Answer, FindGroup, FindOneGroup, FindDuplicate, FindRequest
<1>3. Advance(c) => FindMemberStatus(c) \/ SaveMember(c) \/ CheckAllPaid(c) \/ SavePayment(c)
  BY DEF Paying, Advance, InsertGroup, InsertPayment, createMemberStatus,
     createGroupPaymentRequests, InsertRequest, AcceptUpdate, DenyUpdate
<1>4. ASSUME NEW d \in Calls, d # c, Create(d) \/ Answer(d) \/ Advance(d)
      PROVE  call'[c] = call[c]
  BY <1>1, <1>4, OthersStay DEF Acts
<1>5. CASE UNCHANGED vars
  BY <1>5 DEF vars
<1> QED
  BY <1>2, <1>3, <1>4, <1>5 DEF Serve

LEMMA CompletingKept ==
  ASSUME IInv, AskedInv, [Serve]_vars, NEW p \in PaymentIds, Closing(p)
  PROVE  Closing(p)'
<1> SUFFICES ASSUME AllPaid(p)', SaidPaid(p)'
             PROVE  \/ payments'[p].status = "completed"
                    \/ \E c \in Calls : /\ call'[c].payment = p
                                        /\ call'[c].at \in {"all.find", "payment.save"}
  BY DEF Closing
<1>1. TypeOK /\ \A c \in Calls : AnswerInHand(c) /\ MemberInHand(c)
  BY DEF IInv
<1>2. [Next]_vars
  BY DEF Next
<1>3. CASE AllPaid(p) /\ SaidPaid(p)
  <2>1. CASE payments[p].status = "completed"
    BY <1>2, <2>1, CompletedStays
  <2>2. ASSUME NEW c \in Calls, call[c].payment = p,
               call[c].at \in {"all.find", "payment.save"}
        PROVE  \/ payments'[p].status = "completed"
               \/ \E d \in Calls : /\ call'[d].payment = p
                                   /\ call'[d].at \in {"all.find", "payment.save"}
    <3>1. CASE call'[c] = call[c]
      BY <2>2, <3>1
    <3>2. CASE CheckAllPaid(c)
      <4>1. Goto(c, "payment.save")
        BY <1>3, <2>2, <3>2 DEF CheckAllPaid
      <4> QED
        BY <1>1, <2>2, <4>1, Goes DEF Steps
    <3>3. CASE SavePayment(c)
      BY <1>1, <2>2, <3>3 DEF SavePayment, TypeOK, PaymentRow
    <3>4. ~FindMemberStatus(c) /\ ~SaveMember(c) /\ Paying(c)
      BY <2>2 DEF FindMemberStatus, SaveMember, Paying
    <3> QED
      BY <3>1, <3>2, <3>3, <3>4, GoesOn
  <2> QED
    BY <1>3, <2>1, <2>2 DEF Closing
<1>4. CASE ~(AllPaid(p) /\ SaidPaid(p))
  <2>1. ~UNCHANGED statuses
    BY <1>4 DEF AllPaid, SaidPaid
  <2>2. ASSUME NEW c \in Calls, createMemberStatus(c) PROVE FALSE
    <3>1. CASE call[c].payment = p
      <4>1. statuses'[p] =
              [t \in Slots |-> IF t \in Used(call[c].members)
                               THEN [status |-> "pending", member |-> call[c].members[t]]
                               ELSE NoMember]
        BY <1>1, <2>2, <3>1 DEF createMemberStatus, TypeOK
      <4>2. PICK s \in Slots : statuses'[p][s].status = "paid"
        BY DEF SaidPaid
      <4> QED
        BY <4>1, <4>2 DEF NoMember
    <3>2. CASE call[c].payment # p
      <4>1. statuses'[p] = statuses[p]
        BY <1>1, <2>2, <3>2 DEF createMemberStatus, TypeOK
      <4> QED
        BY <1>4, <4>1 DEF AllPaid, SaidPaid
    <3> QED
      BY <3>1, <3>2
  <2>3. PICK c \in Calls : SaveMember(c)
    BY <1>2, <2>1, <2>2, StatusWriters
  <2>4. call[c].payment = p
    <3>1. call[c].payment # p => statuses'[p] = statuses[p]
      BY <1>1, <2>3 DEF SaveMember, TypeOK
    <3> QED
      BY <1>4, <3>1 DEF AllPaid, SaidPaid
  <2>5. call'[c].at = "all.find" /\ call'[c].payment = p
    BY <1>1, <2>3, <2>4, Goes DEF SaveMember, Steps
  <2> QED
    BY <2>5
<1> QED
  BY <1>3, <1>4

LEMMA CarriedKept ==
  ASSUME IInv, AskedInv, ViewInv, ProgressInv, [Serve]_vars, NEW i \in RequestIds
  PROVE  Carried(i)'
<1> SUFFICES ASSUME NEW p \in PaymentIds, requests'[i].payment = p
             PROVE  /\ \E s \in Slots : statuses'[p][s].member = requests'[i].payer
                    /\ requests'[i].status = "accepted" =>
                         \/ \A s \in Slots :
                              statuses'[p][s].member = requests'[i].payer
                                => statuses'[p][s].status = "paid"
                         \/ \E c \in Calls :
                              /\ call'[c].request = i
                              /\ call'[c].at \in {"member.find", "member.save"}
  <2>1. [Next]_vars
    BY DEF Next
  <2>2. TypeOK'
    BY <2>1, NextType
  <2>3. requests'[i].payment \in PaymentIds \cup {None}
    BY <2>2 DEF TypeOK, RequestRow
  <2> QED
    BY <2>3 DEF Carried
<1>1. /\ TypeOK /\ \A c \in Calls : AnswerInHand(c) /\ MemberInHand(c)
      /\ [Next]_vars /\ p # None
  BY PaymentsAssumption DEF IInv, Next
<1>2. ASSUME NEW c \in Calls, NEW ids \in Numberings(Members(call[c].members)),
             createGroupPaymentRequests(c), InsertRequests(c, ids),
             \E m \in DOMAIN ids : ids[m] = i
      PROVE  /\ \E s \in Slots : statuses'[p][s].member = requests'[i].payer
             /\ requests'[i].status = "pending"
  <2>1. /\ requests'[i].payer = (CHOOSE m \in DOMAIN ids : ids[m] = i)
        /\ requests'[i].status = "pending" /\ call[c].payment = p
    BY <1>2 DEF InsertRequests
  <2>2. (CHOOSE m \in DOMAIN ids : ids[m] = i) \in DOMAIN ids
    BY <1>2
  <2>3. DOMAIN ids = Members(call[c].members)
    BY DEF Numberings
  <2>4. PICK s \in Slots : call[c].members[s] = requests'[i].payer
    BY <2>1, <2>2, <2>3 DEF Members, Used
  <2>5. statuses'[p][s].member = call[c].members[s]
    BY <1>2, <2>1 DEF AskedInv, RowsInHand, createGroupPaymentRequests
  <2> QED
    BY <2>1, <2>4, <2>5
<1>3. ASSUME requests[i].payment = p, requests'[i].payer = requests[i].payer
      PROVE  /\ \E s \in Slots : statuses'[p][s].member = requests'[i].payer
             /\ requests'[i].status = "accepted" =>
                  \/ \A s \in Slots : statuses'[p][s].member = requests'[i].payer
                                        => statuses'[p][s].status = "paid"
                  \/ \E c \in Calls : /\ call'[c].request = i
                                      /\ call'[c].at \in {"member.find", "member.save"}
  <2>1. /\ RequestsOf(p) # {}
        /\ \E s \in Slots : statuses[p][s].member = requests[i].payer
    BY <1>1, <1>3 DEF ProgressInv, Carried, RequestsOf
  <2>2. \A s \in Slots : /\ statuses'[p][s].member = statuses[p][s].member
                         /\ statuses'[p][s].status \in {statuses[p][s].status, "paid"}
    <3>1. \A c \in Calls : createMemberStatus(c) => call[c].payment # p
      BY <1>3 DEF IInv, OwnPayment, Constructing, createMemberStatus
    <3> QED
      BY <1>1, <3>1, StatusesStay
  <2>3. ASSUME requests'[i].status = "accepted", requests[i].status # "accepted"
        PROVE  \E c \in Calls : /\ call'[c].request = i
                                /\ call'[c].at \in {"member.find", "member.save"}
    <3>1. PICK c \in Calls : AcceptUpdate(c) /\ call[c].request = i
      <4>1. ASSUME NEW c \in Calls, createGroupPaymentRequests(c) PROVE FALSE
        BY <2>3, <4>1 DEF createGroupPaymentRequests, InsertRequests
      <4>2. ASSUME NEW c \in Calls, NEW j \in RequestIds, InsertRequest(c, j) PROVE FALSE
        BY <1>1, <2>3, <4>2 DEF InsertRequest, TypeOK
      <4>3. ASSUME NEW c \in Calls, DenyUpdate(c) PROVE FALSE
        <5>1. updateStatus(c, "denied")
          BY <4>3 DEF DenyUpdate
        <5> QED
          BY <1>1, <2>3, <5>1, StatusUpdated
      <4>4. ASSUME NEW c \in Calls, AcceptUpdate(c) PROVE call[c].request = i
        <5>1. updateStatus(c, "accepted")
          BY <4>4 DEF AcceptUpdate
        <5> QED
          BY <1>1, <2>3, <5>1, StatusUpdated
      <4> QED
        BY <1>1, <2>3, <4>1, <4>2, <4>3, <4>4, RequestWriters
    <3>2. call[c].payment = p
      BY <1>1, <1>3, <3>1 DEF AcceptUpdate, AnswerInHand
    <3>3. Goto(c, "member.find")
      BY <1>1, <3>1, <3>2 DEF AcceptUpdate
    <3> QED
      BY <1>1, <3>1, <3>3, Goes DEF Steps
  <2>4. ASSUME requests[i].status = "accepted",
               \A s \in Slots : statuses[p][s].member = requests[i].payer
                                  => statuses[p][s].status = "paid"
        PROVE  \A s \in Slots : statuses'[p][s].member = requests'[i].payer
                                  => statuses'[p][s].status = "paid"
    BY <1>3, <2>2, <2>4
  <2>5. ASSUME NEW c \in Calls, call[c].request = i,
               call[c].at \in {"member.find", "member.save"}
        PROVE  \/ \A s \in Slots : statuses'[p][s].member = requests'[i].payer
                                     => statuses'[p][s].status = "paid"
               \/ \E d \in Calls : /\ call'[d].request = i
                                   /\ call'[d].at \in {"member.find", "member.save"}
    <3>1. call[c].payment = p /\ call[c].who = requests[i].payer /\ Paying(c)
      BY <1>1, <1>3, <2>5 DEF AnswerInHand, Paying
    <3>2. CASE call'[c] = call[c]
      BY <2>5, <3>2
    <3>3. CASE FindMemberStatus(c)
      <4>1. PICK s \in Slots : Become(c, [call[c] EXCEPT !.at = "member.save", !.slot = s])
        BY <2>1, <3>1, <3>3 DEF FindMemberStatus
      <4>2. call[c] \in CallState
            /\ call'[c] = [call[c] EXCEPT !.at = "member.save", !.slot = s]
        BY <1>1, <4>1, Becomes DEF TypeOK
      <4>3. call'[c].at = "member.save" /\ call'[c].request = i
        BY <2>5, <4>2 DEF CallState
      <4> QED
        BY <4>3
    <3>4. CASE SaveMember(c)
      <4>1. PICK s \in Slots : s = call[c].slot /\ statuses[p][s].member = requests[i].payer
        BY <1>1, <3>1, <3>4 DEF SaveMember, MemberInHand
      <4>2. statuses'[p][s].status = "paid"
        BY <1>1, <3>1, <3>4, <4>1, MemberSaved
      <4>3. Row(p, s)
        BY <1>1, <1>3, <4>1 DEF ViewInv, Row
      <4>4. \A t \in Slots : statuses[p][t].member = requests[i].payer => t = s
        BY <2>1, <4>1, <4>3 DEF AskedInv, AskedTogether
      <4> QED
        BY <1>3, <2>2, <4>2, <4>4
    <3>5. ~CheckAllPaid(c) /\ ~SavePayment(c)
      BY <2>5 DEF CheckAllPaid, SavePayment
    <3> QED
      BY <3>1, <3>2, <3>3, <3>4, <3>5, GoesOn
  <2>6. requests[i].status = "accepted" =>
          \/ \A s \in Slots : statuses[p][s].member = requests[i].payer
                                => statuses[p][s].status = "paid"
          \/ \E c \in Calls : /\ call[c].request = i
                              /\ call[c].at \in {"member.find", "member.save"}
    BY <1>1, <1>3 DEF ProgressInv, Carried
  <2> QED
    BY <1>3, <2>1, <2>2, <2>3, <2>4, <2>5, <2>6
<1>4. requests'[i].payment = p /\ p # None
  BY <1>1
<1> QED
  BY <1>1, <1>2, <1>3, <1>4, RequestsAdded

LEMMA ProgressInit == Init => ProgressInv
<1>1. Init => \A i \in RequestIds : requests[i].payment = None
  BY DEF Init, NoRequest
<1>2. Init => \A p \in PaymentIds, s \in Slots : statuses[p][s].status # "paid"
  BY DEF Init, NoMember
<1> QED
  BY <1>1, <1>2 DEF ProgressInv, Carried, Closing, SaidPaid

LEMMA ProgressMeans ==
  ASSUME IInv, AskedInv, ViewInv, ProgressInv
  PROVE  AcceptedInProgress
<1> SUFFICES ASSUME NEW p \in PaymentIds, AllAccepted(p),
                    ~\E c \in Calls : Paying(c) /\ call[c].payment = p
             PROVE  payments[p].status = "completed"
  BY DEF AcceptedInProgress
<1>0. p # None /\ RequestsOf(p) # {} /\ \A c \in Calls : AnswerInHand(c)
  BY PaymentsAssumption DEF AllAccepted, IInv
<1>1. ASSUME NEW i \in RequestsOf(p)
      PROVE  /\ \E s \in Slots : statuses[p][s].member = requests[i].payer
             /\ \A s \in Slots : statuses[p][s].member = requests[i].payer
                                   => statuses[p][s].status = "paid"
  <2>1. i \in RequestIds /\ requests[i].payment = p /\ requests[i].status = "accepted"
    BY DEF RequestsOf, AllAccepted
  <2>2. ASSUME NEW c \in Calls, call[c].request = i,
               call[c].at \in {"member.find", "member.save"}
        PROVE  FALSE
    BY <1>0, <2>1, <2>2 DEF AnswerInHand, Paying
  <2> QED
    BY <1>0, <2>1, <2>2 DEF ProgressInv, Carried
<1>2. AllPaid(p)
  <2> SUFFICES ASSUME NEW s \in Slots PROVE statuses[p][s].status \in {"none", "paid"}
    BY DEF AllPaid
  <2>1. CASE Row(p, s)
    <3>1. PICK i \in RequestsOf(p) : requests[i].payer = statuses[p][s].member
      BY <1>0, <2>1 DEF AskedInv, AskedTogether
    <3> QED
      BY <1>1, <3>1
  <2>2. CASE ~Row(p, s)
    BY <2>2 DEF ViewInv
  <2> QED
    BY <2>1, <2>2
<1>3. SaidPaid(p)
  BY <1>0, <1>1 DEF SaidPaid
<1>4. ~\E c \in Calls : call[c].payment = p /\ call[c].at \in {"all.find", "payment.save"}
  BY DEF Paying
<1> QED
  BY <1>2, <1>3, <1>4 DEF ProgressInv, Closing

(* AcceptedInProgress: as long as no query of the server fails, a group     *)
(* payment whose requests are all accepted is completed, or a call is on    *)
(* its way to complete it: no interleaving of acceptances gets stuck.       *)
THEOREM AcceptedAreCarriedThrough == ServedSpec => []AcceptedInProgress
<1>1. [Serve]_vars => [Next]_vars
  BY DEF Next
<1>2. ServedSpec => Spec
  BY <1>1, PTL DEF ServedSpec, Spec
<1>3. IInv /\ AskedInv /\ ViewInv /\ ProgressInv /\ [Serve]_vars => ProgressInv'
  BY CarriedKept, CompletingKept DEF ProgressInv
<1>4. IInv /\ AskedInv /\ ViewInv /\ ProgressInv => AcceptedInProgress
  BY ProgressMeans
<1> QED
  BY <1>2, <1>3, <1>4, ProgressInit, Inductive, AskedInductive, ViewInductive, PTL
     DEF ServedSpec

-----------------------------------------------------------------------------
(* Groups of one name, and the calls that may still insert one. *)

LEMMA GroupWriters ==
  ASSUME [Next]_vars
  PROVE  UNCHANGED groups \/ \E c \in Calls : InsertGroup(c)
<1>1. ASSUME NEW c \in Calls, Advance(c)
      PROVE  UNCHANGED groups \/ InsertGroup(c)
  BY <1>1 DEF Advance, InsertPayment, createMemberStatus, createGroupPaymentRequests,
     InsertRequest, AcceptUpdate, DenyUpdate, FindMemberStatus, SaveMember, CheckAllPaid,
     SavePayment
<1>2. ASSUME NEW c \in Calls, Create(c) \/ Answer(c) \/ Abort(c)
      PROVE  UNCHANGED groups
  BY <1>2 DEF Create, CreateBy, FindGroup, FindOneGroup, FindDuplicate, Answer, FindRequest, Abort
<1> QED
  BY <1>1, <1>2 DEF Next, Serve, vars

LEMMA GroupNameStep ==
  ASSUME IInv, [Next]_vars, NEW owner \in Addresses, NEW name \in Names
  PROVE  LET S == SameName(owner, name)
             F == PastNameCheck(owner, name)
         IN \/ S' \subseteq S /\ F' \subseteq F
            \/ S' = {}
            \/ \E g, r : g \notin S /\ S' = S \cup {g} /\ r \in F /\ F' = F \ {r}
<1> DEFINE S == SameName(owner, name)
           F == PastNameCheck(owner, name)
<1>1. TypeOK /\ owner # None
  BY PaymentsAssumption DEF IInv
<1>2. UNCHANGED groups => S' = S
  BY DEF SameName
<1>3. ASSUME NEW c \in Calls, Acts(c), ~(F' \subseteq F)
      PROVE  S' = {}
  <2>1. \A d \in Calls \ {c} : call'[d] = call[d]
    BY <1>1, <1>3, OthersStay
  <2>2. c \in F' /\ c \notin F
    BY <1>3, <2>1 DEF PastNameCheck
  <2>3. Create(c)
    BY <1>1, <1>3, <2>2, JustCreated DEF PastNameCheck
  <2>4. PICK a \in Addresses, n \in Names, list \in Lists : FindGroup(c, a, n, list)
    BY <1>1, <2>2, <2>3, CreatedAt DEF PastNameCheck
  <2>5. call'[c] = [Idle EXCEPT !.at = "group.insert", !.who = normalizeAddress[a],
                                !.name = n, !.members = normalized(list)]
    BY <1>1, <2>4, Becomes DEF FindGroup
  <2>6. normalizeAddress[a] = owner /\ n = name
    BY <2>2, <2>5 DEF PastNameCheck, Idle
  <2>7. S = {}
    BY <2>4, <2>6 DEF FindGroup, SameName
  <2> QED
    BY <1>2, <2>4, <2>7 DEF FindGroup
<1>4. ASSUME NEW c \in Calls, InsertGroup(c)
      PROVE  \/ S' \subseteq S
             \/ \E g : g \notin S /\ S' = S \cup {g} /\ c \in F /\ F' = F \ {c}
  <2>1. PICK g \in GroupIds :
           /\ groups[g].owner = None
           /\ groups' = [groups EXCEPT ![g] = [owner |-> call[c].who, name |-> call[c].name,
                                               members |-> call[c].members]]
    BY <1>4 DEF InsertGroup
  <2>2. /\ groups'[g].owner = call[c].who /\ groups'[g].name = call[c].name
        /\ \A h \in GroupIds \ {g} : groups'[h] = groups[h]
    BY <1>1, <2>1 DEF TypeOK
  <2>3. call'[c] = Idle /\ \A d \in Calls \ {c} : call'[d] = call[d]
    BY <1>1, <1>4, Becomes DEF InsertGroup, Finish
  <2>4. F' = F \ {c}
    BY <2>3 DEF PastNameCheck, Idle
  <2>5. g \notin S
    BY <1>1, <2>1 DEF SameName
  <2>6. CASE c \in F
    <3>1. S' = S \cup {g}
      BY <2>2, <2>5, <2>6 DEF SameName, PastNameCheck
    <3> QED
      BY <2>4, <2>5, <2>6, <3>1
  <2>7. CASE c \notin F
    <3>1. g \notin S'
      BY <1>4, <2>2, <2>7 DEF SameName, PastNameCheck, InsertGroup
    <3> QED
      BY <2>2, <3>1 DEF SameName
  <2> QED
    BY <2>6, <2>7
<1>5. \/ S' \subseteq S
      \/ \E g, r : g \notin S /\ S' = S \cup {g} /\ r \in F /\ F' = F \ {r}
  BY <1>2, <1>4, GroupWriters
<1>6. F' \subseteq F \/ S' = {}
  <2>1. CASE UNCHANGED vars
    BY <2>1 DEF vars, PastNameCheck
  <2> QED
    BY <1>1, <1>3, <2>1, OneActs DEF PastNameCheck
<1> QED
  BY <1>5, <1>6

LEMMA GroupNamesInductive == Spec => []GroupNamesInv
<1>1. Cardinality(Calls) \in Nat /\ Cardinality(Calls) <= Cardinality(Calls)
  BY PaymentsAssumption, FS_CardinalityType
<1>2. \A owner, name : PastNameCheck(owner, name) \subseteq Calls
  BY DEF PastNameCheck
<1>3. Init => GroupNamesInv
  <2> SUFFICES ASSUME Init, NEW owner \in Addresses, NEW name \in Names
               PROVE  /\ IsFiniteSet(SameName(owner, name))
                      /\ Cardinality(SameName(owner, name))
                            + Cardinality(PastNameCheck(owner, name)) <= Cardinality(Calls)
    BY DEF GroupNamesInv
  <2>1. SameName(owner, name) = {}
    BY PaymentsAssumption DEF Init, SameName, NoGroup
  <2>2. PastNameCheck(owner, name) = {}
    BY DEF Init, PastNameCheck, Idle
  <2> QED
    BY <1>1, <2>1, <2>2, FS_EmptySet
<1>4. IInv /\ GroupNamesInv /\ [Next]_vars => GroupNamesInv'
  <2> SUFFICES ASSUME IInv, GroupNamesInv, [Next]_vars,
                      NEW owner \in Addresses, NEW name \in Names
               PROVE  (/\ IsFiniteSet(SameName(owner, name))
                       /\ Cardinality(SameName(owner, name))
                             + Cardinality(PastNameCheck(owner, name))
                            <= Cardinality(Calls))'
    BY DEF GroupNamesInv
  <2>1. /\ IsFiniteSet(SameName(owner, name))
        /\ Cardinality(SameName(owner, name))
              + Cardinality(PastNameCheck(owner, name)) <= Cardinality(Calls)
    BY DEF GroupNamesInv
  <2>2. PastNameCheck(owner, name)' \subseteq Calls
    BY DEF PastNameCheck
  <2>3. \/ /\ SameName(owner, name)' \subseteq SameName(owner, name)
           /\ PastNameCheck(owner, name)' \subseteq PastNameCheck(owner, name)
        \/ SameName(owner, name)' = {}
        \/ \E g, r : /\ g \notin SameName(owner, name)
                     /\ SameName(owner, name)' = SameName(owner, name) \cup {g}
                     /\ r \in PastNameCheck(owner, name)
                     /\ PastNameCheck(owner, name)' = PastNameCheck(owner, name) \ {r}
    BY GroupNameStep
  <2> QED
    BY <1>1, <1>2, <2>1, <2>2, <2>3, PaymentsAssumption, Counting
<1> QED
  BY <1>3, <1>4, Inductive, PTL DEF Spec

(* GroupNamesBounded: createGroup never gives an owner more groups of one   *)
(* name than calls can run side by side; with one call, names are unique.   *)
THEOREM GroupNamesStayBounded == Spec => []GroupNamesBounded
<1>1. GroupNamesInv => GroupNamesBounded
  <2> SUFFICES ASSUME GroupNamesInv, NEW owner \in Addresses, NEW name \in Names
               PROVE  Cardinality(SameName(owner, name)) <= Cardinality(Calls)
    BY DEF GroupNamesBounded
  <2>1. IsFiniteSet(PastNameCheck(owner, name))
    BY PaymentsAssumption, FS_Subset DEF PastNameCheck
  <2>2. Cardinality(PastNameCheck(owner, name)) \in Nat
        /\ Cardinality(SameName(owner, name)) \in Nat /\ Cardinality(Calls) \in Nat
    BY <2>1, PaymentsAssumption, FS_CardinalityType DEF GroupNamesInv
  <2> QED
    BY <2>2 DEF GroupNamesInv
<1> QED
  BY <1>1, GroupNamesInductive, PTL
=============================================================================
