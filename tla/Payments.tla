------------------------------ MODULE Payments ------------------------------
(***************************************************************************)
(* Payment requests (src/modules/request-payment) and group payments       *)
(* (src/modules/group-payment).  The two services call each other:         *)
(* creating a group payment creates one request per member, and accepting  *)
(* such a request marks the member as paid and, with the last of them,     *)
(* the payment as completed.                                               *)
(*                                                                         *)
(* A call advances by one query at a time.  Every query commits on its     *)
(* own: there is no transaction around the three inserts of a group        *)
(* payment, nor around the updates of an acceptance.                       *)
(***************************************************************************)
EXTENDS Naturals, FiniteSets

CONSTANTS
    Calls,              \* HTTP calls in flight
    Addresses,          \* wallet addresses as clients spell them
    normalizeAddress,   \* the spelling that is stored, of each address
    Names,              \* names of groups
    Amounts,            \* amounts of a token
    Zero,               \* the share of a total too small to be split
    Slots,              \* positions in a list of members
    GroupIds, PaymentIds, RequestIds,
    None

ASSUME NormalizeAssumption ==
    /\ normalizeAddress \in [Addresses -> Addresses]
    /\ \A a \in Addresses :
          normalizeAddress[normalizeAddress[a]] = normalizeAddress[a]

ASSUME PaymentsAssumption ==
    /\ Zero \notin Amounts
    /\ None \notin Addresses \cup Names \cup Amounts \cup {Zero} \cup Slots
                   \cup PaymentIds \cup RequestIds
    /\ IsFiniteSet(Calls)

VARIABLES
    groups,     \* table group_payment_group
    payments,   \* table group_payment
    statuses,   \* table group_payment_member_status, by payment and slot
    requests,   \* table request_payment
    call        \* the calls in flight

vars == <<groups, payments, statuses, requests, call>>

-----------------------------------------------------------------------------
Address == Addresses \cup {None}

(* A list of members: the address in each slot, None in the empty ones. *)
Lists == [Slots -> Address]
NoList == [s \in Slots |-> None]
Used(list) == {s \in Slots : list[s] # None}
Members(list) == {list[s] : s \in Used(list)}
Distinct(list) == \A s, t \in Used(list) : list[s] = list[t] => s = t
normalized(list) ==
    [s \in Slots |-> IF list[s] = None THEN None ELSE normalizeAddress[list[s]]]

GroupRow == [owner: Address, name: Names \cup {None}, members: Lists]
PaymentRow == [status: {"none", "pending", "completed"}, owner: Address]
MemberRow == [status: {"none", "pending", "paid"}, member: Address]
RequestRow == [status: {"none", "pending", "accepted", "denied"},
               payer: Address, payee: Address,
               amount: Amounts \cup {Zero, None},
               payment: PaymentIds \cup {None}]   \* groupPaymentId

NoGroup == [owner |-> None, name |-> None, members |-> NoList]
NoPayment == [status |-> "none", owner |-> None]
NoMember == [status |-> "none", member |-> None]
NoRequest == [status |-> "none", payer |-> None, payee |-> None,
              amount |-> None, payment |-> None]

Steps == {"idle", "group.insert", "payment.insert", "statuses.insert",
          "requests.insert", "request.insert", "accept.update", "member.find",
          "member.save", "all.find", "payment.save", "deny.update"}

CallState ==
    [at: Steps,
     who: Address,                      \* owner, payee or member
     payer: Address,
     name: Names \cup {None},
     members: Lists,
     amount: Amounts \cup {Zero, None},
     payment: PaymentIds \cup {None},
     request: RequestIds \cup {None},
     slot: Slots \cup {None}]

Idle == [at |-> "idle", who |-> None, payer |-> None, name |-> None,
         members |-> NoList, amount |-> None, payment |-> None,
         request |-> None, slot |-> None]

Become(c, st) == call' = [call EXCEPT ![c] = st]
Goto(c, step) == Become(c, [call[c] EXCEPT !.at = step])
Finish(c) == Become(c, Idle)

Init ==
    /\ groups = [g \in GroupIds |-> NoGroup]
    /\ payments = [p \in PaymentIds |-> NoPayment]
    /\ statuses = [p \in PaymentIds |-> [s \in Slots |-> NoMember]]
    /\ requests = [i \in RequestIds |-> NoRequest]
    /\ call = [c \in Calls |-> Idle]

-----------------------------------------------------------------------------
(* createGroup: the members must be distinct as they are spelled, and the   *)
(* name new among the owner's groups.                                       *)

FindGroup(c, a, name, list) ==
    LET owner == normalizeAddress[a] IN
    /\ call[c].at = "idle"
    /\ Used(list) # {}
    /\ Distinct(list)
    /\ owner \notin Members(normalized(list))
    /\ ~ \E g \in GroupIds : groups[g].owner = owner /\ groups[g].name = name
    /\ Become(c, [Idle EXCEPT !.at = "group.insert", !.who = owner, !.name = name,
                              !.members = normalized(list)])
    /\ UNCHANGED <<groups, payments, statuses, requests>>

InsertGroup(c) ==
    /\ call[c].at = "group.insert"
    /\ \E g \in GroupIds :
          /\ groups[g].owner = None
          /\ groups' = [groups EXCEPT ![g] = [owner |-> call[c].who,
                                              name |-> call[c].name,
                                              members |-> call[c].members]]
    /\ Finish(c)
    /\ UNCHANGED <<payments, statuses, requests>>

-----------------------------------------------------------------------------
(* createGroupPayment: the payment, the statuses of its members and their   *)
(* requests are inserted one after the other, each for good.                *)

FindOneGroup(c, a, g, share) ==
    /\ call[c].at = "idle"
    /\ groups[g].owner = normalizeAddress[a]
    /\ Used(groups[g].members) # {}
    /\ Become(c, [Idle EXCEPT !.at = "payment.insert", !.who = normalizeAddress[a],
                              !.members = groups[g].members, !.amount = share])
    /\ UNCHANGED <<groups, payments, statuses, requests>>

InsertPayment(c, p) ==
    /\ call[c].at = "payment.insert"
    /\ payments[p].status = "none"
    /\ payments' = [payments EXCEPT ![p] = [status |-> "pending",
                                            owner |-> call[c].who]]
    /\ Become(c, [call[c] EXCEPT !.at = "statuses.insert", !.payment = p])
    /\ UNCHANGED <<groups, statuses, requests>>

createMemberStatus(c) ==
    /\ call[c].at = "statuses.insert"
    /\ statuses' = [statuses EXCEPT ![call[c].payment] =
                      [s \in Slots |->
                         IF s \in Used(call[c].members)
                         THEN [status |-> "pending", member |-> call[c].members[s]]
                         ELSE NoMember]]
    /\ Goto(c, "requests.insert")
    /\ UNCHANGED <<groups, payments, requests>>

(* createGroupPaymentRequests refuses what the steps before it let through: *)
(* a share that was rounded to zero and members that became the same when   *)
(* they were normalised.                                                    *)
ValidRequests(st) ==
    /\ st.amount # Zero
    /\ Distinct(st.members)
    /\ st.who \notin Members(st.members)

(* A new row for each member: ids is how they are numbered. *)
InsertRequests(c, ids) ==
    /\ requests' = [i \in RequestIds |->
                      IF \E m \in DOMAIN ids : ids[m] = i
                      THEN [status |-> "pending",
                            payer |-> CHOOSE m \in DOMAIN ids : ids[m] = i,
                            payee |-> call[c].who, amount |-> call[c].amount,
                            payment |-> call[c].payment]
                      ELSE requests[i]]

Numberings(S) ==
    {ids \in [S -> {i \in RequestIds : requests[i].status = "none"}] :
        \A m, n \in S : ids[m] = ids[n] => m = n}

(* Slip: an INSERT for each member, and one of them fails *)
createRequestsOneByOne(c) ==
    /\ call[c].at = "requests.insert"
    /\ \/ /\ ValidRequests(call[c])
          /\ \E S \in SUBSET Members(call[c].members) :
                \E ids \in Numberings(S) : InsertRequests(c, ids)
       \/ ~ValidRequests(call[c]) /\ UNCHANGED requests
    /\ Finish(c)
    /\ UNCHANGED <<groups, payments, statuses>>

createGroupPaymentRequests(c) ==
    /\ call[c].at = "requests.insert"
    /\ \/ /\ ValidRequests(call[c])
          /\ \E ids \in Numberings(Members(call[c].members)) : InsertRequests(c, ids)
       \/ ~ValidRequests(call[c]) /\ UNCHANGED requests
    /\ Finish(c)
    /\ UNCHANGED <<groups, payments, statuses>>

-----------------------------------------------------------------------------
(* createRequest: a find for an equal pending request, then the insert. *)

EqualTo(row, payer, payee, amount) ==
    row.payer = payer /\ row.payee = payee /\ row.amount = amount

(* Slip: the duplicate is looked for among the group's requests only *)
FindDuplicateInGroups(c, payer, payee, amount) ==
    LET from == normalizeAddress[payer]
        to == normalizeAddress[payee]
    IN /\ call[c].at = "idle"
       /\ from # to
       /\ ~ \E i \in RequestIds :
               /\ requests[i].status = "pending" /\ requests[i].payment # None
               /\ EqualTo(requests[i], from, to, amount)
       /\ Become(c, [Idle EXCEPT !.at = "request.insert", !.payer = from,
                                 !.who = to, !.amount = amount])
       /\ UNCHANGED <<groups, payments, statuses, requests>>

FindDuplicate(c, payer, payee, amount) ==
    LET from == normalizeAddress[payer]
        to == normalizeAddress[payee]
    IN /\ call[c].at = "idle"
       /\ from # to
       /\ ~ \E i \in RequestIds :
               /\ requests[i].status = "pending"
               /\ EqualTo(requests[i], from, to, amount)
       /\ Become(c, [Idle EXCEPT !.at = "request.insert", !.payer = from,
                                 !.who = to, !.amount = amount])
       /\ UNCHANGED <<groups, payments, statuses, requests>>

InsertRequest(c, i) ==
    /\ call[c].at = "request.insert"
    /\ requests[i].status = "none"
    /\ requests' = [requests EXCEPT ![i] =
                      [status |-> "pending", payer |-> call[c].payer,
                       payee |-> call[c].who, amount |-> call[c].amount,
                       payment |-> None]]
    /\ Finish(c)
    /\ UNCHANGED <<groups, payments, statuses>>

-----------------------------------------------------------------------------
(* acceptRequest and denyRequest: a find of the payer's pending request,    *)
(* then an UPDATE by id, whatever the status is by then.                    *)

(* Slip: an answered request can be answered again *)
FindAnyRequest(c, a, i, step) ==
    /\ call[c].at = "idle"
    /\ requests[i].status # "none"
    /\ requests[i].payer = normalizeAddress[a]
    /\ Become(c, [Idle EXCEPT !.at = step, !.who = normalizeAddress[a],
                              !.request = i, !.payment = requests[i].payment])
    /\ UNCHANGED <<groups, payments, statuses, requests>>

FindRequest(c, a, i, step) ==
    /\ call[c].at = "idle"
    /\ requests[i].status = "pending"
    /\ requests[i].payer = normalizeAddress[a]
    /\ Become(c, [Idle EXCEPT !.at = step, !.who = normalizeAddress[a],
                              !.request = i, !.payment = requests[i].payment])
    /\ UNCHANGED <<groups, payments, statuses, requests>>

(* Slip: a denial is written with a status that is no member of the enum *)
updateStatusRejected(c, status) ==
    requests' = [requests EXCEPT ![call[c].request].status =
                   IF status = "denied" THEN "rejected" ELSE status]

updateStatus(c, status) ==
    requests' = [requests EXCEPT ![call[c].request].status = status]

(* Slip: the group payment is told before the acceptance is stored *)
AcceptUpdateUnsaved(c) ==
    /\ call[c].at = "accept.update"
    /\ \/ call[c].payment # None /\ Goto(c, "member.find")
       \/ call[c].payment = None /\ Finish(c)
    /\ UNCHANGED <<groups, payments, statuses, requests>>

(* Slip: the payment of the group is not told *)
AcceptUpdateOnly(c) ==
    /\ call[c].at = "accept.update"
    /\ updateStatus(c, "accepted")
    /\ Finish(c)
    /\ UNCHANGED <<groups, payments, statuses>>

AcceptUpdate(c) ==
    /\ call[c].at = "accept.update"
    /\ updateStatus(c, "accepted")
    /\ \/ call[c].payment # None /\ Goto(c, "member.find")
       \/ call[c].payment = None /\ Finish(c)
    /\ UNCHANGED <<groups, payments, statuses>>

DenyUpdate(c) ==
    /\ call[c].at = "deny.update"
    /\ updateStatus(c, "denied")
    /\ Finish(c)
    /\ UNCHANGED <<groups, payments, statuses>>

-----------------------------------------------------------------------------
(* updateGroupPaymentMemberStatus, on behalf of acceptRequest.  The saves   *)
(* set columns that nobody ever sets otherwise, so their SELECTs are left   *)
(* out.  What fails here is logged and swallowed: to the tables, an Abort.  *)

(* Slip: the row is looked for by the payee of the request *)
FindMemberStatusOfPayee(c) ==
    LET payee == requests[call[c].request].payee IN
    /\ call[c].at = "member.find"
    /\ \/ \E s \in Slots :
             /\ statuses[call[c].payment][s].member = payee
             /\ Become(c, [call[c] EXCEPT !.at = "member.save", !.slot = s])
       \/ /\ \A s \in Slots : statuses[call[c].payment][s].member # payee
          /\ Finish(c)
    /\ UNCHANGED <<groups, payments, statuses, requests>>

FindMemberStatus(c) ==
    /\ call[c].at = "member.find"
    /\ \/ \E s \in Slots :
             /\ statuses[call[c].payment][s].member = call[c].who
             /\ Become(c, [call[c] EXCEPT !.at = "member.save", !.slot = s])
       \/ /\ \A s \in Slots : statuses[call[c].payment][s].member # call[c].who
          /\ Finish(c)
    /\ UNCHANGED <<groups, payments, statuses, requests>>

SaveMember(c) ==
    /\ call[c].at = "member.save"
    /\ statuses' = [statuses EXCEPT ![call[c].payment][call[c].slot].status = "paid"]
    /\ Goto(c, "all.find")
    /\ UNCHANGED <<groups, payments, requests>>

AllPaid(p) == \A s \in Slots : statuses[p][s].status \in {"none", "paid"}

(* Slip: the payment is completed by the first member who pays *)
CheckSomePaid(c) ==
    /\ call[c].at = "all.find"
    /\ Goto(c, "payment.save")
    /\ UNCHANGED <<groups, payments, statuses, requests>>

CheckAllPaid(c) ==
    /\ call[c].at = "all.find"
    /\ \/ AllPaid(call[c].payment) /\ Goto(c, "payment.save")
       \/ ~AllPaid(call[c].payment) /\ Finish(c)
    /\ UNCHANGED <<groups, payments, statuses, requests>>

SavePayment(c) ==
    /\ call[c].at = "payment.save"
    /\ payments' = [payments EXCEPT ![call[c].payment].status = "completed"]
    /\ Finish(c)
    /\ UNCHANGED <<groups, statuses, requests>>

-----------------------------------------------------------------------------
(* A query rejects or the process goes down: what is committed stays. *)
Abort(c) ==
    /\ call[c].at # "idle"
    /\ Finish(c)
    /\ UNCHANGED <<groups, payments, statuses, requests>>

CreateBy(c, a) ==
    \/ \E name \in Names, list \in Lists : FindGroup(c, a, name, list)
    \/ \E g \in GroupIds, share \in Amounts \cup {Zero} : FindOneGroup(c, a, g, share)
    \/ \E payer \in Addresses, amount \in Amounts : FindDuplicate(c, payer, a, amount)

Create(c) == \E a \in Addresses : CreateBy(c, a)

Answer(c) ==
    \E a \in Addresses, i \in RequestIds, step \in {"accept.update", "deny.update"} :
        FindRequest(c, a, i, step)

Advance(c) ==
    \/ InsertGroup(c)
    \/ \E p \in PaymentIds : InsertPayment(c, p)
    \/ createMemberStatus(c) \/ createGroupPaymentRequests(c)
    \/ \E i \in RequestIds : InsertRequest(c, i)
    \/ AcceptUpdate(c) \/ DenyUpdate(c)
    \/ FindMemberStatus(c) \/ SaveMember(c) \/ CheckAllPaid(c) \/ SavePayment(c)

Serve == \E c \in Calls : Create(c) \/ Answer(c) \/ Advance(c)

Next == Serve \/ \E c \in Calls : Abort(c)

Spec == Init /\ [][Next]_vars

(* As long as no query fails and the process stays up. *)
ServedSpec == Init /\ [][Serve]_vars

-----------------------------------------------------------------------------
(* Properties. *)

TypeOK ==
    /\ groups \in [GroupIds -> GroupRow]
    /\ payments \in [PaymentIds -> PaymentRow]
    /\ statuses \in [PaymentIds -> [Slots -> MemberRow]]
    /\ requests \in [RequestIds -> RequestRow]
    /\ call \in [Calls -> CallState]

SaidPaid(p) == \E s \in Slots : statuses[p][s].status = "paid"

(* A completed group payment has been paid by every member, however the     *)
(* acceptances interleave: each checks all the rows again after its save.   *)
CompletedIsPaid ==
    \A p \in PaymentIds : payments[p].status = "completed" =>
        /\ AllPaid(p)
        /\ SaidPaid(p)

(* A member counts as paid only by a request of its own in this payment     *)
(* that it has answered: nobody pays for another.                           *)
PaidWasAnswered ==
    \A p \in PaymentIds, s \in Slots : statuses[p][s].status = "paid" =>
        \E i \in RequestIds : /\ requests[i].payment = p
                              /\ requests[i].payer = statuses[p][s].member
                              /\ requests[i].status \in {"accepted", "denied"}

Answers(c, i) == call[c].request = i /\ call[c].at \in {"accept.update", "deny.update"}

Settled(i) ==
    /\ requests[i].status \in {"accepted", "denied"}
    /\ \A c \in Calls : ~Answers(c, i)

(* The answer to a request is final once the calls that found it pending    *)
(* are done with it; only a race between them can turn it over.             *)
AnswerIsFinal ==
    [][\A i \in RequestIds : Settled(i) =>
          Settled(i)' /\ requests'[i] = requests[i]]_vars

Equal(payer, payee, amount) ==
    {i \in RequestIds : /\ requests[i].status = "pending"
                        /\ requests[i].payment = None
                        /\ EqualTo(requests[i], payer, payee, amount)}

(* The duplicate check of createRequest and its insert are queries apart,   *)
(* so that duplicates can be pending, but never more than calls that ran    *)
(* side by side.                                                            *)
DuplicatesBounded ==
    \A payer, payee \in Addresses, amount \in Amounts :
        Cardinality(Equal(payer, payee, amount)) <= Cardinality(Calls)

(* What keeps it: the equal requests and the calls that are past the check  *)
(* and about to insert one more, together, are not more than the calls.     *)
PastCheck(payer, payee, amount) ==
    {c \in Calls : /\ call[c].at = "request.insert"
                   /\ call[c].payer = payer /\ call[c].who = payee
                   /\ call[c].amount = amount}

DuplicatesInv ==
    \A payer, payee \in Addresses, amount \in Amounts :
        /\ IsFiniteSet(Equal(payer, payee, amount))
        /\ Cardinality(Equal(payer, payee, amount))
              + Cardinality(PastCheck(payer, payee, amount)) <= Cardinality(Calls)

(* createGroup is made the same way: an owner can get several groups of one *)
(* name, but never more than calls that ran side by side.                   *)
SameName(owner, name) ==
    {g \in GroupIds : groups[g].owner = owner /\ groups[g].name = name}

GroupNamesBounded ==
    \A owner \in Addresses, name \in Names :
        Cardinality(SameName(owner, name)) <= Cardinality(Calls)

PastNameCheck(owner, name) ==
    {c \in Calls : /\ call[c].at = "group.insert"
                   /\ call[c].who = owner /\ call[c].name = name}

GroupNamesInv ==
    \A owner \in Addresses, name \in Names :
        /\ IsFiniteSet(SameName(owner, name))
        /\ Cardinality(SameName(owner, name))
              + Cardinality(PastNameCheck(owner, name)) <= Cardinality(Calls)

RequestsOf(p) == {i \in RequestIds : requests[i].payment = p}

AllAccepted(p) ==
    /\ RequestsOf(p) # {}
    /\ \A i \in RequestsOf(p) : requests[i].status = "accepted"

(* Once every member has accepted, the payment gets completed, also when    *)
(* the last acceptances race: one of them sees all the others' saves.       *)
AcceptedCompletes ==
    \A p \in PaymentIds : AllAccepted(p) ~> (payments[p].status = "completed")

Paying(c) == call[c].at \in {"member.find", "member.save", "all.find", "payment.save"}

(* Why: as long as no query fails, an accepted payment is completed or in   *)
(* the hands of a call that goes on to complete it.  None is left behind    *)
(* because the last two acceptances each found the other's row pending.     *)
AcceptedInProgress ==
    \A p \in PaymentIds : AllAccepted(p) =>
        \/ payments[p].status = "completed"
        \/ \E c \in Calls : Paying(c) /\ call[c].payment = p

(* What keeps CompletedIsPaid and PaidWasAnswered.  A payment under         *)
(* construction is known to its call alone; what an answer has found and    *)
(* done so far stays as it is until the call ends.                          *)
Constructing(c) == call[c].at \in {"statuses.insert", "requests.insert"}

OwnPayment(c) ==
    Constructing(c) =>
        /\ call[c].payment \in PaymentIds
        /\ payments[call[c].payment].status = "pending"
        /\ \A d \in Calls \ {c} : call[d].payment # call[c].payment
        /\ \A i \in RequestIds : requests[i].payment # call[c].payment

AnswerInHand(c) ==
    /\ call[c].at \in {"accept.update", "deny.update"} \/ Paying(c) =>
          /\ call[c].request \in RequestIds
          /\ requests[call[c].request].status # "none"
          /\ requests[call[c].request].payment = call[c].payment
          /\ requests[call[c].request].payer = call[c].who
    /\ Paying(c) =>
          /\ call[c].payment \in PaymentIds
          /\ requests[call[c].request].status \in {"accepted", "denied"}

MemberInHand(c) ==
    /\ call[c].at = "member.save" =>
          /\ call[c].slot \in Slots
          /\ statuses[call[c].payment][call[c].slot].member = call[c].who
    /\ call[c].at \in {"all.find", "payment.save"} => SaidPaid(call[c].payment)
    /\ call[c].at = "payment.save" => AllPaid(call[c].payment)

Referenced ==
    /\ \A c \in Calls : call[c].payment # None => payments[call[c].payment].status # "none"
    /\ \A i \in RequestIds :
          requests[i].payment # None => payments[requests[i].payment].status # "none"

IInv ==
    /\ TypeOK
    /\ CompletedIsPaid
    /\ PaidWasAnswered
    /\ Referenced
    /\ \A c \in Calls : OwnPayment(c) /\ AnswerInHand(c) /\ MemberInHand(c)

Row(p, s) == statuses[p][s].member # None

(* A group payment that asks any of its members asks all of them, each      *)
(* once, and each for the one row that the answer is going to mark as paid: *)
(* a call that fails half way, a share of zero, or members that became the  *)
(* same when they were normalised, leave a payment that asks nobody.        *)
AskedTogether ==
    \A p \in PaymentIds : RequestsOf(p) # {} =>
        /\ \A s \in Slots : Row(p, s) =>
              \E i \in RequestsOf(p) : requests[i].payer = statuses[p][s].member
        /\ \A i, j \in RequestsOf(p) : requests[i].payer = requests[j].payer => i = j
        /\ \A s, t \in Slots : Row(p, s) /\ statuses[p][s].member = statuses[p][t].member
                               => s = t

(* What keeps it: the rows of a payment are those of the list that its      *)
(* requests are going to be made from.                                      *)
RowsInHand(c) ==
    call[c].at = "requests.insert" =>
        \A s \in Slots : statuses[call[c].payment][s].member = call[c].members[s]

AskedInv ==
    /\ AskedTogether
    /\ \A c \in Calls : RowsInHand(c)
    /\ \A i \in RequestIds : requests[i].payment # None => requests[i].status # "none"

(* What keeps AcceptedInProgress: an accepted request has its row paid or   *)
(* is still on its way there, and the call that finds the last row paid     *)
(* goes on to the payment.                                                  *)
Carried(i) ==
    requests[i].payment # None =>
        /\ \E s \in Slots : statuses[requests[i].payment][s].member = requests[i].payer
        /\ requests[i].status = "accepted" =>
              \/ \A s \in Slots :
                    statuses[requests[i].payment][s].member = requests[i].payer
                      => statuses[requests[i].payment][s].status = "paid"
              \/ \E c \in Calls : /\ call[c].request = i
                                  /\ call[c].at \in {"member.find", "member.save"}

Closing(p) ==
    AllPaid(p) /\ SaidPaid(p) =>
        \/ payments[p].status = "completed"
        \/ \E c \in Calls : /\ call[c].payment = p
                            /\ call[c].at \in {"all.find", "payment.save"}

ProgressInv ==
    /\ \A i \in RequestIds : Carried(i)
    /\ \A p \in PaymentIds : Closing(p)

-----------------------------------------------------------------------------
(* What can be said of a group payment, read off the three tables. *)
Listed(p) == {statuses[p][s].member : s \in {t \in Slots : Row(p, t)}}
Paid(p) ==
    {statuses[p][s].member : s \in {t \in Slots : statuses[p][t].status = "paid"}}
Asked(p) == {requests[i].payer : i \in RequestsOf(p)}
Answered(p) ==
    {requests[i].payer : i \in {j \in RequestsOf(p) :
                                   requests[j].status \in {"accepted", "denied"}}}

View(p) ==
    [status |-> payments[p].status, owner |-> payments[p].owner,
     members |-> Listed(p), asked |-> Asked(p), answered |-> Answered(p),
     paid |-> Paid(p)]

Group == INSTANCE GroupPaymentLifecycle
            WITH payment <- [p \in PaymentIds |-> View(p)]

(* The tables keep what is promised about a group payment, though each of   *)
(* them is written by queries of its own: every query is one step of the    *)
(* abstract payment, or none.                                               *)
GroupSpec == Group!Spec

(* What keeps it: a payment that is not there yet has no rows, and the call *)
(* that makes one writes them once, for the owner of the payment.           *)
NoRows(p) == \A s \in Slots : statuses[p][s] = NoMember

ViewInv ==
    /\ \A p \in PaymentIds :
          /\ payments[p].status = "none" => payments[p] = NoPayment /\ NoRows(p)
          /\ \A s \in Slots : statuses[p][s].status = "none" <=> ~Row(p, s)
    /\ \A i \in RequestIds : requests[i].payment # None => requests[i].payer # None
    /\ \A c \in Calls :
          /\ Constructing(c) => payments[call[c].payment].owner = call[c].who
          /\ call[c].at = "statuses.insert" => NoRows(call[c].payment)
          /\ call[c].at = "payment.insert" => call[c].who # None
=============================================================================
