----------------------- MODULE GroupPaymentLifecycle ------------------------
(***************************************************************************)
(* What the service promises about a group payment: it is opened once, its *)
(* members are listed once, all of them are asked or none is, a member     *)
(* answers only when it was asked and pays only when it has answered, and  *)
(* the payment is completed, for good, when everybody has paid.            *)
(***************************************************************************)
CONSTANTS PaymentIds, Addresses, None

VARIABLE payment    \* what can be said of each payment

New == [status |-> "none", owner |-> None,
        members |-> {}, asked |-> {}, answered |-> {}, paid |-> {}]

Opened(a) == [status |-> "pending", owner |-> a,
              members |-> {}, asked |-> {}, answered |-> {}, paid |-> {}]

Init == payment = [p \in PaymentIds |-> New]

Change(p, view) == payment' = [payment EXCEPT ![p] = view]

Open(p, a) ==
    /\ payment[p] = New
    /\ Change(p, Opened(a))

List(p, S) ==
    /\ payment[p].status = "pending"
    /\ payment[p].members = {} /\ payment[p].asked = {}
    /\ Change(p, [payment[p] EXCEPT !.members = S])

(* Nobody is asked to pay itself. *)
Ask(p) ==
    /\ payment[p].status = "pending"
    /\ payment[p].asked = {}
    /\ payment[p].owner \notin payment[p].members
    /\ Change(p, [payment[p] EXCEPT !.asked = payment[p].members])

Answer(p, m) ==
    /\ m \in payment[p].asked
    /\ Change(p, [payment[p] EXCEPT !.answered = @ \cup {m}])

Pay(p, m) ==
    /\ m \in payment[p].answered
    /\ Change(p, [payment[p] EXCEPT !.paid = @ \cup {m}])

Complete(p) ==
    /\ payment[p].paid = payment[p].members
    /\ payment[p].paid # {}
    /\ Change(p, [payment[p] EXCEPT !.status = "completed"])

Next ==
    \E p \in PaymentIds :
        \/ \E a \in Addresses : Open(p, a)
        \/ \E S \in SUBSET Addresses : List(p, S)
        \/ Ask(p)
        \/ \E m \in Addresses : Answer(p, m) \/ Pay(p, m)
        \/ Complete(p)

Spec == Init /\ [][Next]_payment

-----------------------------------------------------------------------------
(* What follows: whoever has paid has answered and was asked, the owner is  *)
(* never asked, and a completed payment has been asked of, answered by and  *)
(* paid by each of its members.                                             *)
Kept(v) ==
    /\ v.paid \subseteq v.answered
    /\ v.answered \subseteq v.asked
    /\ v.asked \in {{}, v.members}
    /\ v.owner \notin v.asked
    /\ v.status = "completed" => v.paid = v.members /\ v.members # {}

Promise == \A p \in PaymentIds : Kept(payment[p])
=============================================================================
