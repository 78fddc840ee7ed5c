----------------------------- MODULE MCPayments -----------------------------
(* Payments on small instances. *)
EXTENDS Payments, TLC

CONSTANTS alice, bob, BOB, carol

(* Bob's address is spelled in two ways. *)
LowerCase == [a \in Addresses |-> IF a = BOB THEN bob ELSE a]

Symmetry == Permutations(Calls) \cup Permutations(RequestIds) \cup Permutations(Slots)

-----------------------------------------------------------------------------
(* Alice is the only one who creates groups, payments and requests; she     *)
(* asks the others, under either spelling, and all of them answer.          *)
AliceSpec ==
    Init /\ [][\E c \in Calls : CreateBy(c, alice) \/ Answer(c)
                                \/ Advance(c) \/ Abort(c)]_vars

-----------------------------------------------------------------------------
(* The answers to a group payment are explored from a state in which alice  *)
(* has created one for all the others: the state that createGroup and       *)
(* createGroupPayment reach when they run one after the other.  Slots,      *)
(* members and ids of requests correspond one to one.                       *)
SeededInit ==
    LET others == Addresses \ {alice}
        ids == CHOOSE f \in [others -> RequestIds] :
                  \A m, n \in others : f[m] = f[n] => m = n
        list == CHOOSE f \in [Slots -> others] : Distinct(f)
        amount == CHOOSE a \in Amounts : TRUE
    IN /\ groups = [g \in GroupIds |->
                      [owner |-> alice, name |-> CHOOSE n \in Names : TRUE,
                       members |-> list]]
       /\ payments = [p \in PaymentIds |-> [status |-> "pending", owner |-> alice]]
       /\ statuses = [p \in PaymentIds |->
                        [s \in Slots |-> [status |-> "pending", member |-> list[s]]]]
       /\ requests = [i \in RequestIds |->
                        [status |-> "pending",
                         payer |-> CHOOSE m \in others : ids[m] = i,
                         payee |-> alice, amount |-> amount,
                         payment |-> CHOOSE p \in PaymentIds : TRUE]]
       /\ call = [c \in Calls |-> Idle]

AnswersSpec ==
    /\ SeededInit
    /\ [][\E c \in Calls : Answer(c) \/ Advance(c)]_vars
    /\ \A c \in Calls : WF_vars(Advance(c))
=============================================================================
