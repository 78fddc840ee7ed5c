------------------------------ MODULE MCNotes -------------------------------
(* Notes on a small instance: Alice's address is spelled in two ways. *)
EXTENDS Notes, TLC

CONSTANTS alice, ALICE, bob

Spelled == {alice, ALICE, bob}
LowerCase == [a \in Addresses |-> IF a = ALICE THEN alice ELSE a]

Symmetry == Permutations(Requests)

-----------------------------------------------------------------------------
(* Batches are followed to their end from a state in which alice has sent   *)
(* what there is: transactions that can be recalled now, later or never,    *)
(* and gifts.  It is the state that sendSingle and sendGift reach at time 1 *)
(* when they run one after the other.                                       *)
SentInit ==
    /\ now = 1
    /\ txs \in [Txs -> [status: {"pending"}, sender: {alice}, recipient: {bob},
                        recallable: BOOLEAN,
                        recallableTime: {Null} \cup 2..MaxTime]]
    /\ gifts = [g \in Gifts |->
                  [status |-> "pending", openedAt |-> Null, recalledAt |-> Null,
                   sender |-> alice, recallableTime |-> now + GiftRecallableAfter]]
    /\ req = [r \in Requests |-> Idle]

SentLiveSpec == SentInit /\ Answered
=============================================================================
