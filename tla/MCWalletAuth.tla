---------------------------- MODULE MCWalletAuth ----------------------------
(* Instances of WalletAuth for TLC. *)
EXTENDS WalletAuth, TLC

Symmetry == Permutations(Requests) \cup Permutations(Keys)
            \cup Permutations(Tokens) \cup Permutations(Codes)
            \cup Permutations(Wallets)

(* The sessions are explored from a state in which every key has been       *)
(* registered already, each for any wallet: the state that initiateAuth and *)
(* registerKey reach at time 0 when they run one after the other.           *)
SeededInit ==
    /\ now = 0
    /\ sessions = [t \in Tokens |-> NoSession]
    /\ challenges = [c \in Codes |-> NoChallenge]
    /\ req = [r \in Requests |-> Idle]
    /\ keys \in [Keys -> [status : {"active"}, wallet : Wallets,
                          expiresAt : {KEY_EXPIRY}]]

SeededSpec == SeededInit /\ [][Next]_vars
=============================================================================
