--------------------------- MODULE MCAddressBook ----------------------------
(* The address book on a small instance: Bob's address is spelled in two    *)
(* ways, and a name is written with and without a space.                    *)
EXTENDS AddressBook, TLC

CONSTANTS alice, bob, BOB, carol, bobby, bobbySpace

LowerCase == [a \in Addresses |-> IF a = BOB THEN bob ELSE a]
Trimmed == [s \in Names \cup Categories |-> IF s = bobbySpace THEN bobby ELSE s]

Symmetry == Permutations(Requests) \cup Permutations(Ids)
=============================================================================
