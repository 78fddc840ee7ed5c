--------------------------- MODULE MCJwtSessions ----------------------------
(* Sessions of one user on a small instance. *)
EXTENDS JwtSessions, TLC

Symmetry == Permutations(Calls) \cup Permutations(Ids) \cup Permutations(Secrets)
=============================================================================
