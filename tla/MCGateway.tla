----------------------------- MODULE MCGateway -----------------------------
(* Small instances of Gateway. *)
EXTENDS Gateway, TLC

CONSTANTS n1, n2, m1, s1, s2

Same == Permutations({n1, n2}) \cup Permutations({s1, s2})
=============================================================================
