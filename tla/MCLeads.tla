------------------------------ MODULE MCLeads ------------------------------
(* An officer in each of two units, with room for one lead each. *)
EXTENDS Leads, TLC

CONSTANTS o1, o2, u1, u2

MCUnitOf == (o1 :> u1) @@ (o2 :> u2)
MCCapacity == (o1 :> 1) @@ (o2 :> 1)
Same == Permutations(Requests) \cup Permutations(Workers) \cup Permutations(Leads)

=============================================================================
