----------------------------- MODULE MCOutbox -----------------------------
(* Small instances of Outbox. *)
EXTENDS Outbox, TLC

CONSTANTS a, b, w1, w2

Same == Permutations(Rows \ Poison) \cup Permutations(Dispatchers)
=============================================================================
