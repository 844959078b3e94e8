----------------------------- MODULE MCDelivery -----------------------------
(* A small instance of Delivery. *)
EXTENDS Delivery, TLC

CONSTANTS d1, w1, w2, s1
=============================================================================
