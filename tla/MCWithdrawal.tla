---------------------------- MODULE MCWithdrawal ----------------------------
(* Two payments of one tuition fee, one of them imported, and an application *)
(* fee with a payment of its own.                                            *)
EXTENDS Withdrawal, TLC

CONSTANTS p1, p2, p3, tuition, application

MCFeeOf == p1 :> tuition @@ p2 :> tuition @@ p3 :> application
MCAmount == p1 :> 2 @@ p2 :> 1 @@ p3 :> 1
Symmetry == Permutations(Requests) \cup Permutations(Refunds)
=============================================================================
