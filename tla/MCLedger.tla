----------------------------- MODULE MCLedger -----------------------------
(***************************************************************************)
(* Small instances of Ledger.  As long as there are two users, whoever     *)
(* recorded a payment or requested a refund, another one may decide on it: *)
(* the view therefore leaves both names out of the state, as it does the   *)
(* source of a refund, which no operation reads.                           *)
(***************************************************************************)
EXTENDS Ledger, TLC

CONSTANTS f1, f2, i1, i2, i3, p1, p2, r1, r2, u1, u2

\* Two invoices for the first fee, one for the second.
TwoFees == i1 :> f1 @@ i2 :> f1 @@ i3 :> f2
FinalTwo == f1 :> 2 @@ f2 :> 1

OneFee == i1 :> f1 @@ i2 :> f1
FinalOne == f1 :> 2

Same == Permutations({p1, p2}) \cup Permutations({r1, r2}) \cup Permutations({u1, u2})

\* Of a rejected payment or refund nothing but its status is ever read again.
Anonymous ==
    <<fee, invoice, over, awaiting, jobs,
      [p \in Payments |->
         IF payment[p].status = "rejected" THEN "rejected"
         ELSE <<payment[p].status, payment[p].invoice, payment[p].amount>>],
      [r \in Refunds |->
         IF refund[r].status = "rejected" THEN "rejected"
         ELSE <<refund[r].status, refund[r].payment, refund[r].amount>>]>>
=============================================================================
