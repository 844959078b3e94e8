----------------------------- MODULE FeeAccount -----------------------------
(***************************************************************************)
(* What the paying side of finance promises of one fee, whoever posts to   *)
(* it: each payment is received at most once and never changes, the fee    *)
(* shows what was received, and a fee is closed only while nothing was     *)
(* received and receives nothing afterwards.                               *)
(***************************************************************************)
EXTENDS Naturals

CONSTANTS Payments, Amounts

VARIABLES
    received,   \* of each payment; 0 if it was not received
    paid,       \* what the fee shows
    open

Init ==
    /\ received = [p \in Payments |-> 0]
    /\ paid = 0
    /\ open = TRUE

Receive(p, a) ==
    /\ open
    /\ received[p] = 0
    /\ received' = [received EXCEPT ![p] = a]
    /\ paid' = paid + a
    /\ UNCHANGED open

Close ==
    /\ paid = 0
    /\ open' = FALSE
    /\ UNCHANGED <<received, paid>>

Next == Close \/ \E p \in Payments, a \in Amounts : Receive(p, a)

Spec == Init /\ [][Next]_<<received, paid, open>>
=============================================================================
