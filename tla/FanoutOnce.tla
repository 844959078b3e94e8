----------------------------- MODULE FanoutOnce -----------------------------
(***************************************************************************)
(* What the notification outbox promises the services that call            *)
(* dispatch_event: an event whose transaction committed is accepted, and   *)
(* its notifications are persisted at most once, never before that.  Only  *)
(* an event that has come loose may be persisted again.                    *)
(***************************************************************************)
EXTENDS Naturals

CONSTANT Events

VARIABLES accepted, loose, fanouts

Init ==
    /\ accepted = {}
    /\ loose = {}
    /\ fanouts = [e \in Events |-> 0]

Accept(e) ==
    /\ accepted' = accepted \cup {e}
    /\ UNCHANGED <<loose, fanouts>>

\* Its fan-out took longer than it may.
Loosen(e) ==
    /\ e \in accepted
    /\ loose' = loose \cup {e}
    /\ UNCHANGED <<accepted, fanouts>>

FanOut(e) ==
    /\ e \in accepted
    /\ fanouts[e] = 0 \/ e \in loose
    /\ fanouts' = [fanouts EXCEPT ![e] = @ + 1]
    /\ UNCHANGED <<accepted, loose>>

Next == \E e \in Events : Accept(e) \/ Loosen(e) \/ FanOut(e)

Spec == Init /\ [][Next]_<<accepted, loose, fanouts>>
=============================================================================
