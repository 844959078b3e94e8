----------------------------- MODULE Withdrawal -----------------------------
(***************************************************************************)
(* The withdrawal of an admission profile that has paid: the profile waits *)
(* in "withdrawal_pending" while finance returns the money, and becomes    *)
(* "withdrawn" with the last refund (admission_service.withdraw_profile,   *)
(* cancel_withdrawal, _finalize_withdrawn; payment_service.RefundService). *)
(*                                                                         *)
(* A request is one database transaction.  get_for_update of an invoice or *)
(* a fee is a bare FOR UPDATE over a join, so it locks the row of the      *)
(* profile as well.  A request that takes its locks in two places is two   *)
(* actions, the second waiting for what the first does not hold; two       *)
(* requests that wait for each other end by Fail, the victim the database  *)
(* chooses.                                                                *)
(***************************************************************************)
EXTENDS Integers, FiniteSets, Functions

CONSTANTS
    Payments,      \* ids of payments
    Refunds,       \* ids of refund requests
    Fees,
    FeeOf,         \* the fee each payment's invoice belongs to
    Application,   \* the fees that are never returned
    Amount,        \* of each payment
    Imported,      \* the payments one committed import batch recorded
    Requests,
    Nobody, NoRow

ASSUME WithdrawalConstants ==
    /\ IsFiniteSet(Payments) /\ IsFiniteSet(Refunds) /\ IsFiniteSet(Fees)
    /\ FeeOf \in [Payments -> Fees]
    /\ Application \subseteq Fees
    /\ Amount \in [Payments -> Nat \ {0}]
    /\ Imported \subseteq Payments
    /\ Nobody \notin Requests
    /\ NoRow \notin Payments \cup Refunds

VARIABLES
    status,       \* of the profile; "draft" stands for all that may be withdrawn
    from,         \* from_status in the history row of the last transition
    paid,         \* paid_amount of each fee
    cancelled,    \* fees that are cancelled
    payment,      \* status of each payment
    refund,
    profileLock, paymentLock, refundLock,
    req           \* what each request has in memory

vars == <<status, from, paid, cancelled, payment, refund,
          profileLock, paymentLock, refundLock, req>>
books == <<paid, cancelled, payment, refund>>
locks == <<profileLock, paymentLock, refundLock>>

Statuses == {"draft", "admitted", "withdrawal_pending", "withdrawn"}

Refund == [payment : Payments, amount : Nat \ {0}, source : {"manual", "withdrawal"},
           status : {"pending", "approved", "refunded", "rejected"}]
        \cup {[status |-> "absent"]}

Request == [at : {"idle", "withdraw", "cancel", "process", "verify", "void", "cleanup"},
            row : Payments \cup Refunds \cup {NoRow},
            rows : SUBSET Refunds,
            due : [Payments -> Nat]]

\* Rows, locks and requests have their types; no refund is filed for nothing.
TypeOK ==
    /\ status \in Statuses
    /\ from \in Statuses
    /\ paid \in [Fees -> Nat]
    /\ cancelled \subseteq Fees
    /\ payment \in [Payments -> {"absent", "pending", "verified", "rejected", "refunded"}]
    /\ refund \in [Refunds -> Refund]
    /\ profileLock \in Requests \cup {Nobody}
    /\ paymentLock \in [Payments -> Requests \cup {Nobody}]
    /\ refundLock \in [Refunds -> Requests \cup {Nobody}]
    /\ req \in [Requests -> Request]

Nothing == [p \in Payments |-> 0]
Idle == [at |-> "idle", row |-> NoRow, rows |-> {}, due |-> Nothing]

Init ==
    /\ status = "draft"
    /\ from = "draft"
    /\ paid = [f \in Fees |-> 0]
    /\ cancelled = {}
    /\ payment = [p \in Payments |-> "absent"]
    /\ refund = [r \in Refunds |-> [status |-> "absent"]]
    /\ profileLock = Nobody
    /\ paymentLock = [p \in Payments |-> Nobody]
    /\ refundLock = [r \in Refunds |-> Nobody]
    /\ req = [q \in Requests |-> Idle]

-----------------------------------------------------------------------------
(* What the queries of the repositories return *)

\* sum_unrefunded_refundable_paid: the money held that must go back.
Held(amounts) == SumFunctionOnSet(amounts, Fees \ Application)

AmountOn(f, payments) == SumFunctionOnSet(Amount, {p \in payments : FeeOf[p] = f})

\* The payments of the batch that stand.
Recorded == {p \in Imported : payment[p] = "verified"}

\* get_total_refunds_for_payment.
RefundsOf(p, statuses) ==
    {r \in Refunds : refund[r].status \in statuses /\ refund[r].payment = p}

TotalRefunds(p, statuses) ==
    LET rows == RefundsOf(p, statuses)
    IN  SumFunctionOnSet([r \in rows |-> refund[r].amount], rows)

Live == {"pending", "approved", "refunded"}
Available(p) == Amount[p] - TotalRefunds(p, Live)

\* get_verified_by_profile.
Returnable == {p \in Payments : payment[p] = "verified" /\ FeeOf[p] \notin Application}

\* The requests reject_open_refunds_for_profile selects.
OpenWithdrawal ==
    {r \in Refunds : /\ refund[r].status \in {"pending", "approved"}
                     /\ refund[r].source = "withdrawal"}

PendingPayment(f) == \E p \in Payments : FeeOf[p] = f /\ payment[p] = "pending"

\* assert_payable_target.
Payable(f) == f \notin cancelled /\ status \notin {"withdrawn", "withdrawal_pending"}

-----------------------------------------------------------------------------
(* Transactions *)

\* reverse_payment_balances: never below zero.
Reverse(balance, a) == IF balance > a THEN balance - a ELSE 0

\* A wait for the profile's row ends when its holder commits.
ProfileFree(q) == profileLock \in {q, Nobody}

Release(q) ==
    /\ profileLock' = IF profileLock = q THEN Nobody ELSE profileLock
    /\ paymentLock' = [p \in Payments |-> IF paymentLock[p] = q THEN Nobody ELSE paymentLock[p]]
    /\ refundLock' = [r \in Refunds |-> IF refundLock[r] = q THEN Nobody ELSE refundLock[r]]

Return(q) == Release(q) /\ req' = [req EXCEPT ![q] = Idle]

\* transition: every change of the status leaves a history row.
MoveTo(new) == status' = new /\ from' = status

\* The request raises, loses its connection or is the victim of a deadlock.
Fail(q) ==
    /\ req[q].at # "idle"
    /\ Return(q)
    /\ UNCHANGED <<status, from, books>>

-----------------------------------------------------------------------------
(* Payments *)

\* record_payment: in one step, since all it reads is under the profile's lock.
RecordPayment(p) ==
    /\ payment[p] = "absent"
    /\ p \notin Imported
    /\ profileLock = Nobody
    /\ Payable(FeeOf[p])
    /\ payment' = [payment EXCEPT ![p] = "pending"]
    /\ UNCHANGED <<status, from, paid, cancelled, refund, locks, req>>

\* commit_batch records the rows of the file that may be paid, verified.
ImportPayments ==
    LET rows == {p \in Imported : Payable(FeeOf[p])}
    IN  /\ rows # {}
        /\ \A p \in Imported : payment[p] = "absent"
        /\ profileLock = Nobody
        /\ payment' = [p \in Payments |-> IF p \in rows THEN "verified" ELSE payment[p]]
        /\ paid' = [f \in Fees |-> paid[f] + AmountOn(f, rows)]
        /\ UNCHANGED <<status, from, cancelled, refund, locks, req>>

RejectPayment(p) ==
    /\ payment[p] = "pending"
    /\ paymentLock[p] = Nobody
    /\ payment' = [payment EXCEPT ![p] = "rejected"]
    /\ UNCHANGED <<status, from, paid, cancelled, refund, locks, req>>

\* verify_payment holds the payment while it waits for invoice, fee and profile.
VerifyBegin(q, p) ==
    /\ req[q].at = "idle"
    /\ paymentLock[p] = Nobody
    /\ payment[p] = "pending"
    /\ paymentLock' = [paymentLock EXCEPT ![p] = q]
    /\ req' = [req EXCEPT ![q] = [Idle EXCEPT !.at = "verify", !.row = p]]
    /\ UNCHANGED <<status, from, books, profileLock, refundLock>>

\* Fault: the state of the profile is not looked at under its lock.
VerifyCommitAnyProfile(q) ==
    LET p == req[q].row
    IN  /\ req[q].at = "verify"
        /\ ProfileFree(q)
        /\ FeeOf[p] \notin cancelled
        /\ payment' = [payment EXCEPT ![p] = "verified"]
        /\ paid' = [paid EXCEPT ![FeeOf[p]] = @ + Amount[p]]
        /\ Return(q)
        /\ UNCHANGED <<status, from, cancelled, refund>>

VerifyCommit(q) ==
    LET p == req[q].row
    IN  /\ req[q].at = "verify"
        /\ ProfileFree(q)
        /\ Payable(FeeOf[p])
        /\ payment' = [payment EXCEPT ![p] = "verified"]
        /\ paid' = [paid EXCEPT ![FeeOf[p]] = @ + Amount[p]]
        /\ Return(q)
        /\ UNCHANGED <<status, from, cancelled, refund>>

\* void_batch takes back a whole import: payments first, then invoices and fees.
VoidBegin(q) ==
    /\ req[q].at = "idle"
    /\ Recorded # {}
    /\ \A p \in Recorded : paymentLock[p] = Nobody
    /\ paymentLock' = [p \in Payments |-> IF p \in Recorded THEN q ELSE paymentLock[p]]
    /\ req' = [req EXCEPT ![q] = [Idle EXCEPT !.at = "void"]]
    /\ UNCHANGED <<status, from, books, profileLock, refundLock>>

VoidCommit(q) ==
    /\ req[q].at = "void"
    /\ ProfileFree(q)
    /\ \A p \in Recorded : RefundsOf(p, Live) = {} /\ FeeOf[p] \notin cancelled
    /\ payment' = [p \in Payments |-> IF p \in Recorded THEN "refunded" ELSE payment[p]]
    /\ paid' = [f \in Fees |-> Reverse(paid[f], AmountOn(f, Recorded))]
    /\ Return(q)
    /\ UNCHANGED <<status, from, cancelled, refund>>

-----------------------------------------------------------------------------
(* Refunds *)

File(p, a, s) == [payment |-> p, amount |-> a, source |-> s, status |-> "pending"]

\* request_refund, by finance: it locks the payment and nothing else.
RequestRefund(r, p, a) ==
    /\ refund[r].status = "absent"
    /\ paymentLock[p] = Nobody
    /\ payment[p] = "verified"
    /\ a <= Available(p)
    /\ refund' = [refund EXCEPT ![r] = File(p, a, "manual")]
    /\ UNCHANGED <<status, from, paid, cancelled, payment, locks, req>>

ApproveRefund(r) ==
    /\ refund[r].status = "pending"
    /\ refundLock[r] = Nobody
    /\ refund[r].amount <= Amount[refund[r].payment]
                             - TotalRefunds(refund[r].payment, {"approved", "refunded"})
    /\ refund' = [refund EXCEPT ![r].status = "approved"]
    /\ UNCHANGED <<status, from, paid, cancelled, payment, locks, req>>

\* Fault: a refund a pending withdrawal waits for can be rejected.
RejectRefundAlone(r) ==
    /\ refund[r].status \in {"pending", "approved"}
    /\ refundLock[r] = Nobody
    /\ refund' = [refund EXCEPT ![r].status = "rejected"]
    /\ UNCHANGED <<status, from, paid, cancelled, payment, locks, req>>

\* reject_refund of one refund: not one a pending withdrawal waits for.
RejectRefund(r) ==
    /\ refund[r].status \in {"pending", "approved"}
    /\ refundLock[r] = Nobody
    /\ refund[r].source = "withdrawal" => status # "withdrawal_pending"
    /\ refund' = [refund EXCEPT ![r].status = "rejected"]
    /\ UNCHANGED <<status, from, paid, cancelled, payment, locks, req>>

ProcessBegin(q, r) ==
    /\ req[q].at = "idle"
    /\ refundLock[r] = Nobody
    /\ refund[r].status = "approved"
    /\ refundLock' = [refundLock EXCEPT ![r] = q]
    /\ req' = [req EXCEPT ![q] = [Idle EXCEPT !.at = "process", !.row = r]]
    /\ UNCHANGED <<status, from, books, profileLock, paymentLock>>

\* Fault: the application fee counts as money to wait for, so the last refund of the
\* others leaves the profile waiting.
ProcessCommitAllFees(q) ==
    LET r == req[q].row
        p == refund[r].payment
        f == FeeOf[p]
        left == Reverse(paid[f], refund[r].amount)
        finalize == status = "withdrawal_pending" /\ 
                      SumFunctionOnSet([paid EXCEPT ![f] = left], Fees) = 0
    IN  /\ req[q].at = "process"
        /\ ProfileFree(q)
        /\ payment[p] = "verified"
        /\ refund[r].amount <= Amount[p] - TotalRefunds(p, {"refunded"})
        /\ refund' = [refund EXCEPT ![r].status = "refunded"]
        /\ paid' = [paid EXCEPT ![f] = left]
        /\ IF finalize THEN MoveTo("withdrawn") ELSE UNCHANGED <<status, from>>
        /\ Release(q)
        /\ req' = [req EXCEPT ![q] = IF finalize THEN [Idle EXCEPT !.at = "cleanup"] ELSE Idle]
        /\ UNCHANGED <<cancelled, payment>>

\* process_approved_refund: the money goes out; the last refund of a pending
\* withdrawal ends it, and its request goes on to clean up after the commit.
ProcessCommit(q) ==
    LET r == req[q].row
        p == refund[r].payment
        f == FeeOf[p]
        left == Reverse(paid[f], refund[r].amount)
        finalize == status = "withdrawal_pending" /\ Held([paid EXCEPT ![f] = left]) = 0
    IN  /\ req[q].at = "process"
        /\ ProfileFree(q)
        /\ payment[p] = "verified"
        /\ refund[r].amount <= Amount[p] - TotalRefunds(p, {"refunded"})
        /\ refund' = [refund EXCEPT ![r].status = "refunded"]
        /\ paid' = [paid EXCEPT ![f] = left]
        /\ IF finalize THEN MoveTo("withdrawn") ELSE UNCHANGED <<status, from>>
        /\ Release(q)
        /\ req' = [req EXCEPT ![q] = IF finalize THEN [Idle EXCEPT !.at = "cleanup"] ELSE Idle]
        /\ UNCHANGED <<cancelled, payment>>

\* _cancel_phantom_fees_callback, a transaction for each fee it can cancel.
CancelPhantomFee(q, f) ==
    /\ req[q].at = "cleanup"
    /\ profileLock = Nobody
    /\ f \notin Application \cup cancelled
    /\ paid[f] = 0
    /\ ~PendingPayment(f)
    /\ cancelled' = cancelled \cup {f}
    /\ UNCHANGED <<status, from, paid, payment, refund, locks, req>>

-----------------------------------------------------------------------------
(* The profile *)

\* The way to and from a seat, which the module Admission follows step by step.
Admit ==
    /\ profileLock = Nobody
    /\ status = "draft"
    /\ MoveTo("admitted")
    /\ UNCHANGED <<books, locks, req>>

\* withdraw_profile, up to the refunds it will file: the profile is locked, the
\* payments are read.
WithdrawBegin(q) ==
    /\ req[q].at = "idle"
    /\ profileLock = Nobody
    /\ status \in {"draft", "admitted"}
    /\ profileLock' = q
    /\ req' = [req EXCEPT ![q] =
         [Idle EXCEPT !.at = "withdraw",
                      !.due = [p \in Payments |-> IF p \in Returnable THEN Available(p) ELSE 0]]]
    /\ UNCHANGED <<status, from, books, paymentLock, refundLock>>

\* An admitted profile gives up its seat and no money moves.
WithdrawDirectly(q) ==
    /\ req[q].at = "withdraw"
    /\ status = "admitted"
    /\ MoveTo("withdrawn")
    /\ Return(q)
    /\ UNCHANGED books

\* Fault: a refund is filed also for a payment with nothing left to return.
WithdrawCommitEvery(q) ==
    LET due == Returnable
        unpaid == {f \in Fees \ cancelled : paid[f] = 0}
    IN  /\ req[q].at = "withdraw"
        /\ status = "draft"
        /\ \A p \in due : /\ paymentLock[p] = Nobody
                          /\ payment[p] = "verified"
                          /\ req[q].due[p] <= Available(p)
        /\ \A f \in unpaid : ~PendingPayment(f)
        /\ \E row \in Injection(due, {r \in Refunds : refund[r].status = "absent"}) :
             LET of == AntiFunction(row)
             IN  refund' = [r \in Refunds |->
                     IF r \in DOMAIN of THEN File(of[r], req[q].due[of[r]], "withdrawal")
                     ELSE refund[r]]
        /\ cancelled' = cancelled \cup unpaid
        /\ MoveTo(IF Held(paid) > 0 THEN "withdrawal_pending" ELSE "withdrawn")
        /\ Return(q)
        /\ UNCHANGED <<paid, payment>>

\* A refund for what is left of every payment, the fees without money are
\* cancelled, and the profile waits if money is held.
WithdrawCommit(q) ==
    LET due == {p \in Payments : req[q].due[p] > 0}
        unpaid == {f \in Fees \ cancelled : paid[f] = 0}
    IN  /\ req[q].at = "withdraw"
        /\ status = "draft"
        /\ \A p \in due : /\ paymentLock[p] = Nobody
                          /\ payment[p] = "verified"
                          /\ req[q].due[p] <= Available(p)
        /\ \A f \in unpaid : ~PendingPayment(f)
        /\ \E row \in Injection(due, {r \in Refunds : refund[r].status = "absent"}) :
             LET of == AntiFunction(row)
             IN  refund' = [r \in Refunds |->
                     IF r \in DOMAIN of THEN File(of[r], req[q].due[of[r]], "withdrawal")
                     ELSE refund[r]]
        /\ cancelled' = cancelled \cup unpaid
        /\ MoveTo(IF Held(paid) > 0 THEN "withdrawal_pending" ELSE "withdrawn")
        /\ Return(q)
        /\ UNCHANGED <<paid, payment>>

\* Fault: the profile is read without its lock.
CancelBeginUnlocked(q) ==
    /\ req[q].at = "idle"
    /\ profileLock = Nobody
    /\ status = "withdrawal_pending"
    /\ profileLock' = profileLock
    /\ req' = [req EXCEPT ![q] = [Idle EXCEPT !.at = "cancel", !.rows = OpenWithdrawal]]
    /\ UNCHANGED <<status, from, books, paymentLock, refundLock>>

\* cancel_withdrawal, and admin_rollback_profile of a pending withdrawal: the
\* open refunds are read under the profile's lock ...
CancelBegin(q) ==
    /\ req[q].at = "idle"
    /\ profileLock = Nobody
    /\ status = "withdrawal_pending"
    /\ profileLock' = q
    /\ req' = [req EXCEPT ![q] = [Idle EXCEPT !.at = "cancel", !.rows = OpenWithdrawal]]
    /\ UNCHANGED <<status, from, books, paymentLock, refundLock>>

\* Fault: the refunds that are already approved stay.
CancelCommitPending(q) ==
    /\ req[q].at = "cancel"
    /\ \A r \in req[q].rows : refundLock[r] = Nobody
    /\ refund' = [r \in Refunds |->
         IF r \in req[q].rows /\ refund[r].status = "pending" THEN [refund[r] EXCEPT !.status = "rejected"] ELSE refund[r]]
    /\ MoveTo("draft")
    /\ Return(q)
    /\ UNCHANGED <<paid, cancelled, payment>>

\* ... and rejected under their own.
CancelCommit(q) ==
    /\ req[q].at = "cancel"
    /\ \A r \in req[q].rows : refundLock[r] = Nobody
    /\ refund' = [r \in Refunds |->
         IF r \in req[q].rows THEN [refund[r] EXCEPT !.status = "rejected"] ELSE refund[r]]
    /\ MoveTo("draft")
    /\ Return(q)
    /\ UNCHANGED <<paid, cancelled, payment>>

\* admin_rollback_profile from any other state that is not final.
Rollback ==
    /\ profileLock = Nobody
    /\ status = "admitted"
    /\ MoveTo("draft")
    /\ UNCHANGED <<books, locks, req>>

-----------------------------------------------------------------------------
Next ==
    \/ \E p \in Payments : RecordPayment(p) \/ RejectPayment(p)
    \/ ImportPayments
    \/ \E r \in Refunds, p \in Payments : \E a \in 1..Amount[p] : RequestRefund(r, p, a)
    \/ \E r \in Refunds : ApproveRefund(r) \/ RejectRefund(r)
    \/ Admit \/ Rollback
    \/ \E q \in Requests :
         \/ \E p \in Payments : VerifyBegin(q, p)
         \/ \E r \in Refunds : ProcessBegin(q, r)
         \/ \E f \in Fees : CancelPhantomFee(q, f)
         \/ VerifyCommit(q) \/ VoidBegin(q) \/ VoidCommit(q) \/ ProcessCommit(q)
         \/ WithdrawBegin(q) \/ WithdrawDirectly(q) \/ WithdrawCommit(q)
         \/ CancelBegin(q) \/ CancelCommit(q) \/ Fail(q)

Spec == Init /\ [][Next]_vars

-----------------------------------------------------------------------------
\* A profile that waits has money to wait for: the refund that returns the last
\* of it also ends the withdrawal, however the refunds, a cancellation and a
\* second withdrawal overlap.
PendingHoldsMoney == status = "withdrawal_pending" => Held(paid) > 0

\* ... unless the money left as an import that was taken back.
PendingWaitsForMoney ==
    PendingHoldsMoney \/ \E p \in Imported : payment[p] = "refunded"

\* A profile that was not admitted leaves with none of the applicant's money
\* held, and none arrives afterwards.
WithdrawnHoldsNoMoney ==
    status = "withdrawn" /\ from # "admitted" => Held(paid) = 0

\* A refund filed by a withdrawal is open only while that withdrawal waits: a
\* profile brought back to draft can not be paid out later, and a withdrawn one
\* leaves no refund behind.
RefundsDieWithTheirWithdrawal == OpenWithdrawal # {} => status = "withdrawal_pending"

\* While a profile waits every verified payment is on its way back in full: no
\* part of it is left without a refund, save what finance itself refused.
PendingMoneyIsScheduled ==
    status = "withdrawal_pending" =>
        \A p \in Returnable :
            \/ TotalRefunds(p, Live) = Amount[p]
            \/ \E r \in RefundsOf(p, {"rejected"}) : refund[r].source = "manual"

\* Nothing brings a withdrawn profile back: every request that read it as
\* waiting reads it again, or holds its row.
WithdrawnIsFinal == [][status = "withdrawn" => status' = "withdrawn"]_status
=============================================================================
