---------------------------- MODULE LedgerMath ----------------------------
(***************************************************************************)
(* The money arithmetic every finance service shares: what one verified    *)
(* payment, one processed refund or one transferred credit does to an      *)
(* invoice record and to a fee record (payment_service.py, the resolution  *)
(* part of overpayment_service.py, and the derived amounts of the models). *)
(* Amounts are natural numbers of a currency unit; a fee is a record with  *)
(* final, paid, waived, status and an invoice one with amount, paid,       *)
(* penalty, status.                                                        *)
(***************************************************************************)
EXTENDS Integers

\* "absent" is a fee that was not calculated yet.
FeeStatuses == {"absent", "calculated", "invoiced", "partial", "paid", "cancelled"}

\* "absent" is an invoice number not used yet.
InvoiceStatuses ==
    {"absent", "draft", "issued", "partial", "paid", "cancelled", "overdue"}

PayableInvoiceStatuses == {"issued", "partial", "overdue"}

Fee == [final : Nat, paid : Nat, waived : Nat, status : FeeStatuses]

Invoice == [amount : Nat, paid : Nat, penalty : Nat, status : InvoiceStatuses]

-----------------------------------------------------------------------------
Due(i) == i.amount + i.penalty

InvoiceRemaining(i) == Due(i) - i.paid

FullyPaid(i) == InvoiceRemaining(i) <= 0

FeeRemaining(f) == f.final - f.paid - f.waived

Above(x, bound) == IF x > bound THEN x - bound ELSE 0

\* Fault: the payment alone is held against the due.
ExcessOfPaymentAlone(i, a) == Above(a, Due(i))

\* The part of a payment that this very posting pushes beyond what is due.
Excess(i, a) == Above(i.paid + a, Due(i)) - Above(i.paid, Due(i))

\* assert_payable_target, for a profile that may still pay.
PayableTarget(f, i) == f.status # "cancelled" /\ i.status # "cancelled"

-----------------------------------------------------------------------------
PayInvoice(i, a) ==
    [i EXCEPT !.paid = @ + a,
              !.status = CASE i.paid + a >= Due(i) -> "paid"
                           [] i.paid + a < Due(i) /\ i.paid + a > 0 -> "partial"
                           [] OTHER -> @]

PostedFeeStatus(f) ==
    CASE FeeRemaining(f) <= 0 -> "paid"
      [] FeeRemaining(f) > 0 /\ f.paid > 0 /\ f.status = "invoiced" -> "partial"
      [] OTHER -> f.status

PayFee(f, a) ==
    LET after == [f EXCEPT !.paid = @ + a]
    IN  [after EXCEPT !.status = PostedFeeStatus(after)]

\* Fault: an invoice emptied to the last unit is taken for a partial one.
ReverseInvoiceOffByOne(i, a) ==
    [i EXCEPT !.paid = Above(@, a),
              !.status = CASE i.paid < a -> "issued"
                           [] i.paid >= a /\ i.paid - a < i.amount -> "partial"
                           [] OTHER -> @]

\* The status is settled against the amount WITHOUT the penalty, and an invoice
\* that still covers it keeps the status it had.
ReverseInvoice(i, a) ==
    [i EXCEPT !.paid = Above(@, a),
              !.status = CASE i.paid <= a -> "issued"
                           [] i.paid > a /\ i.paid - a < i.amount -> "partial"
                           [] OTHER -> @]

SettledFeeStatus(f) ==
    CASE FeeRemaining(f) <= 0 -> "paid"
      [] FeeRemaining(f) > 0 /\ f.paid > 0 -> "partial"
      [] OTHER -> "invoiced"

\* Fault: the status is settled, the amount stays.
ReverseFeeKeepsPaid(f, a) == [f EXCEPT !.status = SettledFeeStatus([f EXCEPT !.paid = Above(@, a)])]

ReverseFee(f, a) ==
    LET after == [f EXCEPT !.paid = Above(@, a)]
    IN  [after EXCEPT !.status = SettledFeeStatus(after)]

-----------------------------------------------------------------------------
\* Faults: the credit is copied to the target instead of moved.
CreditStaysOnInvoice(i, a) == i
CreditStaysOnFee(f, a) == f

\* Applying a credit: it leaves the source invoice (and its fee) ...
CreditLeavesInvoice(i, a) ==
    LET after == [i EXCEPT !.paid = @ - a]
    IN  [after EXCEPT !.status = CASE FullyPaid(after) -> "paid"
                                   [] ~FullyPaid(after) /\ after.paid > 0 -> "partial"
                                   [] OTHER -> "issued"]

CreditLeavesFee(f, a) ==
    LET after == [f EXCEPT !.paid = @ - a]
    IN  [after EXCEPT !.status = SettledFeeStatus(after)]

\* ... and reaches the target's; within one fee a is 0 for the fee.
CreditedFeeStatus(f) ==
    CASE FeeRemaining(f) <= 0 -> "paid"
      [] FeeRemaining(f) > 0 /\ f.paid > 0 -> "partial"
      [] OTHER -> f.status

CreditReachesFee(f, a) ==
    LET after == [f EXCEPT !.paid = @ + a]
    IN  [after EXCEPT !.status = CreditedFeeStatus(after)]

\* recompute_fee_from_invoices; active: does the fee still have an invoice.
RecomputedStatus(f, active) ==
    CASE FeeRemaining(f) <= 0 -> "paid"
      [] FeeRemaining(f) > 0 /\ f.paid > 0 -> "partial"
      [] FeeRemaining(f) > 0 /\ f.paid = 0 /\ active -> "invoiced"
      [] OTHER -> "calculated"

RecomputedFee(f, active) ==
    IF f.status = "cancelled" THEN f
    ELSE [f EXCEPT !.status = RecomputedStatus(f, active)]
=============================================================================
