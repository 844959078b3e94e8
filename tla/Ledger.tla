------------------------------ MODULE Ledger ------------------------------
(***************************************************************************)
(* The accounting ledger of one admission profile: its fees, their         *)
(* invoices, the manually recorded payments, the refund requests and the   *)
(* overpayment records, as the finance services read and write them.       *)
(*                                                                         *)
(* A service operation is ONE database transaction.  Where all that it     *)
(* decides on is read under the row locks it writes under, the transaction *)
(* is one action here.  Two operations read without a lock and are two     *)
(* actions each: the nightly job that marks invoices overdue (OverdueScan, *)
(* OverdueWrite) and the recalculation of a fee (RecalculateRead,          *)
(* RecalculateWrite).                                                      *)
(***************************************************************************)
EXTENDS LedgerMath, FiniteSets, Functions

CONSTANTS
    Fees,           \* the fees of the profile
    Invoices,       \* invoice numbers, each reserved for one fee by FeeOf
    FeeOf,
    Payments,       \* ids of manually recorded payments
    Refunds,        \* ids of refund requests
    Users,          \* finance staff: makers and checkers
    Amounts,        \* the amounts a user may enter
    FinalAmount,    \* final_amount of each fee when it is calculated
    FirstTerm,      \* the tuition fees a change of major prices again
    Recalculated,   \* the fees a manager may recalculate
    PastDue,        \* invoices whose due date has passed
    PenaltyAllowed, \* the state of the penalty kill-switch
    Nil             \* a NULL foreign key

ASSUME LedgerConstants ==
    /\ IsFiniteSet(Invoices) /\ IsFiniteSet(Payments) /\ IsFiniteSet(Refunds)
    /\ FeeOf \in [Invoices -> Fees]
    /\ FinalAmount \in [Fees -> Nat]
    /\ FirstTerm \subseteq Fees /\ Recalculated \subseteq Fees
    /\ Amounts \subseteq Nat \ {0}
    /\ PastDue \subseteq Invoices
    /\ PenaltyAllowed \in BOOLEAN
    /\ Nil \notin Fees \cup Invoices \cup Payments \cup Refunds \cup Users

VARIABLES
    fee, invoice, payment, refund,
    over,        \* the overpayment record of each payment: payment_id is UNIQUE
    awaiting,    \* the fees with awaiting_accountant_confirmation
    overdueScan, \* the invoices a running mark_overdue_invoices will write
    recalculation \* what a running recalculate_fee has read

jobs == <<overdueScan, recalculation>>
vars == <<fee, invoice, payment, refund, over, awaiting, jobs>>

-----------------------------------------------------------------------------
PaymentRow ==
    [invoice : Invoices \cup {Nil}, amount : Nat, maker : Users \cup {Nil},
     status : {"absent", "pending", "verified", "rejected", "refunded"}]

RefundRow ==
    [payment : Payments \cup {Nil}, amount : Nat, requester : Users \cup {Nil},
     source : {"manual", "overpayment"},
     status : {"absent", "pending", "approved", "refunded", "rejected"}]

OverRow ==
    [amount : Nat, refund : Refunds \cup {Nil}, target : Invoices \cup {Nil},
     status : {"absent", "pending", "applied", "refunded", "cancelled"}]

\* No recalculation is running.
NoRecalculation == [fee |-> Nil, waived |-> 0, drafts |-> {}]

\* The rows of the ledger have the types the tables and their CHECK constraints
\* give them (fee.py, invoice.py, payment.py, overpayment.py): no amount is negative.
TypeOK ==
    /\ fee \in [Fees -> Fee]
    /\ invoice \in [Invoices -> Invoice]
    /\ payment \in [Payments -> PaymentRow]
    /\ refund \in [Refunds -> RefundRow]
    /\ over \in [Payments -> OverRow]
    /\ awaiting \subseteq FirstTerm
    /\ overdueScan \subseteq Invoices
    /\ recalculation \in [fee : Fees \cup {Nil}, waived : Nat, drafts : SUBSET Invoices]

Init ==
    /\ fee = [f \in Fees |->
                [final |-> FinalAmount[f], paid |-> 0, waived |-> 0, status |-> "absent"]]
    /\ invoice = [i \in Invoices |->
                [amount |-> 0, paid |-> 0, penalty |-> 0, status |-> "absent"]]
    /\ payment = [p \in Payments |->
                [invoice |-> Nil, amount |-> 0, maker |-> Nil, status |-> "absent"]]
    /\ refund = [r \in Refunds |->
                [payment |-> Nil, amount |-> 0, requester |-> Nil,
                 source |-> "manual", status |-> "absent"]]
    /\ over = [p \in Payments |->
                [amount |-> 0, refund |-> Nil, target |-> Nil, status |-> "absent"]]
    /\ awaiting = {}
    /\ overdueScan = {}
    /\ recalculation = NoRecalculation

-----------------------------------------------------------------------------
(* Invoices *)

InvoicesOf(f) == {i \in Invoices : FeeOf[i] = f}

ActiveInvoices(f) ==
    {i \in InvoicesOf(f) : invoice[i].status \notin {"absent", "cancelled"}}

\* The fee, its invoices and their amounts in one transaction: the invoices of an
\* instalment plan, of a down payment and the rest, or one for all.
CalculateFee(f) ==
    /\ fee[f].status = "absent"
    /\ \E batch \in SUBSET InvoicesOf(f), first \in {"draft", "issued"} :
         \E part \in [batch -> Amounts] :
            /\ batch # {}
            /\ SumFunctionOnSet(part, batch) = fee[f].final
            /\ invoice' = [i \in Invoices |->
                 IF i \in batch THEN [invoice[i] EXCEPT !.amount = part[i], !.status = first]
                                ELSE invoice[i]]
    /\ fee' = [fee EXCEPT ![f].status = "invoiced"]
    /\ UNCHANGED <<payment, refund, over, awaiting, jobs>>

CreateInvoice(i, a) ==
    LET f == FeeOf[i]
        billed == SumFunctionOnSet([j \in Invoices |-> invoice[j].amount], ActiveInvoices(f))
    IN  /\ invoice[i].status = "absent"
        /\ fee[f].status \in {"calculated", "invoiced", "partial"}
        /\ a <= fee[f].final - fee[f].waived - billed
        /\ invoice' = [invoice EXCEPT ![i].amount = a, ![i].status = "draft"]
        /\ fee' = [fee EXCEPT ![f] = RecomputedFee(@, TRUE)]
        /\ UNCHANGED <<payment, refund, over, awaiting, jobs>>

IssueInvoice(i) ==
    /\ invoice[i].status = "draft"
    /\ invoice' = [invoice EXCEPT ![i].status = "issued"]
    /\ UNCHANGED <<fee, payment, refund, over, awaiting, jobs>>

\* Fault: the fee is not recomputed.
CancelInvoiceAlone(i) ==
    /\ invoice[i].status \notin {"absent", "cancelled"}
    /\ invoice[i].paid = 0
    /\ FeeOf[i] \notin awaiting
    /\ invoice' = [invoice EXCEPT ![i].status = "cancelled"]
    /\ UNCHANGED <<fee, payment, refund, over, awaiting, jobs>>

CancelInvoice(i) ==
    /\ invoice[i].status \notin {"absent", "cancelled"}
    /\ invoice[i].paid = 0
    /\ FeeOf[i] \notin awaiting
    /\ invoice' = [invoice EXCEPT ![i].status = "cancelled"]
    /\ fee' = [fee EXCEPT ![FeeOf[i]] = RecomputedFee(@, ActiveInvoices(FeeOf[i]) # {i})]
    /\ UNCHANGED <<payment, refund, over, awaiting, jobs>>

\* is_overdue: past the due date, not fully paid.
ApplyPenalty(i, a) ==
    /\ PenaltyAllowed
    /\ i \in PastDue
    /\ invoice[i].status \in PayableInvoiceStatuses
    /\ ~FullyPaid(invoice[i])
    /\ invoice[i].penalty + a <= invoice[i].amount
    /\ invoice' = [invoice EXCEPT ![i].penalty = @ + a]
    /\ UNCHANGED <<fee, payment, refund, over, awaiting, jobs>>

OverdueScan ==
    /\ overdueScan = {}
    /\ overdueScan' = {i \in PastDue : invoice[i].status \in {"draft", "issued"}}
    /\ UNCHANGED <<fee, invoice, payment, refund, over, awaiting, recalculation>>

OverdueWrite ==
    /\ overdueScan # {}
    /\ invoice' = [i \in Invoices |->
                     IF i \in overdueScan THEN [invoice[i] EXCEPT !.status = "overdue"]
                                          ELSE invoice[i]]
    /\ overdueScan' = {}
    /\ UNCHANGED <<fee, payment, refund, over, awaiting, recalculation>>

-----------------------------------------------------------------------------
(* Payments: recorded by a maker, verified or rejected by a checker *)

\* assert_payable_target
AcceptsMoney(i) == PayableTarget(fee[FeeOf[i]], invoice[i]) /\ FeeOf[i] \notin awaiting

RecordManualPayment(p, i, a, u) ==
    /\ payment[p].status = "absent"
    /\ invoice[i].status \in PayableInvoiceStatuses
    /\ AcceptsMoney(i)
    /\ a <= InvoiceRemaining(invoice[i])
    /\ payment' = [payment EXCEPT ![p] =
                     [invoice |-> i, amount |-> a, maker |-> u, status |-> "pending"]]
    /\ UNCHANGED <<fee, invoice, refund, over, awaiting, jobs>>

VerifyPayment(p, u) ==
    LET i == payment[p].invoice
        a == payment[p].amount
        excess == Excess(invoice[i], a)
    IN  /\ payment[p].status = "pending"
        /\ payment[p].maker # u
        /\ AcceptsMoney(i)
        /\ payment' = [payment EXCEPT ![p].status = "verified"]
        /\ invoice' = [invoice EXCEPT ![i] = PayInvoice(@, a)]
        /\ fee' = [fee EXCEPT ![FeeOf[i]] = PayFee(@, a)]
        /\ over' = IF excess > 0
                   THEN [over EXCEPT ![p].amount = excess, ![p].status = "pending"]
                   ELSE over
        /\ UNCHANGED <<refund, awaiting, jobs>>

RejectPayment(p, u) ==
    /\ payment[p].status = "pending"
    /\ payment[p].maker # u
    /\ payment' = [payment EXCEPT ![p].status = "rejected"]
    /\ UNCHANGED <<fee, invoice, refund, over, awaiting, jobs>>

-----------------------------------------------------------------------------
(* Refunds *)

RefundTotal(p, statuses) ==
    SumFunctionOnSet([r \in Refunds |-> refund[r].amount],
                     {r \in Refunds : refund[r].payment = p /\ refund[r].status \in statuses})

CommittedStatuses == {"pending", "approved", "refunded"}

\* Fault: only refunds that were paid count against the payment.
FileRefundUnreserved(r, p, a, u, source) ==
    /\ refund[r].status = "absent"
    /\ payment[p].status = "verified"
    /\ a <= payment[p].amount - RefundTotal(p, {"refunded"})
    /\ refund' = [refund EXCEPT ![r] =
                    [payment |-> p, amount |-> a, requester |-> u,
                     source |-> source, status |-> "pending"]]

\* request_refund, called by the user (manual) or by refund_overpayment.
FileRefund(r, p, a, u, source) ==
    /\ refund[r].status = "absent"
    /\ payment[p].status = "verified"
    /\ a <= payment[p].amount - RefundTotal(p, CommittedStatuses)
    /\ refund' = [refund EXCEPT ![r] =
                    [payment |-> p, amount |-> a, requester |-> u,
                     source |-> source, status |-> "pending"]]

RequestRefund(r, p, a, u) ==
    /\ FileRefund(r, p, a, u, "manual")
    /\ over[p].status \in {"absent", "refunded"}
    /\ UNCHANGED <<fee, invoice, payment, over, awaiting, jobs>>

ApproveRefund(r, u) ==
    /\ refund[r].status = "pending"
    /\ refund[r].requester # u
    /\ refund[r].amount <= payment[refund[r].payment].amount
                             - RefundTotal(refund[r].payment, {"approved", "refunded"})
    /\ refund' = [refund EXCEPT ![r].status = "approved"]
    /\ UNCHANGED <<fee, invoice, payment, over, awaiting, jobs>>

\* Fault: a refund that was paid can still be refused.
RejectRefundLate(r) ==
    /\ refund[r].status \in {"pending", "approved", "refunded"}
    /\ refund' = [refund EXCEPT ![r].status = "rejected"]
    /\ UNCHANGED <<fee, invoice, payment, over, awaiting, jobs>>

RejectRefund(r) ==
    /\ refund[r].status \in {"pending", "approved"}
    /\ refund' = [refund EXCEPT ![r].status = "rejected"]
    /\ UNCHANGED <<fee, invoice, payment, over, awaiting, jobs>>

\* A fee that was cancelled stays cancelled, with its invoice.
ProcessRefund(r) ==
    LET p == refund[r].payment
        a == refund[r].amount
        i == payment[p].invoice
        f == FeeOf[i]
        dead == fee[f].status = "cancelled"
    IN  /\ refund[r].status = "approved"
        /\ payment[p].status = "verified"
        /\ a <= payment[p].amount - RefundTotal(p, {"refunded"})
        /\ refund' = [refund EXCEPT ![r].status = "refunded"]
        /\ invoice' = [invoice EXCEPT ![i] =
                         IF dead THEN [ReverseInvoice(@, a) EXCEPT !.status = "cancelled"]
                                 ELSE ReverseInvoice(@, a)]
        /\ fee' = [fee EXCEPT ![f] =
                     IF dead THEN [ReverseFee(@, a) EXCEPT !.status = "cancelled"]
                             ELSE ReverseFee(@, a)]
        /\ over' = IF over[p].refund = r /\ over[p].status = "pending"
                   THEN [over EXCEPT ![p].status = "refunded"]
                   ELSE over
        /\ UNCHANGED <<payment, awaiting, jobs>>

-----------------------------------------------------------------------------
(* Overpayments *)

\* Faults: a record whose refund is under way may be resolved another way; a
\* resolved record may be resolved again.
ResolvableMeanwhile(p) == over[p].status = "pending"
ResolvableAgain(p) == over[p].status \in {"pending", "applied"}

Resolvable(p) ==
    /\ over[p].status = "pending"
    /\ over[p].refund # Nil =>
         refund[over[p].refund].status \notin {"pending", "approved"}

RefundOverpayment(p, r, u) ==
    /\ Resolvable(p)
    /\ FileRefund(r, p, over[p].amount, u, "overpayment")
    /\ over' = [over EXCEPT ![p].refund = r]
    /\ UNCHANGED <<fee, invoice, payment, awaiting, jobs>>

\* The credit leaves the invoice it was paid on and reaches the target (which may
\* be that very invoice); the paid amount of a fee changes only when the two
\* invoices have different fees.
ApplyOverpayment(p, target) ==
    LET a == over[p].amount
        source == payment[p].invoice
        from == FeeOf[source]
        to == FeeOf[target]
        taken == [invoice EXCEPT ![source] = CreditLeavesInvoice(@, a)]
    IN  /\ Resolvable(p)
        /\ invoice[target].status \in PayableInvoiceStatuses
        /\ AcceptsMoney(target)
        /\ a <= InvoiceRemaining(invoice[target])
        /\ invoice' = [taken EXCEPT ![target] = PayInvoice(@, a)]
        /\ fee' = IF from = to
                  THEN [fee EXCEPT ![to] = CreditReachesFee(@, 0)]
                  ELSE [fee EXCEPT ![from] = CreditLeavesFee(@, a),
                                   ![to] = CreditReachesFee(@, a)]
        /\ over' = [over EXCEPT ![p].status = "applied", ![p].target = target]
        /\ UNCHANGED <<payment, refund, awaiting, jobs>>

WriteOff(p) ==
    /\ Resolvable(p)
    /\ over' = [over EXCEPT ![p].status = "cancelled"]
    /\ UNCHANGED <<fee, invoice, payment, refund, awaiting, jobs>>

-----------------------------------------------------------------------------
(* Fees *)

\* Fault: the accountant's confirmation is not waited for.
WaiveFeeAnyTime(f, a) ==
    LET after == [fee[f] EXCEPT !.waived = @ + a]
    IN  /\ fee[f].status # "absent" /\ a <= FeeRemaining(fee[f])
        /\ fee' = [fee EXCEPT ![f] =
                     IF FeeRemaining(after) <= 0 THEN [after EXCEPT !.status = "paid"]
                                                 ELSE after]
        /\ UNCHANGED <<invoice, payment, refund, over, awaiting, jobs>>

\* No guard on the status of the fee.
WaiveFee(f, a) ==
    LET after == [fee[f] EXCEPT !.waived = @ + a]
    IN  /\ fee[f].status # "absent" /\ f \notin awaiting
        /\ a <= FeeRemaining(fee[f])
        /\ fee' = [fee EXCEPT ![f] =
                     IF FeeRemaining(after) <= 0 THEN [after EXCEPT !.status = "paid"]
                                                 ELSE after]
        /\ UNCHANGED <<invoice, payment, refund, over, awaiting, jobs>>

PendingPayments(f) ==
    {p \in Payments : payment[p].status = "pending" /\ FeeOf[payment[p].invoice] = f}

\* Fault: payments waiting for their verification are overlooked.
CancelFeeUnchecked(f) ==
    /\ fee[f].status # "absent" /\ f \notin awaiting
    /\ fee[f].paid = 0
    /\ fee' = [fee EXCEPT ![f].status = "cancelled"]
    /\ invoice' = [i \in Invoices |->
                     IF i \in ActiveInvoices(f) THEN [invoice[i] EXCEPT !.status = "cancelled"]
                                                ELSE invoice[i]]
    /\ UNCHANGED <<payment, refund, over, awaiting, jobs>>

CancelFee(f) ==
    /\ fee[f].status # "absent" /\ f \notin awaiting
    /\ fee[f].paid = 0
    /\ PendingPayments(f) = {}
    /\ fee' = [fee EXCEPT ![f].status = "cancelled"]
    /\ invoice' = [i \in Invoices |->
                     IF i \in ActiveInvoices(f) THEN [invoice[i] EXCEPT !.status = "cancelled"]
                                                ELSE invoice[i]]
    /\ UNCHANGED <<payment, refund, over, awaiting, jobs>>

\* On the one active invoice of the fee, which the fee's payments are all on. The caller
\* holds the profile, so that nothing comes between the look for the invoice and its lock.
RepriceForMajorChange(f, a) ==
    LET target == a - fee[f].waived
    IN  /\ f \in FirstTerm \ awaiting
        /\ fee[f].status \notin {"absent", "cancelled"}
        /\ target > 0 /\ fee[f].paid <= target
        /\ \E i \in Invoices :
             /\ ActiveInvoices(f) = {i}
             /\ \A p \in Payments : payment[p].invoice = i => payment[p].status # "pending"
             /\ invoice' = [invoice EXCEPT ![i].amount = target,
                   ![i].status = CASE invoice[i].paid >= target -> "paid"
                                   [] invoice[i].paid < target /\ invoice[i].paid > 0 -> "partial"
                                   [] OTHER -> "issued"]
        /\ fee' = [fee EXCEPT ![f] = RecomputedFee([@ EXCEPT !.final = a], TRUE)]
        /\ awaiting' = awaiting \cup {f}
        /\ UNCHANGED <<payment, refund, over, jobs>>

ConfirmMajorChange(f) ==
    /\ f \in awaiting
    /\ fee[f].final > fee[f].waived
    /\ \E i \in Invoices : /\ ActiveInvoices(f) = {i}
                          /\ invoice[i].amount = fee[f].final - fee[f].waived
    /\ fee' = [fee EXCEPT ![f] = RecomputedFee(@, TRUE)]
    /\ awaiting' = awaiting \ {f}
    /\ UNCHANGED <<invoice, payment, refund, over, jobs>>

-----------------------------------------------------------------------------
(* The recalculation of a fee; at most one runs at a time *)

\* The fee, its invoices, and no lock.
RecalculateRead(f) ==
    /\ f \in Recalculated /\ recalculation = NoRecalculation
    /\ fee[f].status # "absent" /\ fee[f].paid = 0
    /\ \A i \in ActiveInvoices(f) : invoice[i].status = "draft"
    /\ recalculation' = [fee |-> f, waived |-> fee[f].waived, drafts |-> ActiveInvoices(f)]
    /\ UNCHANGED <<fee, invoice, payment, refund, over, awaiting, overdueScan>>

\* The new price goes to the fee, and by id to the invoices that were drafts.
RecalculateWrite(a) ==
    LET f == recalculation.fee
        drafts == recalculation.drafts
    IN  /\ f # Nil
        /\ a > recalculation.waived
        /\ \E part \in [drafts -> Amounts] :
             /\ drafts # {} => SumFunctionOnSet(part, drafts) = a
             /\ invoice' = [i \in Invoices |->
                  IF i \in drafts THEN [invoice[i] EXCEPT !.amount = part[i]] ELSE invoice[i]]
        /\ fee' = [fee EXCEPT ![f].final = a]
        /\ recalculation' = NoRecalculation
        /\ UNCHANGED <<payment, refund, over, awaiting, overdueScan>>

\* Drafts that do not fit the plan, or any failure: a rollback.
RecalculateFails ==
    /\ recalculation # NoRecalculation
    /\ recalculation' = NoRecalculation
    /\ UNCHANGED <<fee, invoice, payment, refund, over, awaiting, overdueScan>>

Recalculate ==
    \/ \E f \in Fees : RecalculateRead(f)
    \/ \E a \in Amounts : RecalculateWrite(a)
    \/ RecalculateFails

-----------------------------------------------------------------------------
InvoiceStep(i) ==
    \/ \E a \in Amounts : CreateInvoice(i, a)
    \/ IssueInvoice(i)
    \/ CancelInvoice(i)
    \/ \E a \in Amounts : ApplyPenalty(i, a)

PaymentStep(p) ==
    \/ \E i \in Invoices, a \in Amounts, u \in Users : RecordManualPayment(p, i, a, u)
    \/ \E u \in Users : VerifyPayment(p, u)
    \/ \E u \in Users : RejectPayment(p, u)

RefundStep(r) ==
    \/ \E p \in Payments, a \in Amounts, u \in Users : RequestRefund(r, p, a, u)
    \/ \E u \in Users : ApproveRefund(r, u)
    \/ RejectRefund(r)
    \/ ProcessRefund(r)

OverpaymentStep(p) ==
    \/ \E r \in Refunds, u \in Users : RefundOverpayment(p, r, u)
    \/ \E i \in Invoices : ApplyOverpayment(p, i)
    \/ WriteOff(p)

FeeStep(f) ==
    \/ CalculateFee(f)
    \/ \E a \in Amounts : WaiveFee(f, a)
    \/ CancelFee(f)
    \/ \E a \in Amounts : RepriceForMajorChange(f, a)
    \/ ConfirmMajorChange(f)

Next ==
    \/ \E i \in Invoices : InvoiceStep(i)
    \/ \E p \in Payments : PaymentStep(p) \/ OverpaymentStep(p)
    \/ \E r \in Refunds : RefundStep(r)
    \/ \E f \in Fees : FeeStep(f)
    \/ OverdueScan
    \/ OverdueWrite
    \/ Recalculate

Spec == Init /\ [][Next]_vars

-----------------------------------------------------------------------------
(* What the books must say, whatever the staff and the nightly job do *)

PaymentsOn(i) ==
    {p \in Payments : payment[p].invoice = i /\ payment[p].status = "verified"}

\* What an overpayment of payment p moved to another invoice.
Credit(p) == IF over[p].status = "applied" THEN over[p].amount ELSE 0

\* What invoice i holds of payment p.
Holding(p, i) ==
    (IF p \in PaymentsOn(i)
     THEN payment[p].amount - RefundTotal(p, {"refunded"}) - Credit(p) ELSE 0)
    + (IF over[p].target = i THEN Credit(p) ELSE 0)

\* An invoice holds exactly the verified payments made on it, less what was paid
\* back of them, less the credits that left it, plus those that reached it: the
\* clamp at zero of reverse_payment_balances never swallows an amount.  And
\* fee.paid_amount, which the services keep by hand beside the invoices, is always
\* the sum over the fee's invoices, transfers of credit between fees included.
BooksBalance ==
    /\ \A i \in Invoices :
        invoice[i].paid = SumFunctionOnSet([p \in Payments |-> Holding(p, i)], Payments)
    /\ \A f \in Fees :
        fee[f].paid = SumFunctionOnSet([i \in Invoices |-> invoice[i].paid], InvoicesOf(f))

\* No payment is paid out twice: what request_refund reserved of it and the credit
\* apply_to_invoice or write_off took from it never exceed what was received.
PayoutsBounded ==
    \A p \in Payments :
        LET spent == IF over[p].status \in {"applied", "cancelled"} THEN over[p].amount ELSE 0
        IN  RefundTotal(p, CommittedStatuses) + spent <= payment[p].amount

\* An overpayment is resolved once: one that was applied or written off has no
\* refund left that could still be paid, and one marked refunded was really paid.
OverpaymentSettledOnce ==
    \A p \in Payments :
        LET linked == {r \in Refunds : over[p].refund = r}
        IN  /\ over[p].status \in {"applied", "cancelled"} =>
                  \A r \in linked : refund[r].status = "rejected"
            /\ over[p].status = "refunded" <=> \E r \in linked : refund[r].status = "refunded"

\* cancel_fee and cancel_invoice leave nothing behind that could bring money to the
\* dead target: no paid amount, and on a cancelled fee no payment still to verify.
CancelledHoldsNoMoney ==
    /\ \A i \in Invoices : invoice[i].status = "cancelled" => invoice[i].paid = 0
    /\ \A f \in Fees : fee[f].status = "cancelled" => fee[f].paid = 0 /\ PendingPayments(f) = {}

\* Both, also while the nightly job writes what it read without a lock.
BooksHold == BooksBalance /\ CancelledHoldsNoMoney

-----------------------------------------------------------------------------
(* What the status columns must say *)

\* Every service recomputes fee.status in its own words; whichever wrote last, the
\* status of a live fee is the one its amounts and its active invoices imply.
\* An invoice is paid exactly when nothing remains due on it, partial exactly when
\* some but not all of it was received; only then does it hold money.  So it is as
\* long as no invoice is past due and no penalty is applied.
StatusesAgree ==
    /\ \A f \in Fees :
        fee[f].status \notin {"absent", "cancelled"} =>
            fee[f].status = RecomputedStatus(fee[f], ActiveInvoices(f) # {})
    /\ \A i \in Invoices :
        LET row == invoice[i]
        IN  row.status # "absent" =>
              /\ row.status = "paid" <=> FullyPaid(row)
              /\ row.status = "partial" <=> row.paid > 0 /\ ~FullyPaid(row)

\* A fee that was priced again waits for the accountant, and what he confirms stays there
\* to be confirmed: one active invoice, for what the fee asks. No waiver, cancellation,
\* new invoice or refund leaves the profile behind a gate that nobody can open.
RepricingCanBeConfirmed ==
    \A f \in awaiting :
        /\ fee[f].status # "cancelled" /\ fee[f].final > fee[f].waived
        /\ \E i \in Invoices : /\ ActiveInvoices(f) = {i}
                              /\ invoice[i].amount = fee[f].final - fee[f].waived

\* A decision is final: no later operation revises a payment that was verified or
\* rejected, a refund that was paid or refused, a resolved overpayment.
DecisionsAreFinal ==
    [][/\ \A p \in Payments :
            /\ payment[p].status \in {"verified", "rejected"} => payment'[p] = payment[p]
            /\ over[p].status \notin {"absent", "pending"} => over'[p] = over[p]
       /\ \A r \in Refunds :
            refund[r].status \in {"refunded", "rejected"} => refund'[r] = refund[r]]_vars

=============================================================================
