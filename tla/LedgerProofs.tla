---------------------------- MODULE LedgerProofs ----------------------------
(***************************************************************************)
(* Proofs about Ledger for every set of fees, every finite set of          *)
(* invoices, payments and refunds, and for all amounts: an overpayment is  *)
(* settled once, decisions are final, the books balance, no payment is     *)
(* paid out twice, and the statuses agree with the books.                  *)
(*                                                                         *)
(* OverpaymentSettledOnce is not inductive.  The record and its refund     *)
(* request are two rows that different operations close, so what is needed *)
(* is how they are linked (Linked) and that a payment still to be verified *)
(* has no record yet (NoRecordBeforeVerification).                         *)
(*                                                                         *)
(* The books need MoneyInv: what an invoice holds of each payment, and     *)
(* what is reserved of it by refunds and its overpayment record.  The      *)
(* statuses need StatusInv on top of it: an invoice's and a fee's status   *)
(* is what a recomputation from their amounts would give.                  *)
(***************************************************************************)
EXTENDS Ledger, LedgerMathProofs

\* The rows have their types, as far as no sum over the books is needed for it.
RowsTyped ==
    /\ invoice \in [Invoices -> LooseInvoice]
    /\ payment \in [Payments -> PaymentRow]
    /\ refund \in [Refunds -> RefundRow]
    /\ over \in [Payments -> OverRow]
    /\ \A p \in Payments : payment[p].status # "absent" => payment[p].invoice \in Invoices

\* The refund an overpayment record is linked to was filed, for that payment.
Linked ==
    \A p \in Payments, r \in Refunds :
        over[p].refund = r => refund[r].payment = p /\ refund[r].status # "absent"

\* A record that does not exist has no link, and none exists before the payment
\* was verified.
NoRecordBeforeVerification ==
    \A p \in Payments :
        /\ over[p].status = "absent" => over[p].refund = Nil
        /\ payment[p].status \in {"absent", "pending"} => over[p].status = "absent"

\* So are the fees.
FeesTyped == fee \in [Fees -> LooseFee]

Inv == RowsTyped /\ FeesTyped /\ Linked /\ NoRecordBeforeVerification /\ OverpaymentSettledOnce

\* The initial state satisfies the invariant.
LEMMA InitInv == Init => Inv
  <1> SUFFICES ASSUME Init PROVE Inv
    OBVIOUS
  <1>1. RowsTyped
    BY DEF Init, RowsTyped, LooseInvoice, InvoiceStatuses, PaymentRow, RefundRow, OverRow
  <1>3. FeesTyped
    BY LedgerConstants DEF Init, FeesTyped, LooseFee, FeeStatuses
  <1>2. Linked /\ NoRecordBeforeVerification /\ OverpaymentSettledOnce
    BY LedgerConstants DEF Init, Linked, NoRecordBeforeVerification, OverpaymentSettledOnce
  <1> QED BY <1>1, <1>2, <1>3 DEF Inv

-----------------------------------------------------------------------------
\* Updates the operations make of one row, and what they yield.
LEMMA RefundUpdates ==
    ASSUME NEW t \in RefundRow
    PROVE  \A s \in {"approved", "refunded", "rejected"} : [t EXCEPT !.status = s] \in RefundRow
  BY DEF RefundRow

\* Likewise the updates made of an overpayment record.
LEMMA OverUpdates ==
    ASSUME NEW t \in OverRow
    PROVE  /\ \A s \in {"refunded", "cancelled"} : [t EXCEPT !.status = s] \in OverRow
           /\ \A i \in Invoices : [t EXCEPT !.status = "applied", !.target = i] \in OverRow
           /\ \A r \in Refunds : [t EXCEPT !.refund = r] \in OverRow
           /\ \A a \in Nat : [t EXCEPT !.amount = a, !.status = "pending"] \in OverRow
  BY DEF OverRow

\* ... and of an invoice by the operations that only change its status or penalty.
LEMMA InvoiceUpdates ==
    ASSUME NEW t \in LooseInvoice
    PROVE  /\ \A s \in InvoiceStatuses : [t EXCEPT !.status = s] \in LooseInvoice
           /\ \A a \in Nat : [t EXCEPT !.amount = a, !.status = "draft"] \in LooseInvoice
           /\ \A a \in Nat : [t EXCEPT !.penalty = @ + a] \in LooseInvoice
           /\ \A a \in Nat : [t EXCEPT !.amount = a] \in LooseInvoice
           /\ \A a \in Nat, s \in InvoiceStatuses :
                [t EXCEPT !.amount = a, !.status = s] \in LooseInvoice
  <1>1. \A s \in InvoiceStatuses : [t EXCEPT !.status = s] \in LooseInvoice
    BY DEF LooseInvoice
  <1>2. \A a \in Nat : [t EXCEPT !.amount = a, !.status = "draft"] \in LooseInvoice
    BY DEF LooseInvoice, InvoiceStatuses
  <1>3. \A a \in Nat : [t EXCEPT !.penalty = @ + a] \in LooseInvoice
    BY DEF LooseInvoice
  <1>4. \A a \in Nat : [t EXCEPT !.amount = a] \in LooseInvoice
    BY DEF LooseInvoice
  <1>5. \A a \in Nat, s \in InvoiceStatuses :
           [t EXCEPT !.amount = a, !.status = s] \in LooseInvoice
    BY DEF LooseInvoice
  <1> QED BY <1>1, <1>2, <1>3, <1>4, <1>5

\* ... and of a fee.
LEMMA FeeUpdates ==
    ASSUME NEW t \in LooseFee
    PROVE  /\ \A s \in FeeStatuses : [t EXCEPT !.status = s] \in LooseFee
           /\ \A a \in Nat : [t EXCEPT !.final = a] \in LooseFee
           /\ \A a \in Nat : [t EXCEPT !.waived = @ + a] \in LooseFee
  <1>1. \A s \in FeeStatuses : [t EXCEPT !.status = s] \in LooseFee
    BY DEF LooseFee
  <1>2. \A a \in Nat : [t EXCEPT !.final = a] \in LooseFee
    BY DEF LooseFee
  <1>3. \A a \in Nat : [t EXCEPT !.waived = @ + a] \in LooseFee
    BY DEF LooseFee
  <1> QED BY <1>1, <1>2, <1>3

\* The steps that touch invoices and fees only.
LEMMA InvoiceTyped ==
    ASSUME RowsTyped, FeesTyped,
           \/ \E i \in Invoices : InvoiceStep(i)
           \/ OverdueScan \/ OverdueWrite
           \/ \E f \in Fees : FeeStep(f)
           \/ Recalculate
    PROVE  /\ invoice' \in [Invoices -> LooseInvoice]
           /\ UNCHANGED <<payment, refund, over>>
  <1> USE DEF RowsTyped
  <1>0. {"draft", "issued", "cancelled", "overdue"} \subseteq InvoiceStatuses
    BY DEF InvoiceStatuses
  <1>1. ASSUME NEW i \in Invoices, NEW a \in Amounts, CreateInvoice(i, a)
        PROVE  invoice' \in [Invoices -> LooseInvoice] /\ UNCHANGED <<payment, refund, over>>
    <2>1. [invoice[i] EXCEPT !.amount = a, !.status = "draft"] \in LooseInvoice
      BY LedgerConstants, InvoiceUpdates
    <2>2. invoice' = [invoice EXCEPT ![i] = [@ EXCEPT !.amount = a, !.status = "draft"]]
      BY <1>1 DEF CreateInvoice
    <2> QED BY <1>1, <2>1, <2>2 DEF CreateInvoice
  <1>2. ASSUME NEW i \in Invoices, IssueInvoice(i) \/ CancelInvoice(i)
        PROVE  invoice' \in [Invoices -> LooseInvoice] /\ UNCHANGED <<payment, refund, over>>
    <2>1. \A s \in {"issued", "cancelled"} : [invoice[i] EXCEPT !.status = s] \in LooseInvoice
      BY <1>0, InvoiceUpdates
    <2> QED BY <1>2, <2>1 DEF IssueInvoice, CancelInvoice
  <1>3. ASSUME NEW i \in Invoices, NEW a \in Amounts, ApplyPenalty(i, a)
        PROVE  invoice' \in [Invoices -> LooseInvoice] /\ UNCHANGED <<payment, refund, over>>
    <2>1. [invoice[i] EXCEPT !.penalty = @ + a] \in LooseInvoice
      BY LedgerConstants, InvoiceUpdates
    <2> QED BY <1>3, <2>1 DEF ApplyPenalty
  <1>4. ASSUME OverdueScan \/ OverdueWrite
        PROVE  invoice' \in [Invoices -> LooseInvoice] /\ UNCHANGED <<payment, refund, over>>
    <2>1. \A i \in Invoices : [invoice[i] EXCEPT !.status = "overdue"] \in LooseInvoice
      BY <1>0, InvoiceUpdates
    <2> QED BY <1>4, <2>1 DEF OverdueScan, OverdueWrite
  <1>5. ASSUME NEW f \in Fees, FeeStep(f)
        PROVE  invoice' \in [Invoices -> LooseInvoice] /\ UNCHANGED <<payment, refund, over>>
    <2>1. \A i \in Invoices : [invoice[i] EXCEPT !.status = "cancelled"] \in LooseInvoice
      BY <1>0, InvoiceUpdates
    <2>2. CASE \E a \in Amounts : WaiveFee(f, a)
      BY <2>2 DEF WaiveFee
    <2>3. CASE CancelFee(f)
      BY <2>1, <2>3 DEF CancelFee
    <2>4. CASE CalculateFee(f)
      <3>1. PICK batch \in SUBSET InvoicesOf(f), first \in {"draft", "issued"} :
              \E part \in [batch -> Amounts] :
                invoice' = [i \in Invoices |->
                  IF i \in batch THEN [invoice[i] EXCEPT !.amount = part[i], !.status = first]
                                 ELSE invoice[i]]
        BY <2>4 DEF CalculateFee
      <3>2. PICK part \in [batch -> Amounts] :
              invoice' = [i \in Invoices |->
                IF i \in batch THEN [invoice[i] EXCEPT !.amount = part[i], !.status = first]
                               ELSE invoice[i]]
        BY <3>1
      <3>3. \A i \in Invoices : i \in batch =>
              [invoice[i] EXCEPT !.amount = part[i], !.status = first] \in LooseInvoice
        BY <1>0, LedgerConstants, InvoiceUpdates
      <3>4. invoice' \in [Invoices -> LooseInvoice]
        BY <3>2, <3>3
      <3> QED BY <2>4, <3>4 DEF CalculateFee
    <2>5. CASE \E a \in Amounts : RepriceForMajorChange(f, a)
      <3>1. PICK a \in Amounts : RepriceForMajorChange(f, a)
        BY <2>5
      <3> DEFINE target == a - fee[f].waived
      <3>2. target \in Nat
        BY <3>1, LedgerConstants DEF RepriceForMajorChange, FeesTyped, LooseFee
      <3>3. PICK i \in Invoices :
              invoice' = [invoice EXCEPT ![i].amount = target,
                 ![i].status = CASE invoice[i].paid >= target -> "paid"
                                 [] invoice[i].paid < target /\ invoice[i].paid > 0 -> "partial"
                                 [] OTHER -> "issued"]
        BY <3>1, Zenon DEF RepriceForMajorChange
      <3> DEFINE s == CASE invoice[i].paid >= target -> "paid"
                        [] invoice[i].paid < target /\ invoice[i].paid > 0 -> "partial"
                        [] OTHER -> "issued"
      <3>4. s \in InvoiceStatuses
        BY DEF InvoiceStatuses
      <3>5. invoice' = [invoice EXCEPT ![i] = [invoice[i] EXCEPT !.amount = target, !.status = s]]
        <4>1. invoice' = [invoice EXCEPT ![i].amount = target, ![i].status = s]
          BY <3>3
        <4> HIDE DEF target, s
        <4> QED BY <4>1
      <3> HIDE DEF target, s
      <3>7. [invoice[i] EXCEPT !.amount = target, !.status = s] \in LooseInvoice
        BY <3>2, <3>4, InvoiceUpdates
      <3>6. invoice' \in [Invoices -> LooseInvoice]
        BY <3>5, <3>7
      <3> QED BY <3>1, <3>6 DEF RepriceForMajorChange
    <2>6. CASE ConfirmMajorChange(f)
      BY <2>6 DEF ConfirmMajorChange
    <2> QED BY <1>5, <2>2, <2>3, <2>4, <2>5, <2>6 DEF FeeStep
  <1>6. ASSUME Recalculate
        PROVE  invoice' \in [Invoices -> LooseInvoice] /\ UNCHANGED <<payment, refund, over>>
    <2>1. CASE \E f \in Fees : RecalculateRead(f)
      BY <2>1 DEF RecalculateRead
    <2>2. CASE \E a \in Amounts : RecalculateWrite(a)
      <3> DEFINE drafts == recalculation.drafts
      <3>1. PICK part \in [drafts -> Amounts] :
              invoice' = [i \in Invoices |->
                IF i \in drafts THEN [invoice[i] EXCEPT !.amount = part[i]] ELSE invoice[i]]
        BY <2>2 DEF RecalculateWrite
      <3>2. \A i \in Invoices : i \in drafts =>
              [invoice[i] EXCEPT !.amount = part[i]] \in LooseInvoice
        BY LedgerConstants, InvoiceUpdates
      <3>3. invoice' \in [Invoices -> LooseInvoice]
        BY <3>1, <3>2
      <3> QED BY <2>2, <3>3 DEF RecalculateWrite
    <2>3. CASE RecalculateFails
      BY <2>3 DEF RecalculateFails
    <2> QED BY <1>6, <2>1, <2>2, <2>3 DEF Recalculate
  <1> QED BY <1>1, <1>2, <1>3, <1>4, <1>5, <1>6 DEF InvoiceStep

\* A verified payment, a refund and a transferred credit leave the rows typed.
LEMMA PaymentTyped ==
    ASSUME RowsTyped, NEW p \in Payments, PaymentStep(p)
    PROVE  RowsTyped'
  <1> USE DEF RowsTyped
  <1>1. ASSUME NEW i \in Invoices, NEW a \in Amounts, NEW u \in Users,
               RecordManualPayment(p, i, a, u)
        PROVE  RowsTyped'
    <2>1. [invoice |-> i, amount |-> a, maker |-> u, status |-> "pending"] \in PaymentRow
      BY LedgerConstants DEF PaymentRow
    <2> QED BY <1>1, <2>1 DEF RecordManualPayment
  <1>2. \A s \in {"verified", "rejected"} : [payment[p] EXCEPT !.status = s] \in PaymentRow
    BY DEF PaymentRow
  <1>3. ASSUME NEW u \in Users, RejectPayment(p, u) PROVE RowsTyped'
    <2>1. [payment[p] EXCEPT !.status = "rejected"].invoice = payment[p].invoice
      BY DEF PaymentRow
    <2> QED BY <1>2, <1>3, <2>1 DEF RejectPayment
  <1>4. ASSUME NEW u \in Users, VerifyPayment(p, u) PROVE RowsTyped'
    <2> DEFINE i == payment[p].invoice
               a == payment[p].amount
               x == Excess(invoice[i], a)
    <2>1. i \in Invoices /\ a \in Int
      BY <1>4 DEF VerifyPayment, PaymentRow
    <2>2. PayInvoice(invoice[i], a) \in LooseInvoice /\ x \in Int
      BY <2>1, PayInvoiceYields, ExcessYields
    <2>3. x > 0 => [over[p] EXCEPT !.amount = x, !.status = "pending"] \in OverRow
      <3>1. x > 0 => x \in Nat
        BY <2>2
      <3> QED BY <3>1, OverUpdates
    <2>4. /\ payment' = [payment EXCEPT ![p] = [@ EXCEPT !.status = "verified"]]
          /\ invoice' = [invoice EXCEPT ![i] = PayInvoice(@, a)]
          /\ over' = IF x > 0
                     THEN [over EXCEPT ![p] = [@ EXCEPT !.amount = x, !.status = "pending"]]
                     ELSE over
          /\ refund' = refund
      BY <1>4 DEF VerifyPayment
    <2> HIDE DEF x
    <2>5. invoice' \in [Invoices -> LooseInvoice] /\ over' \in [Payments -> OverRow]
      BY <2>1, <2>2, <2>3, <2>4
    <2>6. [payment[p] EXCEPT !.status = "verified"].invoice = i
      BY DEF PaymentRow
    <2>7. /\ payment' \in [Payments -> PaymentRow]
          /\ \A q \in Payments : payment'[q].status # "absent" => payment'[q].invoice \in Invoices
      BY <1>2, <2>1, <2>4, <2>6
    <2> QED BY <2>4, <2>5, <2>7
  <1> QED BY <1>1, <1>3, <1>4 DEF PaymentStep

\* A refund that request_refund files is a refund row.
LEMMA FileRefundTyped ==
    ASSUME RowsTyped, NEW r \in Refunds, NEW p \in Payments, NEW a \in Nat, NEW u \in Users,
           NEW source \in {"manual", "overpayment"}, FileRefund(r, p, a, u, source)
    PROVE  refund' \in [Refunds -> RefundRow]
  <1>1. [payment |-> p, amount |-> a, requester |-> u, source |-> source,
         status |-> "pending"] \in RefundRow
    BY DEF RefundRow
  <1> QED BY <1>1 DEF FileRefund, RowsTyped

\* Filing, approving, rejecting and paying a refund leave the rows typed.
LEMMA RefundTyped ==
    ASSUME RowsTyped, NEW r \in Refunds, RefundStep(r)
    PROVE  RowsTyped'
  <1> USE DEF RowsTyped
  <1>1. ASSUME NEW p \in Payments, NEW a \in Amounts, NEW u \in Users, RequestRefund(r, p, a, u)
        PROVE  RowsTyped'
    <2>1. refund' \in [Refunds -> RefundRow]
      BY <1>1, LedgerConstants, FileRefundTyped DEF RequestRefund
    <2> QED BY <1>1, <2>1 DEF RequestRefund
  <1>2. \A s \in {"approved", "refunded", "rejected"} : [refund[r] EXCEPT !.status = s] \in RefundRow
    BY RefundUpdates
  <1>3. ASSUME NEW u \in Users, ApproveRefund(r, u) PROVE RowsTyped'
    BY <1>2, <1>3 DEF ApproveRefund
  <1>4. ASSUME RejectRefund(r) PROVE RowsTyped'
    BY <1>2, <1>4 DEF RejectRefund
  <1>5. ASSUME ProcessRefund(r) PROVE RowsTyped'
    <2> DEFINE p == refund[r].payment
               a == refund[r].amount
               i == payment[p].invoice
    <2>1. a \in Int
      BY DEF RefundRow
    <2>2. \A j \in Invoices :
             /\ ReverseInvoice(invoice[j], a) \in LooseInvoice
             /\ [ReverseInvoice(invoice[j], a) EXCEPT !.status = "cancelled"] \in LooseInvoice
      BY <2>1, ReverseInvoiceYields, InvoiceUpdates DEF InvoiceStatuses
    <2>3. invoice' \in [Invoices -> LooseInvoice]
      BY <1>5, <2>2 DEF ProcessRefund
    <2>4. \A q \in Payments : [over[q] EXCEPT !.status = "refunded"] \in OverRow
      BY OverUpdates
    <2>5. over' \in [Payments -> OverRow]
      BY <1>5, <2>4 DEF ProcessRefund
    <2> QED BY <1>2, <1>5, <2>3, <2>5 DEF ProcessRefund
  <1> QED BY <1>1, <1>3, <1>4, <1>5 DEF RefundStep

\* So do the three ways to resolve an overpayment.
LEMMA OverpaymentTyped ==
    ASSUME RowsTyped, NEW p \in Payments, OverpaymentStep(p)
    PROVE  RowsTyped'
  <1> USE DEF RowsTyped
  <1>1. ASSUME NEW r \in Refunds, NEW u \in Users, RefundOverpayment(p, r, u)
        PROVE  RowsTyped'
    <2>1. over[p].amount \in Nat
      BY DEF OverRow
    <2>2. refund' \in [Refunds -> RefundRow]
      BY <1>1, <2>1, FileRefundTyped DEF RefundOverpayment
    <2>3. [over[p] EXCEPT !.refund = r] \in OverRow
      BY OverUpdates
    <2> QED BY <1>1, <2>2, <2>3 DEF RefundOverpayment
  <1>2. ASSUME NEW target \in Invoices, ApplyOverpayment(p, target)
        PROVE  RowsTyped'
    <2> DEFINE a == over[p].amount
               source == payment[p].invoice
               taken == [invoice EXCEPT ![source] = CreditLeavesInvoice(@, a)]
    <2>1. a \in Int
      BY DEF OverRow
    <2>2. taken \in [Invoices -> LooseInvoice]
      <3>1. \A j \in Invoices : CreditLeavesInvoice(invoice[j], a) \in LooseInvoice
        BY <2>1, CreditLeavesInvoiceYields
      <3> QED BY <3>1
    <2>3. PayInvoice(taken[target], a) \in LooseInvoice
      BY <2>1, <2>2, PayInvoiceYields
    <2>4. invoice' = [taken EXCEPT ![target] = PayInvoice(@, a)]
      BY <1>2 DEF ApplyOverpayment
    <2> HIDE DEF taken
    <2>5. invoice' \in [Invoices -> LooseInvoice]
      BY <2>2, <2>3, <2>4
    <2>6. [over[p] EXCEPT !.status = "applied", !.target = target] \in OverRow
      BY OverUpdates
    <2> QED BY <1>2, <2>5, <2>6 DEF ApplyOverpayment
  <1>3. ASSUME WriteOff(p) PROVE RowsTyped'
    <2>1. [over[p] EXCEPT !.status = "cancelled"] \in OverRow
      BY OverUpdates
    <2> QED BY <1>3, <2>1 DEF WriteOff
  <1> QED BY <1>1, <1>2, <1>3 DEF OverpaymentStep

\* Whatever a step does to a fee, it leaves one.
LEMMA FeeTyped ==
    ASSUME RowsTyped, FeesTyped, [Next]_vars
    PROVE  FeesTyped'
  <1> USE DEF FeesTyped
  <1>1. \A f \in Fees, a \in Int :
           /\ {PayFee(fee[f], a), ReverseFee(fee[f], a), CreditLeavesFee(fee[f], a),
               CreditReachesFee(fee[f], a)} \subseteq LooseFee
           /\ [ReverseFee(fee[f], a) EXCEPT !.status = "cancelled"] \in LooseFee
    <2> SUFFICES ASSUME NEW f \in Fees, NEW a \in Int PROVE <1>1!(f, a)
      OBVIOUS
    <2>1. {PayFee(fee[f], a), ReverseFee(fee[f], a), CreditLeavesFee(fee[f], a),
           CreditReachesFee(fee[f], a)} \subseteq LooseFee
      BY PayFeeYields, ReverseFeeYields, CreditLeavesFeeYields, CreditReachesFeeYields
    <2> QED BY <2>1, FeeUpdates DEF FeeStatuses
  <1>2. \A f \in Fees, active \in BOOLEAN : RecomputedFee(fee[f], active) \in LooseFee
    BY RecomputedFeeYields
  <1>3. \A f \in Fees, s \in {"invoiced", "cancelled"} : [fee[f] EXCEPT !.status = s] \in LooseFee
    BY FeeUpdates DEF FeeStatuses
  <1>4. ASSUME NEW i \in Invoices, InvoiceStep(i) PROVE FeesTyped'
    <2>1. CASE \E a \in Amounts : CreateInvoice(i, a)
      <3>1. fee' = [fee EXCEPT ![FeeOf[i]] = RecomputedFee(@, TRUE)]
        BY <2>1 DEF CreateInvoice
      <3> QED BY <1>2, <3>1
    <2>2. CASE CancelInvoice(i)
      BY <1>2, <2>2 DEF CancelInvoice
    <2>3. CASE IssueInvoice(i) \/ \E a \in Amounts : ApplyPenalty(i, a)
      BY <2>3 DEF IssueInvoice, ApplyPenalty
    <2> QED BY <1>4, <2>1, <2>2, <2>3 DEF InvoiceStep
  <1>5. ASSUME NEW p \in Payments, PaymentStep(p) PROVE FeesTyped'
    <2>1. CASE \E u \in Users : VerifyPayment(p, u)
      <3>1. payment[p].amount \in Int
        BY DEF RowsTyped, PaymentRow
      <3>2. fee' = [fee EXCEPT ![FeeOf[payment[p].invoice]] = PayFee(@, payment[p].amount)]
        BY <2>1 DEF VerifyPayment
      <3> QED BY <1>1, <3>1, <3>2
    <2>2. CASE \/ \E i \in Invoices, a \in Amounts, u \in Users : RecordManualPayment(p, i, a, u)
               \/ \E u \in Users : RejectPayment(p, u)
      BY <2>2 DEF RecordManualPayment, RejectPayment
    <2> QED BY <1>5, <2>1, <2>2 DEF PaymentStep
  <1>6. ASSUME NEW r \in Refunds, RefundStep(r) PROVE FeesTyped'
    <2>1. CASE ProcessRefund(r)
      <3> DEFINE a == refund[r].amount
                 f == FeeOf[payment[refund[r].payment].invoice]
      <3>1. a \in Int
        BY DEF RowsTyped, RefundRow
      <3>2. \/ fee' = [fee EXCEPT ![f] = [ReverseFee(@, a) EXCEPT !.status = "cancelled"]]
            \/ fee' = [fee EXCEPT ![f] = ReverseFee(@, a)]
        BY <2>1 DEF ProcessRefund
      <3> HIDE DEF a, f
      <3>3. CASE f \in Fees
        <4>1. /\ ReverseFee(fee[f], a) \in LooseFee
              /\ [ReverseFee(fee[f], a) EXCEPT !.status = "cancelled"] \in LooseFee
          BY <1>1, <3>1, <3>3
        <4> DEFINE x == ReverseFee(fee[f], a)
                   y == [ReverseFee(fee[f], a) EXCEPT !.status = "cancelled"]
        <4>2. fee' = [fee EXCEPT ![f] = y] \/ fee' = [fee EXCEPT ![f] = x]
          BY <3>2
        <4> HIDE DEF x, y
        <4> QED BY <4>1, <4>2 DEF x, y
      <3>4. CASE f \notin Fees
        BY <3>2, <3>4
      <3> QED BY <3>3, <3>4
    <2>2. CASE \/ \E p \in Payments, a \in Amounts, u \in Users : RequestRefund(r, p, a, u)
               \/ \E u \in Users : ApproveRefund(r, u)
               \/ RejectRefund(r)
      BY <2>2 DEF RequestRefund, ApproveRefund, RejectRefund
    <2> QED BY <1>6, <2>1, <2>2 DEF RefundStep
  <1>7. ASSUME NEW p \in Payments, OverpaymentStep(p) PROVE FeesTyped'
    <2>1. ASSUME NEW target \in Invoices, ApplyOverpayment(p, target) PROVE FeesTyped'
      <3> DEFINE a == over[p].amount
                 from == FeeOf[payment[p].invoice]
                 to == FeeOf[target]
      <3>1. a \in Int /\ 0 \in Int
        BY DEF RowsTyped, OverRow
      <3>2. fee' = IF from = to
                  THEN [fee EXCEPT ![to] = CreditReachesFee(@, 0)]
                  ELSE [fee EXCEPT ![from] = CreditLeavesFee(@, a),
                                   ![to] = CreditReachesFee(@, a)]
        BY <2>1 DEF ApplyOverpayment
      <3> HIDE DEF a, from, to
      <3>3. CASE from = to
        BY <1>1, <3>1, <3>2, <3>3
      <3>4. CASE from # to
        BY <1>1, <3>1, <3>2, <3>4
      <3> QED BY <3>3, <3>4
    <2>2. CASE WriteOff(p) \/ \E r \in Refunds, u \in Users : RefundOverpayment(p, r, u)
      BY <2>2 DEF WriteOff, RefundOverpayment
    <2> QED BY <1>7, <2>1, <2>2 DEF OverpaymentStep
  <1>8. ASSUME NEW f \in Fees, FeeStep(f) PROVE FeesTyped'
    <2>1. CASE CalculateFee(f) \/ CancelFee(f)
      BY <1>3, <2>1 DEF CalculateFee, CancelFee
    <2>2. ASSUME NEW a \in Amounts, WaiveFee(f, a) PROVE FeesTyped'
      <3> DEFINE after == [fee[f] EXCEPT !.waived = @ + a]
      <3>1. after \in LooseFee
        BY LedgerConstants, FeeUpdates
      <3>2. fee' = [fee EXCEPT ![f] =
                     IF FeeRemaining(after) <= 0 THEN [after EXCEPT !.status = "paid"] ELSE after]
        BY <2>2 DEF WaiveFee
      <3> HIDE DEF after
      <3>3. [after EXCEPT !.status = "paid"] \in LooseFee
        BY <3>1, FeeUpdates DEF FeeStatuses
      <3> QED BY <3>1, <3>2, <3>3
    <2>3. ASSUME NEW a \in Amounts, RepriceForMajorChange(f, a) PROVE FeesTyped'
      <3>1. [fee[f] EXCEPT !.final = a] \in LooseFee
        BY LedgerConstants, FeeUpdates
      <3>2. RecomputedFee([fee[f] EXCEPT !.final = a], TRUE) \in LooseFee
        BY <3>1, RecomputedFeeYields
      <3>3. fee' = [fee EXCEPT ![f] = RecomputedFee([@ EXCEPT !.final = a], TRUE)]
        BY <2>3 DEF RepriceForMajorChange
      <3> QED BY <3>2, <3>3
    <2>4. CASE ConfirmMajorChange(f)
      BY <1>2, <2>4 DEF ConfirmMajorChange
    <2> QED BY <1>8, <2>1, <2>2, <2>3, <2>4 DEF FeeStep
  <1>9. ASSUME Recalculate PROVE FeesTyped'
    <2>1. ASSUME NEW a \in Amounts, RecalculateWrite(a) PROVE FeesTyped'
      <3>1. \A f \in Fees : [fee[f] EXCEPT !.final = a] \in LooseFee
        BY LedgerConstants, FeeUpdates
      <3>2. fee' = [fee EXCEPT ![recalculation.fee] = [@ EXCEPT !.final = a]]
        BY <2>1 DEF RecalculateWrite
      <3> QED BY <3>1, <3>2
    <2>2. CASE RecalculateFails \/ \E f \in Fees : RecalculateRead(f)
      BY <2>2 DEF RecalculateFails, RecalculateRead
    <2> QED BY <1>9, <2>1, <2>2 DEF Recalculate
  <1>10. CASE OverdueScan \/ OverdueWrite \/ UNCHANGED vars
    BY <1>10 DEF OverdueScan, OverdueWrite, vars
  <1> QED BY <1>4, <1>5, <1>6, <1>7, <1>8, <1>9, <1>10 DEF Next

\* Every step leaves the rows typed.
LEMMA StepTyped == RowsTyped /\ FeesTyped /\ [Next]_vars => RowsTyped'
  <1> SUFFICES ASSUME RowsTyped, FeesTyped, [Next]_vars PROVE RowsTyped'
    OBVIOUS
  <1>1. CASE \/ \E i \in Invoices : InvoiceStep(i)
             \/ OverdueScan \/ OverdueWrite
             \/ \E f \in Fees : FeeStep(f)
             \/ Recalculate
    BY <1>1, InvoiceTyped DEF RowsTyped
  <1>2. CASE UNCHANGED vars
    BY <1>2 DEF vars, RowsTyped
  <1> QED
    BY <1>1, <1>2, PaymentTyped, RefundTyped, OverpaymentTyped DEF Next

-----------------------------------------------------------------------------
Books == Linked /\ NoRecordBeforeVerification /\ OverpaymentSettledOnce

\* What DecisionsAreFinal says of one step.
Final ==
    /\ \A p \in Payments :
         /\ payment[p].status \in {"verified", "rejected"} => payment'[p] = payment[p]
         /\ over[p].status \notin {"absent", "pending"} => over'[p] = over[p]
    /\ \A r \in Refunds :
         refund[r].status \in {"refunded", "rejected"} => refund'[r] = refund[r]

\* Only a verification opens a record, and by then the payment had none.
LEMMA PaymentLinks ==
    ASSUME Inv, NEW p \in Payments, PaymentStep(p)
    PROVE  Books' /\ Final
  <1> USE LedgerConstants DEF Inv, RowsTyped, PaymentRow, OverRow
  <1>1. /\ refund' = refund
        /\ \A q \in Payments : /\ q # p => payment'[q] = payment[q] /\ over'[q] = over[q]
                               /\ over'[q].refund = over[q].refund
        /\ payment[p].status \in {"absent", "pending"}
        /\ \/ over'[p] = over[p]
           \/ payment[p].status = "pending" /\ payment'[p].status = "verified"
                /\ over'[p].status = "pending"
    <2>1. ASSUME NEW i \in Invoices, NEW b \in Amounts, NEW u \in Users,
                 RecordManualPayment(p, i, b, u)
          PROVE  <1>1!1 /\ <1>1!2 /\ <1>1!3 /\ <1>1!4
      BY <2>1 DEF RecordManualPayment
    <2>2. ASSUME NEW u \in Users, RejectPayment(p, u)
          PROVE  <1>1!1 /\ <1>1!2 /\ <1>1!3 /\ <1>1!4
      BY <2>2 DEF RejectPayment
    <2>3. ASSUME NEW u \in Users, VerifyPayment(p, u)
          PROVE  <1>1!1 /\ <1>1!2 /\ <1>1!3 /\ <1>1!4
      BY <2>3 DEF VerifyPayment
    <2> QED BY <2>1, <2>2, <2>3 DEF PaymentStep
  <1>2. over[p].status = "absent" /\ over[p].refund = Nil
    BY <1>1 DEF NoRecordBeforeVerification
  <1>3. Linked'
    BY <1>1 DEF Linked
  <1>4. NoRecordBeforeVerification'
    BY <1>1, <1>2 DEF NoRecordBeforeVerification
  <1>5. OverpaymentSettledOnce'
    BY <1>1, <1>2 DEF OverpaymentSettledOnce
  <1>6. Final
    BY <1>1, <1>2 DEF Final
  <1> QED BY <1>3, <1>4, <1>5, <1>6 DEF Books

\* A refund that is filed was linked to no record before.
LEMMA FileRefundLinks ==
    ASSUME Inv, NEW r \in Refunds, NEW p \in Payments, NEW a \in Nat, NEW u \in Users,
           NEW source \in {"manual", "overpayment"}, FileRefund(r, p, a, u, source)
    PROVE  /\ \A q \in Payments : over[q].refund # r
           /\ refund[r].status = "absent" /\ payment[p].status = "verified"
           /\ refund'[r].payment = p /\ refund'[r].status = "pending"
           /\ \A q \in Refunds : q # r => refund'[q] = refund[q]
  BY DEF Inv, RowsTyped, Linked, FileRefund

\* A refund moves forward; the record it is linked to is closed with it.
LEMMA RefundLinks ==
    ASSUME Inv, NEW r \in Refunds, RefundStep(r)
    PROVE  Books' /\ Final
  <1> USE LedgerConstants DEF Inv, RowsTyped
  <1>1. ASSUME NEW p \in Payments, NEW a \in Amounts, NEW u \in Users, RequestRefund(r, p, a, u)
        PROVE  Books' /\ Final
    <2>1. /\ \A q \in Payments : over[q].refund # r
          /\ refund[r].status = "absent"
          /\ refund'[r].payment = p /\ refund'[r].status = "pending"
          /\ \A q \in Refunds : q # r => refund'[q] = refund[q]
      BY <1>1, FileRefundLinks DEF RequestRefund
    <2>2. payment' = payment /\ over' = over
      BY <1>1 DEF RequestRefund
    <2> QED BY <2>1, <2>2 DEF Books, Linked, NoRecordBeforeVerification,
                              OverpaymentSettledOnce, Final
  <1>2. ASSUME NEW s \in {"approved", "rejected"},
               refund[r].status \in {"pending", "approved"},
               refund' = [refund EXCEPT ![r].status = s],
               payment' = payment, over' = over
        PROVE  Books' /\ Final
    <2>1. /\ refund'[r].status = s /\ refund'[r].payment = refund[r].payment
          /\ \A q \in Refunds : q # r => refund'[q] = refund[q]
      BY <1>2 DEF RefundRow
    <2>2. Linked' /\ NoRecordBeforeVerification'
      BY <1>2, <2>1 DEF Linked, NoRecordBeforeVerification
    <2>3. OverpaymentSettledOnce'
      BY <1>2, <2>1 DEF OverpaymentSettledOnce
    <2>4. Final
      BY <1>2, <2>1 DEF Final
    <2> QED BY <2>2, <2>3, <2>4 DEF Books
  <1>3. ASSUME NEW u \in Users, ApproveRefund(r, u) PROVE Books' /\ Final
    BY <1>2, <1>3 DEF ApproveRefund
  <1>4. ASSUME RejectRefund(r) PROVE Books' /\ Final
    BY <1>2, <1>4 DEF RejectRefund
  <1>5. ASSUME ProcessRefund(r) PROVE Books' /\ Final
    <2> DEFINE p == refund[r].payment
    <2>1. /\ refund[r].status = "approved" /\ payment' = payment
          /\ refund'[r].status = "refunded" /\ refund'[r].payment = p
          /\ \A q \in Refunds : q # r => refund'[q] = refund[q]
      <3>1. /\ refund[r].status = "approved" /\ payment' = payment
            /\ refund' = [refund EXCEPT ![r].status = "refunded"]
        BY <1>5, ZenonT(20) DEF ProcessRefund
      <3> QED BY <3>1 DEF RefundRow
    <2>2. \A q \in Payments : over[q].refund = r => q = p /\ over[q].status = "pending"
      BY <2>1 DEF Linked, NoRecordBeforeVerification, OverpaymentSettledOnce, OverRow
    <2>3. \A q \in Payments :
             /\ over'[q].refund = over[q].refund
             /\ over[q].refund = r => over'[q].status = "refunded"
             /\ over[q].refund # r => over'[q] = over[q]
      <3>1. over' = IF over[p].refund = r /\ over[p].status = "pending"
                    THEN [over EXCEPT ![p].status = "refunded"] ELSE over
        BY <1>5, ZenonT(20) DEF ProcessRefund
      <3>2. ASSUME NEW q \in Payments, over[q].refund = r
            PROVE  /\ over'[q].refund = r /\ over'[q].status = "refunded"
                   /\ \A o \in Payments : over[o].refund # r => over'[o] = over[o]
        <4>1. q = p /\ over[q].status = "pending"
          BY <3>2, <2>2
        <4>2. over' = [over EXCEPT ![q].status = "refunded"]
          BY <3>1, <3>2, <4>1
        <4> QED BY <4>2, <3>2 DEF OverRow
      <3>3. ASSUME \A q \in Payments : over[q].refund # r
            PROVE  \A q \in Payments : over'[q] = over[q]
        <4>1. CASE p \in Payments
          BY <3>1, <3>3, <4>1
        <4>2. CASE p \notin Payments
          <5>1. over' = over \/ over' = [over EXCEPT ![p].status = "refunded"]
            BY <3>1
          <5> QED BY <5>1, <4>2
        <4> QED BY <4>1, <4>2
      <3>4. CASE \E q \in Payments : over[q].refund = r
        BY <3>2, <3>4
      <3> QED BY <3>3, <3>4
    <2>4. Linked'
      BY <2>1, <2>3 DEF Linked
    <2>5. NoRecordBeforeVerification'
      BY <2>1, <2>2, <2>3 DEF NoRecordBeforeVerification
    <2>6. OverpaymentSettledOnce'
      BY <2>1, <2>2, <2>3 DEF OverpaymentSettledOnce
    <2>7. Final
      BY <2>1, <2>2, <2>3 DEF Final
    <2> QED BY <2>4, <2>5, <2>6, <2>7 DEF Books
  <1> QED BY <1>1, <1>3, <1>4, <1>5 DEF RefundStep

\* A record is resolved while its linked refund, if any, was refused; a new link
\* is made to a refund nobody was linked to.
LEMMA OverpaymentLinks ==
    ASSUME Inv, NEW p \in Payments, OverpaymentStep(p)
    PROVE  Books' /\ Final
  <1> USE LedgerConstants DEF Inv, RowsTyped
  <1>1. ASSUME NEW r \in Refunds, NEW u \in Users, RefundOverpayment(p, r, u)
        PROVE  Books' /\ Final
    <2>1. over[p].amount \in Nat
      BY DEF OverRow
    <2>2. /\ \A q \in Payments : over[q].refund # r
          /\ refund[r].status = "absent" /\ payment[p].status = "verified"
          /\ refund'[r].payment = p /\ refund'[r].status = "pending"
          /\ \A q \in Refunds : q # r => refund'[q] = refund[q]
      BY <1>1, <2>1, FileRefundLinks DEF RefundOverpayment
    <2>3. /\ payment' = payment
          /\ over[p].status = "pending" /\ over'[p].status = "pending" /\ over'[p].refund = r
          /\ \A q \in Payments : q # p => over'[q] = over[q]
      BY <1>1 DEF RefundOverpayment, Resolvable, OverRow
    <2>4. Linked' /\ NoRecordBeforeVerification'
      BY <2>2, <2>3 DEF Linked, NoRecordBeforeVerification
    <2>5. OverpaymentSettledOnce'
      BY <2>2, <2>3 DEF OverpaymentSettledOnce
    <2>6. Final
      BY <2>2, <2>3 DEF Final
    <2> QED BY <2>4, <2>5, <2>6 DEF Books
  <1>2. ASSUME Resolvable(p), payment' = payment, refund' = refund,
               over'[p].status \in {"applied", "cancelled"}, over'[p].refund = over[p].refund,
               \A q \in Payments : q # p => over'[q] = over[q]
        PROVE  Books' /\ Final
    <2>1. over[p].status = "pending"
      BY <1>2 DEF Resolvable
    <2>2. \A r \in Refunds : over[p].refund = r => refund[r].status = "rejected"
      BY <1>2, <2>1 DEF Resolvable, Linked, OverpaymentSettledOnce, RefundRow
    <2>3. Linked' /\ NoRecordBeforeVerification'
      BY <1>2, <2>1 DEF Linked, NoRecordBeforeVerification
    <2>4. OverpaymentSettledOnce'
      BY <1>2, <2>2 DEF OverpaymentSettledOnce
    <2>5. Final
      BY <1>2, <2>1 DEF Final
    <2> QED BY <2>3, <2>4, <2>5 DEF Books
  <1>3. ASSUME NEW target \in Invoices, ApplyOverpayment(p, target)
        PROVE  Books' /\ Final
    <2>1. /\ Resolvable(p) /\ payment' = payment /\ refund' = refund
          /\ over' = [over EXCEPT ![p].status = "applied", ![p].target = target]
      BY <1>3 DEF ApplyOverpayment
    <2> QED BY <1>2, <2>1 DEF OverRow
  <1>4. ASSUME WriteOff(p) PROVE Books' /\ Final
    BY <1>2, <1>4 DEF WriteOff, OverRow
  <1> QED BY <1>1, <1>3, <1>4 DEF OverpaymentStep

\* Every step keeps the links, and revises no decision.
LEMMA StepLinks == Inv /\ [Next]_vars => Books' /\ Final
  <1> SUFFICES ASSUME Inv, [Next]_vars PROVE Books' /\ Final
    OBVIOUS
  <1>1. ASSUME UNCHANGED <<payment, refund, over>> PROVE Books' /\ Final
    BY <1>1 DEF Inv, Books, Linked, NoRecordBeforeVerification, OverpaymentSettledOnce, Final
  <1>2. CASE \/ \E i \in Invoices : InvoiceStep(i)
             \/ OverdueScan \/ OverdueWrite
             \/ \E f \in Fees : FeeStep(f)
             \/ Recalculate
    BY <1>1, <1>2, InvoiceTyped DEF Inv
  <1>3. CASE UNCHANGED vars
    BY <1>1, <1>3 DEF vars
  <1> QED
    BY <1>2, <1>3, PaymentLinks, RefundLinks, OverpaymentLinks DEF Next

\* The invariant holds in every reachable state.
THEOREM Invariance == Spec => []Inv
  <1>1. Inv /\ [Next]_vars => Inv'
    BY StepTyped, FeeTyped, StepLinks DEF Inv, Books
  <1> QED
    BY InitInv, <1>1, PTL DEF Spec

\* However staff interleave refunds, credits and write-offs, an overpayment is
\* settled once: an applied or written-off record has no refund that could still be
\* paid, and a record marked refunded was paid back.
THEOREM SettledOnce == Spec => []OverpaymentSettledOnce
  <1>1. Inv => OverpaymentSettledOnce
    BY DEF Inv
  <1> QED
    BY Invariance, <1>1, PTL

\* No operation revises a payment that was verified or rejected, a refund that was
\* paid or refused, a resolved overpayment.
THEOREM DecisionsFinal == Spec => DecisionsAreFinal
  <1>1. Inv /\ [Next]_vars => Final
    BY StepLinks
  <1>2. Inv /\ [Next]_vars => [Final]_vars
    BY <1>1
  <1> QED
    BY Invariance, <1>2, PTL DEF Spec, DecisionsAreFinal, Final

-----------------------------------------------------------------------------
(* The books: steps that move no money *)

\* What a step that moves no money does to paid amounts, and that it cancels only
\* what holds none.
Quiet ==
    /\ UNCHANGED <<payment, refund, over>>
    /\ \A i \in Invoices :
         /\ invoice'[i].paid = invoice[i].paid
         /\ invoice'[i].status = "cancelled" =>
              \/ invoice[i].status = "cancelled" \/ invoice[i].paid = 0
              \/ /\ fee'[FeeOf[i]].status = "cancelled" /\ fee[FeeOf[i]].paid = 0
    /\ \A f \in Fees :
         /\ fee'[f].paid = fee[f].paid
         /\ fee'[f].status = "cancelled" =>
              \/ fee[f].status = "cancelled"
              \/ fee[f].paid = 0 /\ PendingPayments(f) = {}

\* Writing other columns leaves the paid amount of an invoice alone ...
LEMMA InvoicePaidKept ==
    ASSUME NEW t \in LooseInvoice
    PROVE  /\ \A s : [t EXCEPT !.status = s].paid = t.paid /\ [t EXCEPT !.status = s].status = s
           /\ \A a, s : /\ [t EXCEPT !.amount = a, !.status = s].paid = t.paid
                        /\ [t EXCEPT !.amount = a, !.status = s].status = s
           /\ \A a : /\ [t EXCEPT !.penalty = @ + a].paid = t.paid
                     /\ [t EXCEPT !.penalty = @ + a].status = t.status
           /\ \A a : /\ [t EXCEPT !.amount = a].paid = t.paid
                     /\ [t EXCEPT !.amount = a].status = t.status
  <1>1. \A s : [t EXCEPT !.status = s].paid = t.paid /\ [t EXCEPT !.status = s].status = s
    BY DEF LooseInvoice
  <1>2. \A a, s : /\ [t EXCEPT !.amount = a, !.status = s].paid = t.paid
                  /\ [t EXCEPT !.amount = a, !.status = s].status = s
    BY DEF LooseInvoice
  <1>3. \A a : /\ [t EXCEPT !.penalty = @ + a].paid = t.paid
               /\ [t EXCEPT !.penalty = @ + a].status = t.status
    BY DEF LooseInvoice
  <1>4. \A a : /\ [t EXCEPT !.amount = a].paid = t.paid
               /\ [t EXCEPT !.amount = a].status = t.status
    BY DEF LooseInvoice
  <1> QED BY <1>1, <1>2, <1>3, <1>4

\* ... and of a fee.
LEMMA FeePaidKept ==
    ASSUME NEW t \in LooseFee
    PROVE  /\ \A s : [t EXCEPT !.status = s].paid = t.paid /\ [t EXCEPT !.status = s].status = s
           /\ \A a : /\ [t EXCEPT !.final = a].paid = t.paid
                     /\ [t EXCEPT !.final = a].status = t.status
           /\ \A a : /\ [t EXCEPT !.waived = @ + a].paid = t.paid
                     /\ [t EXCEPT !.waived = @ + a].status = t.status
  <1>1. \A s : [t EXCEPT !.status = s].paid = t.paid /\ [t EXCEPT !.status = s].status = s
    BY DEF LooseFee
  <1>2. \A a : /\ [t EXCEPT !.final = a].paid = t.paid
               /\ [t EXCEPT !.final = a].status = t.status
    BY DEF LooseFee
  <1>3. \A a : /\ [t EXCEPT !.waived = @ + a].paid = t.paid
               /\ [t EXCEPT !.waived = @ + a].status = t.status
    BY DEF LooseFee
  <1> QED BY <1>1, <1>2, <1>3

\* recompute_fee_from_invoices revives no fee and cancels none.
LEMMA RecomputedKept ==
    ASSUME NEW t \in LooseFee, NEW active \in BOOLEAN
    PROVE  /\ RecomputedFee(t, active).paid = t.paid
           /\ RecomputedFee(t, active).status = "cancelled" <=> t.status = "cancelled"
  <1>1. CASE t.status = "cancelled"
    BY <1>1 DEF RecomputedFee
  <1>2. CASE t.status # "cancelled"
    <2>1. RecomputedFee(t, active) = [t EXCEPT !.status = RecomputedStatus(t, active)]
      BY <1>2 DEF RecomputedFee
    <2>2. RecomputedStatus(t, active) # "cancelled"
      BY DEF RecomputedStatus
    <2> QED BY <1>2, <2>1, <2>2, FeePaidKept
  <1> QED BY <1>1, <1>2

\* The operations on invoices and fees that take or give no money are quiet.
LEMMA InvoiceQuiet ==
    ASSUME Inv, NEW i \in Invoices, InvoiceStep(i)
    PROVE  Quiet
  <1> USE LedgerConstants DEF Inv, RowsTyped, FeesTyped
  <1>0. \A f \in Fees, active \in BOOLEAN :
           /\ RecomputedFee(fee[f], active).paid = fee[f].paid
           /\ RecomputedFee(fee[f], active).status = "cancelled" <=> fee[f].status = "cancelled"
    BY RecomputedKept
  <1>1. ASSUME NEW a \in Amounts, CreateInvoice(i, a) PROVE Quiet
    <2>1. /\ UNCHANGED <<payment, refund, over>>
          /\ invoice' = [invoice EXCEPT ![i] = [@ EXCEPT !.amount = a, !.status = "draft"]]
          /\ fee' = [fee EXCEPT ![FeeOf[i]] = RecomputedFee(@, TRUE)]
      BY <1>1 DEF CreateInvoice
    <2>2. \A j \in Invoices : /\ invoice'[j].paid = invoice[j].paid
                              /\ invoice'[j].status = "cancelled" => invoice[j].status = "cancelled"
      BY <2>1, InvoicePaidKept
    <2> QED BY <2>1, <2>2, <1>0 DEF Quiet
  <1>2. CASE IssueInvoice(i)
    <2>1. /\ UNCHANGED <<payment, refund, over, fee>>
          /\ invoice' = [invoice EXCEPT ![i] = [@ EXCEPT !.status = "issued"]]
      BY <1>2 DEF IssueInvoice
    <2>2. \A j \in Invoices : /\ invoice'[j].paid = invoice[j].paid
                              /\ invoice'[j].status = "cancelled" => invoice[j].status = "cancelled"
      BY <2>1, InvoicePaidKept
    <2> QED BY <2>1, <2>2 DEF Quiet
  <1>3. CASE CancelInvoice(i)
    <2> DEFINE rest == ActiveInvoices(FeeOf[i]) # {i}
    <2>1. /\ UNCHANGED <<payment, refund, over>>
          /\ invoice[i].paid = 0
          /\ invoice' = [invoice EXCEPT ![i] = [@ EXCEPT !.status = "cancelled"]]
          /\ fee' = [fee EXCEPT ![FeeOf[i]] = RecomputedFee(@, rest)]
      BY <1>3 DEF CancelInvoice
    <2>2. \A j \in Invoices : /\ invoice'[j].paid = invoice[j].paid
                              /\ j # i => invoice'[j] = invoice[j]
      BY <2>1, InvoicePaidKept
    <2> HIDE DEF rest
    <2>3. \A f \in Fees : /\ fee'[f].paid = fee[f].paid
                          /\ fee'[f].status = "cancelled" => fee[f].status = "cancelled"
      <3>1. rest \in BOOLEAN
        BY DEF rest
      <3> QED BY <2>1, <3>1, <1>0
    <2> QED BY <2>1, <2>2, <2>3 DEF Quiet
  <1>4. ASSUME NEW a \in Amounts, ApplyPenalty(i, a) PROVE Quiet
    <2>1. /\ UNCHANGED <<payment, refund, over, fee>>
          /\ invoice' = [invoice EXCEPT ![i].penalty = @ + a]
      BY <1>4 DEF ApplyPenalty
    <2>2. \A j \in Invoices : /\ invoice'[j].paid = invoice[j].paid
                              /\ invoice'[j].status = invoice[j].status
      BY <2>1, InvoicePaidKept
    <2> QED BY <2>1, <2>2 DEF Quiet
  <1> QED BY <1>1, <1>2, <1>3, <1>4 DEF InvoiceStep

\* So is the nightly job, and the recalculation of a fee.
LEMMA JobQuiet ==
    ASSUME Inv, OverdueScan \/ OverdueWrite \/ Recalculate
    PROVE  Quiet
  <1> USE LedgerConstants DEF Inv, RowsTyped, FeesTyped
  <1>1. CASE OverdueScan \/ RecalculateFails \/ \E f \in Fees : RecalculateRead(f)
    BY <1>1 DEF OverdueScan, RecalculateFails, RecalculateRead, Quiet
  <1>2. CASE OverdueWrite
    <2>1. /\ UNCHANGED <<payment, refund, over, fee>>
          /\ invoice' = [i \in Invoices |->
                IF i \in overdueScan THEN [invoice[i] EXCEPT !.status = "overdue"]
                                     ELSE invoice[i]]
      BY <1>2 DEF OverdueWrite
    <2>2. \A j \in Invoices : /\ invoice'[j].paid = invoice[j].paid
                              /\ invoice'[j].status = "cancelled" => invoice[j].status = "cancelled"
      BY <2>1, InvoicePaidKept
    <2> QED BY <2>1, <2>2 DEF Quiet
  <1>3. ASSUME NEW a \in Amounts, RecalculateWrite(a) PROVE Quiet
    <2> DEFINE drafts == recalculation.drafts
    <2>1. PICK part \in [drafts -> Amounts] :
            invoice' = [i \in Invoices |->
              IF i \in drafts THEN [invoice[i] EXCEPT !.amount = part[i]] ELSE invoice[i]]
      BY <1>3 DEF RecalculateWrite
    <2>2. /\ UNCHANGED <<payment, refund, over>>
          /\ fee' = [fee EXCEPT ![recalculation.fee] = [@ EXCEPT !.final = a]]
      BY <1>3 DEF RecalculateWrite
    <2>3. \A j \in Invoices : /\ invoice'[j].paid = invoice[j].paid
                              /\ invoice'[j].status = invoice[j].status
      BY <2>1, InvoicePaidKept
    <2>4. \A f \in Fees : fee'[f].paid = fee[f].paid /\ fee'[f].status = fee[f].status
      BY <2>2, FeePaidKept
    <2> QED BY <2>2, <2>3, <2>4 DEF Quiet
  <1> QED BY <1>1, <1>2, <1>3 DEF Recalculate

\* The invoices calculate_fee writes.
LEMMA CalculateFeeWrites ==
    ASSUME NEW f \in Fees, CalculateFee(f)
    PROVE  \E batch \in SUBSET InvoicesOf(f), first \in {"draft", "issued"} :
             \E part \in [batch -> Amounts] :
               invoice' = [i \in Invoices |->
                 IF i \in batch THEN [invoice[i] EXCEPT !.amount = part[i], !.status = first]
                                ELSE invoice[i]]
  BY DEF CalculateFee

\* So is what happens to a fee as a whole.
LEMMA FeeQuiet ==
    ASSUME Inv, NEW f \in Fees, FeeStep(f)
    PROVE  Quiet
  <1> USE LedgerConstants DEF Inv, RowsTyped, FeesTyped
  <1>1. CASE CalculateFee(f)
    <2>1. /\ UNCHANGED <<payment, refund, over>>
          /\ fee' = [fee EXCEPT ![f] = [@ EXCEPT !.status = "invoiced"]]
      BY <1>1 DEF CalculateFee
    <2>2. PICK batch \in SUBSET InvoicesOf(f), first \in {"draft", "issued"} :
            \E part \in [batch -> Amounts] :
              invoice' = [i \in Invoices |->
                IF i \in batch THEN [invoice[i] EXCEPT !.amount = part[i], !.status = first]
                               ELSE invoice[i]]
      BY <1>1, CalculateFeeWrites
    <2>5. PICK part \in [batch -> Amounts] :
            invoice' = [i \in Invoices |->
              IF i \in batch THEN [invoice[i] EXCEPT !.amount = part[i], !.status = first]
                             ELSE invoice[i]]
      BY <2>2
    <2>3. \A j \in Invoices : /\ invoice'[j].paid = invoice[j].paid
                              /\ invoice'[j].status = "cancelled" => invoice[j].status = "cancelled"
      <3>1. ASSUME NEW j \in Invoices
            PROVE  \/ invoice'[j] = invoice[j]
                   \/ invoice'[j] = [invoice[j] EXCEPT !.amount = part[j], !.status = first]
        BY <2>5
      <3>2. \A j \in Invoices :
               LET t == [invoice[j] EXCEPT !.amount = part[j], !.status = first]
               IN  t.paid = invoice[j].paid /\ t.status = first
        BY InvoicePaidKept
      <3>3. first # "cancelled"
        OBVIOUS
      <3> QED BY <3>1, <3>2, <3>3
    <2>4. \A g \in Fees : /\ fee'[g].paid = fee[g].paid
                          /\ fee'[g].status = "cancelled" => fee[g].status = "cancelled"
      BY <2>1, FeePaidKept
    <2> QED BY <2>1, <2>3, <2>4 DEF Quiet
  <1>2. ASSUME NEW a \in Amounts, WaiveFee(f, a) PROVE Quiet
    <2> DEFINE after == [fee[f] EXCEPT !.waived = @ + a]
    <2>1. /\ UNCHANGED <<invoice, payment, refund, over>>
          /\ fee' = [fee EXCEPT ![f] =
                IF FeeRemaining(after) <= 0 THEN [after EXCEPT !.status = "paid"] ELSE after]
      BY <1>2 DEF WaiveFee
    <2>2. after \in LooseFee /\ after.paid = fee[f].paid /\ after.status = fee[f].status
      BY FeeUpdates, FeePaidKept
    <2> HIDE DEF after
    <2>3. [after EXCEPT !.status = "paid"].paid = fee[f].paid
          /\ [after EXCEPT !.status = "paid"].status = "paid"
      BY <2>2, FeePaidKept
    <2>4. \A g \in Fees : /\ fee'[g].paid = fee[g].paid
                          /\ fee'[g].status = "cancelled" => fee[g].status = "cancelled"
      BY <2>1, <2>2, <2>3
    <2> QED BY <2>1, <2>4 DEF Quiet
  <1>3. CASE CancelFee(f)
    <2>1. /\ UNCHANGED <<payment, refund, over>>
          /\ fee[f].paid = 0 /\ PendingPayments(f) = {}
          /\ fee' = [fee EXCEPT ![f] = [@ EXCEPT !.status = "cancelled"]]
          /\ invoice' = [i \in Invoices |->
               IF i \in ActiveInvoices(f) THEN [invoice[i] EXCEPT !.status = "cancelled"]
                                          ELSE invoice[i]]
      BY <1>3 DEF CancelFee
    <2>2. /\ fee'[f].status = "cancelled"
          /\ \A g \in Fees : /\ fee'[g].paid = fee[g].paid
                             /\ g # f => fee'[g].status = fee[g].status
      BY <2>1, FeePaidKept
    <2>3. \A j \in Invoices : /\ invoice'[j].paid = invoice[j].paid
                              /\ invoice'[j].status = "cancelled" =>
                                   invoice[j].status = "cancelled" \/ FeeOf[j] = f
      BY <2>1, InvoicePaidKept DEF ActiveInvoices, InvoicesOf
    <2> QED BY <2>1, <2>2, <2>3 DEF Quiet
  <1>4. ASSUME NEW a \in Amounts, RepriceForMajorChange(f, a) PROVE Quiet
    <2> DEFINE target == a - fee[f].waived
    <2>1. PICK i \in Invoices :
            invoice' = [invoice EXCEPT ![i].amount = target,
                 ![i].status = CASE invoice[i].paid >= target -> "paid"
                                 [] invoice[i].paid < target /\ invoice[i].paid > 0 -> "partial"
                                 [] OTHER -> "issued"]
      BY <1>4, Zenon DEF RepriceForMajorChange
    <2> DEFINE s == CASE invoice[i].paid >= target -> "paid"
                      [] invoice[i].paid < target /\ invoice[i].paid > 0 -> "partial"
                      [] OTHER -> "issued"
    <2>2. s # "cancelled"
      OBVIOUS
    <2>3. invoice' = [invoice EXCEPT ![i].amount = target, ![i].status = s]
      BY <2>1
    <2> HIDE DEF target, s
    <2>4. invoice' = [invoice EXCEPT ![i] = [@ EXCEPT !.amount = target, !.status = s]]
      BY <2>3
    <2>5. \A j \in Invoices : /\ invoice'[j].paid = invoice[j].paid
                              /\ invoice'[j].status = "cancelled" => invoice[j].status = "cancelled"
      BY <2>2, <2>4, InvoicePaidKept
    <2>6. /\ UNCHANGED <<payment, refund, over>>
          /\ fee' = [fee EXCEPT ![f] = RecomputedFee([@ EXCEPT !.final = a], TRUE)]
      BY <1>4, Zenon DEF RepriceForMajorChange
    <2> DEFINE g == [fee[f] EXCEPT !.final = a]
    <2>7. g \in LooseFee /\ g.paid = fee[f].paid /\ g.status = fee[f].status
      BY FeeUpdates, FeePaidKept
    <2>8. fee' = [fee EXCEPT ![f] = RecomputedFee(g, TRUE)]
      BY <2>6
    <2> HIDE DEF g
    <2>9. \A h \in Fees : /\ fee'[h].paid = fee[h].paid
                          /\ fee'[h].status = "cancelled" => fee[h].status = "cancelled"
      BY <2>7, <2>8, RecomputedKept
    <2> QED BY <2>5, <2>6, <2>9 DEF Quiet
  <1>5. CASE ConfirmMajorChange(f)
    <2>1. /\ UNCHANGED <<invoice, payment, refund, over>>
          /\ fee' = [fee EXCEPT ![f] = RecomputedFee(@, TRUE)]
      BY <1>5 DEF ConfirmMajorChange
    <2>2. \A g \in Fees : /\ fee'[g].paid = fee[g].paid
                          /\ fee'[g].status = "cancelled" => fee[g].status = "cancelled"
      BY <2>1, RecomputedKept
    <2> QED BY <2>1, <2>2 DEF Quiet
  <1> QED BY <1>1, <1>2, <1>3, <1>4, <1>5 DEF FeeStep

-----------------------------------------------------------------------------
(* The books: totals of refunds *)

\* The part of each refund in table t that counts for payment p.
Counted(t, p, statuses) ==
    [r \in Refunds |->
        IF t[r].payment = p /\ t[r].status \in statuses THEN t[r].amount ELSE 0]

Total(t, p, statuses) == SumFunctionOnSet(Counted(t, p, statuses), Refunds)

RefundTable == [Refunds -> RefundRow]

\* Every part counted is an amount.
LEMMA CountedNat ==
    ASSUME NEW t \in RefundTable, NEW p, NEW statuses
    PROVE  \A r \in Refunds : Counted(t, p, statuses)[r] \in Nat
  BY DEF Counted, RefundTable, RefundRow

\* get_total_refunds_for_payment as a total over the whole table.
LEMMA TotalIs ==
    ASSUME NEW t \in RefundTable, NEW p, NEW statuses
    PROVE  SumFunctionOnSet([r \in Refunds |-> t[r].amount],
                            {r \in Refunds : t[r].payment = p /\ t[r].status \in statuses})
             = Total(t, p, statuses)
  <1> DEFINE amounts == [r \in Refunds |-> t[r].amount]
             A == {r \in Refunds : t[r].payment = p /\ t[r].status \in statuses}
  <1>1. \A r \in Refunds : amounts[r] \in Int
    BY DEF RefundTable, RefundRow
  <1>2. Counted(t, p, statuses) = [r \in Refunds |-> IF r \in A THEN amounts[r] ELSE 0]
    BY DEF Counted
  <1>3. A \subseteq Refunds
    OBVIOUS
  <1>4. SumFunctionOnSet(amounts, A)
          = SumFunctionOnSet([r \in Refunds |-> IF r \in A THEN amounts[r] ELSE 0], Refunds)
    <2> HIDE DEF amounts, A
    <2> QED BY <1>1, <1>3, LedgerConstants, SumWhere
  <1> QED BY <1>2, <1>4 DEF Total

\* A total of refunds is an amount, and counts no refund for more than it is.
LEMMA TotalNat ==
    ASSUME NEW t \in RefundTable, NEW p, NEW statuses
    PROVE  /\ Total(t, p, statuses) \in Nat
           /\ \A r \in Refunds : Counted(t, p, statuses)[r] <= Total(t, p, statuses)
  BY CountedNat, LedgerConstants, SumNat, SumTerm DEF Total

\* Fewer statuses, no larger a total.
LEMMA TotalLe ==
    ASSUME NEW t \in RefundTable, NEW p, NEW few, NEW many, few \subseteq many
    PROVE  Total(t, p, few) <= Total(t, p, many)
  <1>1. \A r \in Refunds : /\ Counted(t, p, few)[r] \in Int
                           /\ Counted(t, p, many)[r] \in Int
                           /\ Counted(t, p, few)[r] <= Counted(t, p, many)[r]
    BY DEF Counted, RefundTable, RefundRow
  <1> QED BY <1>1, LedgerConstants, SumLe DEF Total

\* Nothing that counts, nothing in total.
LEMMA TotalZero ==
    ASSUME NEW t \in RefundTable, NEW p, NEW statuses,
           \A r \in Refunds : t[r].payment = p => t[r].status \notin statuses
    PROVE  Total(t, p, statuses) = 0
  <1>1. {r \in Refunds : t[r].payment = p /\ t[r].status \in statuses} = {}
    OBVIOUS
  <1> QED BY <1>1, TotalIs, SumEmpty

\* A change of one refund changes the totals by what that refund counts.
LEMMA TotalUpdate ==
    ASSUME NEW t \in RefundTable, NEW u \in RefundTable, NEW p, NEW statuses,
           NEW r \in Refunds, \A q \in Refunds \ {r} : u[q] = t[q]
    PROVE  Total(u, p, statuses)
             = Total(t, p, statuses) + Counted(u, p, statuses)[r] - Counted(t, p, statuses)[r]
  <1>1. \A q \in Refunds : /\ Counted(t, p, statuses)[q] \in Int
                           /\ Counted(u, p, statuses)[q] \in Int
    BY CountedNat
  <1>2. \A q \in Refunds \ {r} : Counted(u, p, statuses)[q] = Counted(t, p, statuses)[q]
    BY DEF Counted
  <1> QED BY <1>1, <1>2, LedgerConstants, SumUpdate DEF Total

-----------------------------------------------------------------------------
(* The books: what the invoices hold of the payments *)

CreditOf(o, p) == IF o[p].status = "applied" THEN o[p].amount ELSE 0

\* Holding, of tables pay, t and o.
HoldingOf(pay, t, o, p, i) ==
    (IF pay[p].invoice = i /\ pay[p].status = "verified"
     THEN pay[p].amount - Total(t, p, {"refunded"}) - CreditOf(o, p) ELSE 0)
    + (IF o[p].target = i THEN CreditOf(o, p) ELSE 0)

\* The holdings of the state are those of its tables ...
LEMMA HoldingIs ==
    ASSUME refund \in RefundTable, NEW p \in Payments, NEW i \in Invoices
    PROVE  Holding(p, i) = HoldingOf(payment, refund, over, p, i)
  <1>1. RefundTotal(p, {"refunded"}) = Total(refund, p, {"refunded"})
    BY TotalIs DEF RefundTotal
  <1> QED BY <1>1 DEF Holding, HoldingOf, Credit, CreditOf, PaymentsOn

\* ... and so are those of the next state.
LEMMA HoldingNextIs ==
    ASSUME refund' \in RefundTable, NEW p \in Payments, NEW i \in Invoices
    PROVE  Holding(p, i)' = HoldingOf(payment', refund', over', p, i)
  <1>1. RefundTotal(p, {"refunded"})' = Total(refund', p, {"refunded"})
    BY TotalIs DEF RefundTotal
  <1> QED BY <1>1 DEF Holding, HoldingOf, Credit, CreditOf, PaymentsOn

\* hold[i][p] is what invoice i holds of payment p, paid and due what the rows say.
Balance(hold, paid, due) ==
    /\ \A i \in Invoices : paid[i] = SumFunctionOnSet(hold[i], Payments)
    /\ \A f \in Fees : due[f] = SumFunctionOnSet(paid, InvoicesOf(f))

Holdings == [i \in Invoices |-> [p \in Payments |-> Holding(p, i)]]
PaidAmounts == [i \in Invoices |-> invoice[i].paid]
FeeAmounts == [f \in Fees |-> fee[f].paid]

\* BooksBalance is the balance of the state.
LEMMA BooksAre == BooksBalance <=> Balance(Holdings, PaidAmounts, FeeAmounts)
  BY DEF BooksBalance, Balance, Holdings, PaidAmounts, FeeAmounts

\* An amount d that comes to (or leaves) one payment's part of one invoice, the
\* invoice and its fee leaves the books balanced.
LEMMA MoveKeepsBalance ==
    ASSUME NEW hold \in [Invoices -> [Payments -> Int]], NEW paid \in [Invoices -> Int],
           NEW due \in [Fees -> Int], Balance(hold, paid, due),
           NEW i \in Invoices, NEW p \in Payments, NEW d \in Int
    PROVE  /\ Balance([hold EXCEPT ![i][p] = @ + d], [paid EXCEPT ![i] = @ + d],
                      [due EXCEPT ![FeeOf[i]] = @ + d])
           /\ [hold EXCEPT ![i][p] = @ + d] \in [Invoices -> [Payments -> Int]]
           /\ [paid EXCEPT ![i] = @ + d] \in [Invoices -> Int]
           /\ [due EXCEPT ![FeeOf[i]] = @ + d] \in [Fees -> Int]
  <1> DEFINE row == [hold[i] EXCEPT ![p] = @ + d]
             hold2 == [hold EXCEPT ![i] = row]
             paid2 == [paid EXCEPT ![i] = @ + d]
             due2 == [due EXCEPT ![FeeOf[i]] = @ + d]
  <1>1. [hold EXCEPT ![i][p] = @ + d] = hold2
    OBVIOUS
  <1>2. row \in [Payments -> Int] /\ row[p] = hold[i][p] + d
        /\ \A q \in Payments \ {p} : row[q] = hold[i][q]
    OBVIOUS
  <1>3. SumFunctionOnSet(row, Payments) = SumFunctionOnSet(hold[i], Payments) + d
    <2>1. \A q \in Payments : hold[i][q] \in Int /\ row[q] \in Int
      BY <1>2
    <2>2. SumFunctionOnSet(row, Payments)
            = SumFunctionOnSet(hold[i], Payments) + row[p] - hold[i][p]
      <3> HIDE DEF row
      <3> QED BY <2>1, <1>2, LedgerConstants, SumUpdate
    <2>3. SumFunctionOnSet(hold[i], Payments) \in Int
      BY <2>1, LedgerConstants, SumInt
    <2> HIDE DEF row
    <2> QED BY <2>1, <2>2, <2>3, <1>2
  <1> HIDE DEF row
  <1>4. \A j \in Invoices : paid2[j] = SumFunctionOnSet(hold2[j], Payments)
    BY <1>3 DEF Balance
  <1>5. ASSUME NEW f \in Fees PROVE due2[f] = SumFunctionOnSet(paid2, InvoicesOf(f))
    <2>1. IsFiniteSet(InvoicesOf(f)) /\ InvoicesOf(f) \subseteq Invoices
      BY LedgerConstants, FS_Subset DEF InvoicesOf
    <2>2. \A j \in InvoicesOf(f) : paid[j] \in Int /\ paid2[j] \in Int
      BY <2>1
    <2>3. CASE f = FeeOf[i]
      <3>1. i \in InvoicesOf(f) /\ \A j \in InvoicesOf(f) \ {i} : paid2[j] = paid[j]
        BY <2>1, <2>3 DEF InvoicesOf
      <3>2. paid2[i] = paid[i] + d /\ paid[i] \in Int
        OBVIOUS
      <3>3. SumFunctionOnSet(paid2, InvoicesOf(f))
              = SumFunctionOnSet(paid, InvoicesOf(f)) + paid2[i] - paid[i]
        <4> DEFINE S == InvoicesOf(f)
        <4>1. i \in S /\ IsFiniteSet(S) /\ paid2[i] \in Int
          BY <2>1, <3>1, <3>2
        <4>2. \A j \in S : paid[j] \in Int
          BY <2>2
        <4>3. \A j \in S \ {i} : paid2[j] = paid[j]
          BY <3>1
        <4> HIDE DEF paid2, S
        <4>4. SumFunctionOnSet(paid2, S) = SumFunctionOnSet(paid, S) + paid2[i] - paid[i]
          BY <4>1, <4>2, <4>3, SumUpdate
        <4> QED BY <4>4 DEF S
      <3>4. SumFunctionOnSet(paid, InvoicesOf(f)) \in Int
        BY <2>1, <2>2, SumInt
      <3>5. due2[f] = due[f] + d
        BY <2>3
      <3>6. due[f] = SumFunctionOnSet(paid, InvoicesOf(f))
        BY DEF Balance
      <3> HIDE DEF paid2, due2
      <3> QED BY <3>2, <3>3, <3>4, <3>5, <3>6
    <2>4. CASE f # FeeOf[i]
      <3>1. \A j \in InvoicesOf(f) : paid2[j] = paid[j]
        BY <2>1, <2>4 DEF InvoicesOf
      <3>2. SumFunctionOnSet(paid2, InvoicesOf(f)) = SumFunctionOnSet(paid, InvoicesOf(f))
        <4> HIDE DEF paid2
        <4> QED BY <2>1, <3>1, SumSame
      <3> QED BY <2>4, <3>2 DEF Balance
    <2> QED BY <2>3, <2>4
  <1>6. /\ hold2 \in [Invoices -> [Payments -> Int]] /\ paid2 \in [Invoices -> Int]
        /\ due2 \in [Fees -> Int]
    BY <1>2, LedgerConstants
  <1> QED BY <1>1, <1>4, <1>5, <1>6 DEF Balance

-----------------------------------------------------------------------------
(* The books: the invariant *)

\* A refund was filed for a payment that was verified, and stays so.
FiledOnVerified ==
    \A r \in Refunds : refund[r].status # "absent" =>
        refund[r].payment \in Payments /\ payment[refund[r].payment].status = "verified"

\* So is an overpayment recorded, for no more than the payment; its credit went to
\* an invoice exactly when it was applied.
RecordsOnVerified ==
    \A p \in Payments :
        /\ over[p].status # "absent" =>
             payment[p].status = "verified" /\ over[p].amount <= payment[p].amount
        /\ over[p].target # Nil <=> over[p].status = "applied"

\* As long as it is not paid back, no refund of its payment counts but its own.
Reserved ==
    \A p \in Payments, r \in Refunds :
        /\ over[p].status \in {"pending", "applied", "cancelled"}
        /\ refund[r].payment = p /\ refund[r].status \in CommittedStatuses
        => over[p].refund = r

Links == FiledOnVerified /\ RecordsOnVerified /\ Reserved

MoneyInv == Links /\ PayoutsBounded /\ BooksBalance

SpentOf(o, p) == IF o[p].status \in {"applied", "cancelled"} THEN o[p].amount ELSE 0

\* PayoutsBounded of this state, of its tables ...
LEMMA BoundIs ==
    ASSUME refund \in RefundTable
    PROVE  PayoutsBounded <=>
             \A p \in Payments :
                Total(refund, p, CommittedStatuses) + SpentOf(over, p) <= payment[p].amount
  <1>1. \A p \in Payments :
           RefundTotal(p, CommittedStatuses) = Total(refund, p, CommittedStatuses)
    BY TotalIs DEF RefundTotal
  <1> QED BY <1>1 DEF PayoutsBounded, SpentOf

\* ... and of the next.
LEMMA BoundNextIs ==
    ASSUME refund' \in RefundTable
    PROVE  PayoutsBounded' <=>
             \A p \in Payments :
                Total(refund', p, CommittedStatuses) + SpentOf(over', p) <= payment'[p].amount
  <1>1. \A p \in Payments :
           RefundTotal(p, CommittedStatuses)' = Total(refund', p, CommittedStatuses)
    BY TotalIs DEF RefundTotal, CommittedStatuses
  <1> QED BY <1>1 DEF PayoutsBounded, SpentOf

\* The rows of a typed state, one by one.
LEMMA Rows ==
    ASSUME Inv
    PROVE  /\ refund \in RefundTable
           /\ \A i \in Invoices : invoice[i] \in LooseInvoice /\ invoice[i].paid \in Int
           /\ \A f \in Fees : fee[f] \in LooseFee /\ fee[f].paid \in Int
           /\ \A p \in Payments : /\ payment[p] \in PaymentRow /\ payment[p].amount \in Nat
                                  /\ over[p] \in OverRow /\ over[p].amount \in Nat
           /\ \A r \in Refunds : refund[r] \in RefundRow /\ refund[r].amount \in Nat
  BY DEF Inv, RowsTyped, FeesTyped, RefundTable, LooseInvoice, LooseFee, PaymentRow, OverRow,
         RefundRow

\* An overpayment that was applied or written off leaves its payment no refund.
LEMMA NoRefundOfSpent ==
    ASSUME Inv, MoneyInv, NEW p \in Payments, over[p].status \in {"applied", "cancelled"}
    PROVE  \A r \in Refunds : refund[r].payment = p => refund[r].status \notin CommittedStatuses
  BY DEF Inv, MoneyInv, Links, Reserved, OverpaymentSettledOnce, CommittedStatuses

\* What is held of a payment is an amount: PayoutsBounded keeps the clamp of
\* reverse_payment_balances from ever being needed.
LEMMA HoldingNat ==
    ASSUME Inv, MoneyInv, NEW p \in Payments, NEW i \in Invoices
    PROVE  Holding(p, i) \in Nat
  <1>1. refund \in RefundTable /\ payment[p].amount \in Nat /\ over[p].amount \in Nat
    BY Rows
  <1>2. Total(refund, p, CommittedStatuses) + SpentOf(over, p) <= payment[p].amount
    BY <1>1, BoundIs DEF MoneyInv
  <1>3. Total(refund, p, {"refunded"}) <= Total(refund, p, CommittedStatuses)
    BY <1>1, TotalLe DEF CommittedStatuses
  <1>4. /\ Total(refund, p, {"refunded"}) \in Nat
        /\ Total(refund, p, CommittedStatuses) \in Nat
    BY <1>1, TotalNat
  <1>5. CreditOf(over, p) \in Nat /\ SpentOf(over, p) \in Nat
        /\ CreditOf(over, p) <= SpentOf(over, p)
    BY <1>1 DEF CreditOf, SpentOf
  <1>6. payment[p].amount - Total(refund, p, {"refunded"}) - CreditOf(over, p) \in Nat
    BY <1>1, <1>2, <1>3, <1>4, <1>5
  <1>7. Holding(p, i) = HoldingOf(payment, refund, over, p, i)
    BY <1>1, HoldingIs
  <1> QED BY <1>5, <1>6, <1>7 DEF HoldingOf

\* So no paid amount is negative, and none is less than what it holds of one payment.
LEMMA PaidNat ==
    ASSUME Inv, MoneyInv
    PROVE  /\ \A i \in Invoices :
                /\ invoice[i].paid \in Nat
                /\ \A p \in Payments : Holding(p, i) <= invoice[i].paid
                /\ invoice[i].paid <= fee[FeeOf[i]].paid
           /\ \A f \in Fees : fee[f].paid \in Nat
  <1>1. ASSUME NEW i \in Invoices
        PROVE  /\ invoice[i].paid \in Nat
               /\ \A p \in Payments : Holding(p, i) <= invoice[i].paid
    <2> DEFINE hold == [p \in Payments |-> Holding(p, i)]
    <2>1. \A p \in Payments : hold[p] \in Nat
      BY HoldingNat
    <2>2. invoice[i].paid = SumFunctionOnSet(hold, Payments)
      BY DEF MoneyInv, BooksBalance
    <2>3. \A p \in Payments : hold[p] = Holding(p, i)
      OBVIOUS
    <2> HIDE DEF hold
    <2>4. SumFunctionOnSet(hold, Payments) \in Nat
      BY <2>1, LedgerConstants, SumNat
    <2>5. \A p \in Payments : hold[p] <= SumFunctionOnSet(hold, Payments)
      BY <2>1, LedgerConstants, SumTerm
    <2> QED BY <2>2, <2>3, <2>4, <2>5
  <1>2. ASSUME NEW f \in Fees
        PROVE  fee[f].paid \in Nat /\ \A i \in InvoicesOf(f) : invoice[i].paid <= fee[f].paid
    <2> DEFINE S == InvoicesOf(f)
    <2>1. IsFiniteSet(S) /\ S \subseteq Invoices
      BY LedgerConstants, FS_Subset DEF InvoicesOf
    <2>2. \A i \in S : PaidAmounts[i] \in Nat /\ PaidAmounts[i] = invoice[i].paid
      BY <1>1, <2>1 DEF PaidAmounts
    <2>3. fee[f].paid = SumFunctionOnSet(PaidAmounts, S)
      BY DEF MoneyInv, BooksBalance, PaidAmounts
    <2> HIDE DEF S
    <2>4. SumFunctionOnSet(PaidAmounts, S) \in Nat
      BY <2>1, <2>2, SumNat
    <2>5. \A i \in S : PaidAmounts[i] <= SumFunctionOnSet(PaidAmounts, S)
      BY <2>1, <2>2, SumTerm
    <2>6. \A i \in S : invoice[i].paid <= fee[f].paid
      BY <2>2, <2>3, <2>5
    <2> QED BY <2>3, <2>4, <2>6 DEF S
  <1>3. \A i \in Invoices : FeeOf[i] \in Fees /\ i \in InvoicesOf(FeeOf[i])
    BY LedgerConstants DEF InvoicesOf
  <1> QED BY <1>1, <1>2, <1>3

\* The initial state.
LEMMA InitMoney == Init => MoneyInv
  <1> SUFFICES ASSUME Init PROVE MoneyInv
    OBVIOUS
  <1>1. Links
    BY LedgerConstants DEF Init, Links, FiledOnVerified, RecordsOnVerified, Reserved,
                           CommittedStatuses
  <1>2. refund \in RefundTable
    BY InitInv, Rows
  <1>3. ASSUME NEW p \in Payments, NEW statuses, "absent" \notin statuses
        PROVE  Total(refund, p, statuses) = 0
    <2>1. \A r \in Refunds : refund[r].status \notin statuses
      BY <1>3 DEF Init
    <2> QED BY <1>2, <2>1, TotalZero
  <1>4. PayoutsBounded
    BY <1>2, <1>3, BoundIs DEF Init, SpentOf, CommittedStatuses
  <1>5. BooksBalance
    <2>1. \A i \in Invoices, p \in Payments : Holding(p, i) = 0
      BY <1>2, HoldingIs DEF Init, HoldingOf, CreditOf
    <2>2. ASSUME NEW S, IsFiniteSet(S), NEW g, \A x \in S : g[x] = 0
          PROVE  SumFunctionOnSet(g, S) = 0
      <3> DEFINE z == [x \in S |-> IF x \in {} THEN g[x] ELSE 0]
      <3>1. SumFunctionOnSet(g, S) = SumFunctionOnSet(z, S)
        BY <2>2, SumSame
      <3>2. SumFunctionOnSet(g, {}) = SumFunctionOnSet(z, S)
        BY <2>2, SumWhere
      <3> HIDE DEF z
      <3> QED BY <3>1, <3>2, SumEmpty
    <2>3. ASSUME NEW i \in Invoices
          PROVE  SumFunctionOnSet([p \in Payments |-> Holding(p, i)], Payments) = 0
      <3> DEFINE g == [p \in Payments |-> Holding(p, i)]
      <3>1. \A p \in Payments : g[p] = 0
        BY <2>1
      <3> HIDE DEF g
      <3>2. SumFunctionOnSet(g, Payments) = 0
        BY <2>2, <3>1, LedgerConstants
      <3> QED BY <3>2 DEF g
    <2>4. ASSUME NEW f \in Fees
          PROVE  SumFunctionOnSet([i \in Invoices |-> invoice[i].paid], InvoicesOf(f)) = 0
      <3> DEFINE g == [i \in Invoices |-> invoice[i].paid]
      <3>1. \A i \in InvoicesOf(f) : g[i] = 0
        BY DEF Init, InvoicesOf
      <3>2. IsFiniteSet(InvoicesOf(f))
        BY LedgerConstants, FS_Subset DEF InvoicesOf
      <3> HIDE DEF g
      <3>3. SumFunctionOnSet(g, InvoicesOf(f)) = 0
        BY <2>2, <3>1, <3>2
      <3> QED BY <3>3 DEF g
    <2> QED BY <2>3, <2>4 DEF BooksBalance, Init
  <1> QED BY <1>1, <1>4, <1>5 DEF MoneyInv

-----------------------------------------------------------------------------
(* The books: steps that move money *)

\* A step that changes neither a holding nor a paid amount leaves the books balanced.
LEMMA BooksStay ==
    ASSUME Inv, Inv', BooksBalance,
           \A q \in Payments, j \in Invoices :
              HoldingOf(payment', refund', over', q, j) = HoldingOf(payment, refund, over, q, j),
           \A j \in Invoices : invoice'[j].paid = invoice[j].paid,
           \A f \in Fees : fee'[f].paid = fee[f].paid
    PROVE  BooksBalance'
  <1>1. refund \in RefundTable /\ refund' \in RefundTable
    BY DEF Inv, RowsTyped, RefundTable
  <1>2. \A q \in Payments, j \in Invoices : Holding(q, j)' = Holding(q, j)
    BY <1>1, HoldingIs, HoldingNextIs
  <1>3. Holdings' = Holdings /\ PaidAmounts' = PaidAmounts /\ FeeAmounts' = FeeAmounts
    BY <1>2 DEF Holdings, PaidAmounts, FeeAmounts
  <1>4. Balance(Holdings, PaidAmounts, FeeAmounts)
    BY BooksAre
  <1>5. Balance(Holdings', PaidAmounts', FeeAmounts')
    BY <1>3, <1>4
  <1> QED BY <1>5 DEF BooksBalance, Balance, Holdings, PaidAmounts, FeeAmounts

\* Of payment p, d comes to invoice i and e to invoice k (one of them may leave).
LEMMA BooksMove ==
    ASSUME Inv, Inv', BooksBalance,
           NEW p \in Payments, NEW i \in Invoices, NEW k \in Invoices, NEW d \in Int, NEW e \in Int,
           \A q \in Payments, j \in Invoices :
              HoldingOf(payment', refund', over', q, j)
                = HoldingOf(payment, refund, over, q, j)
                    + (IF q = p /\ j = i THEN d ELSE 0) + (IF q = p /\ j = k THEN e ELSE 0),
           \A j \in Invoices : invoice'[j].paid
             = invoice[j].paid + (IF j = i THEN d ELSE 0) + (IF j = k THEN e ELSE 0),
           \A f \in Fees : fee'[f].paid
             = fee[f].paid + (IF f = FeeOf[i] THEN d ELSE 0) + (IF f = FeeOf[k] THEN e ELSE 0)
    PROVE  BooksBalance'
  <1>1. refund \in RefundTable /\ refund' \in RefundTable
    BY DEF Inv, RowsTyped, RefundTable
  <1>2. \A q \in Payments, j \in Invoices :
           Holding(q, j)' = Holding(q, j) + (IF q = p /\ j = i THEN d ELSE 0)
                              + (IF q = p /\ j = k THEN e ELSE 0)
    BY <1>1, HoldingIs, HoldingNextIs
  <1>3. \A q \in Payments, j \in Invoices : Holding(q, j) \in Int
    <2> SUFFICES ASSUME NEW q \in Payments, NEW j \in Invoices PROVE Holding(q, j) \in Int
      OBVIOUS
    <2>1. Holding(q, j) = HoldingOf(payment, refund, over, q, j)
      BY <1>1, HoldingIs
    <2>2. payment[q].amount \in Int /\ over[q].amount \in Int
      BY Rows
    <2>3. Total(refund, q, {"refunded"}) \in Int
      BY <1>1, TotalNat
    <2> QED BY <2>1, <2>2, <2>3 DEF HoldingOf, CreditOf
  <1>4. /\ Holdings \in [Invoices -> [Payments -> Int]] /\ PaidAmounts \in [Invoices -> Int]
        /\ FeeAmounts \in [Fees -> Int]
    BY <1>3, Rows DEF Holdings, PaidAmounts, FeeAmounts
  <1>5. Balance(Holdings, PaidAmounts, FeeAmounts)
    BY BooksAre
  <1> DEFINE h1 == [Holdings EXCEPT ![i][p] = @ + d]
             p1 == [PaidAmounts EXCEPT ![i] = @ + d]
             f1 == [FeeAmounts EXCEPT ![FeeOf[i]] = @ + d]
             h2 == [h1 EXCEPT ![k][p] = @ + e]
             p2 == [p1 EXCEPT ![k] = @ + e]
             f2 == [f1 EXCEPT ![FeeOf[k]] = @ + e]
  <1>6. /\ Balance(h1, p1, f1)
        /\ h1 \in [Invoices -> [Payments -> Int]] /\ p1 \in [Invoices -> Int] /\ f1 \in [Fees -> Int]
    BY <1>4, <1>5, MoveKeepsBalance
  <1>7. Balance(h2, p2, f2)
    <2> HIDE DEF h1, p1, f1
    <2> QED BY <1>6, MoveKeepsBalance
  <1>8. h2 = Holdings'
    <2>1. ASSUME NEW j \in Invoices, NEW q \in Payments
          PROVE  h2[j][q] = Holding(q, j)'
      <3>1. h1[j][q] = Holdings[j][q] + (IF q = p /\ j = i THEN d ELSE 0)
        BY <1>4
      <3>2. h2[j][q] = h1[j][q] + (IF q = p /\ j = k THEN e ELSE 0)
        <4> HIDE DEF h1
        <4> QED BY <1>6
      <3>3. Holdings[j][q] = Holding(q, j)
        BY DEF Holdings
      <3> HIDE DEF h1, h2
      <3> QED BY <3>1, <3>2, <3>3, <1>2
    <2>2. h2 \in [Invoices -> [Payments -> Int]]
      <3> HIDE DEF h1
      <3> QED BY <1>6
    <2> HIDE DEF h2
    <2> QED BY <2>1, <2>2 DEF Holdings
  <1>9. p2 = PaidAmounts'
    <2>1. \A j \in Invoices : p2[j] = invoice'[j].paid
      BY <1>4 DEF PaidAmounts
    <2>2. p2 \in [Invoices -> Int]
      BY <1>4
    <2> HIDE DEF p2
    <2> QED BY <2>1, <2>2 DEF PaidAmounts
  <1>10. f2 = FeeAmounts'
    <2>1. \A f \in Fees : f2[f] = fee'[f].paid
      BY <1>4, LedgerConstants DEF FeeAmounts
    <2>2. f2 \in [Fees -> Int]
      BY <1>4, LedgerConstants
    <2> HIDE DEF f2
    <2> QED BY <2>1, <2>2 DEF FeeAmounts
  <1>11. Balance(Holdings', PaidAmounts', FeeAmounts')
    <2> HIDE DEF h2, p2, f2
    <2> QED BY <1>7, <1>8, <1>9, <1>10
  <1> QED BY <1>11 DEF BooksBalance, Balance, Holdings, PaidAmounts, FeeAmounts

\* Where no money moves, nothing of the invariant is touched.
LEMMA QuietMoney ==
    ASSUME Inv, Inv', MoneyInv, Quiet
    PROVE  MoneyInv'
  <1>1. payment' = payment /\ refund' = refund /\ over' = over
    BY DEF Quiet
  <1>2. Links'
    BY <1>1 DEF MoneyInv, Links, FiledOnVerified, RecordsOnVerified, Reserved
  <1>3. PayoutsBounded'
    BY <1>1, BoundIs, BoundNextIs, Rows DEF MoneyInv
  <1>4. BooksBalance'
    BY <1>1, BooksStay DEF MoneyInv, Quiet
  <1> QED BY <1>2, <1>3, <1>4 DEF MoneyInv

\* Before its verification a payment has no refund and no record, and nobody holds it.
LEMMA Unverified ==
    ASSUME Inv, MoneyInv, NEW p \in Payments, payment[p].status \in {"absent", "pending"}
    PROVE  /\ over[p].status = "absent" /\ over[p].target = Nil
           /\ \A r \in Refunds : refund[r].payment = p => refund[r].status = "absent"
           /\ Total(refund, p, {"refunded"}) = 0 /\ Total(refund, p, CommittedStatuses) = 0
           /\ \A j \in Invoices : HoldingOf(payment, refund, over, p, j) = 0
  <1>1. over[p].status = "absent" /\ over[p].target = Nil
    BY DEF Inv, NoRecordBeforeVerification, MoneyInv, Links, RecordsOnVerified
  <1>2. \A r \in Refunds : refund[r].payment = p => refund[r].status = "absent"
    BY DEF MoneyInv, Links, FiledOnVerified
  <1>3. Total(refund, p, {"refunded"}) = 0 /\ Total(refund, p, CommittedStatuses) = 0
    BY <1>2, Rows, TotalZero DEF CommittedStatuses
  <1>4. Nil \notin Invoices
    BY LedgerConstants
  <1> QED BY <1>1, <1>2, <1>3, <1>4 DEF HoldingOf, CreditOf

\* Recording, verifying and rejecting a payment.
LEMMA PaymentMoney ==
    ASSUME Inv, Inv', MoneyInv, NEW p \in Payments, PaymentStep(p)
    PROVE  MoneyInv'
  <1>0. Nil \notin Invoices /\ \A f \in DOMAIN FeeOf : FeeOf[f] \in Fees
    BY LedgerConstants
  <1>1. /\ refund' = refund /\ payment[p].status \in {"absent", "pending"}
        /\ \A q \in Payments : q # p => payment'[q] = payment[q] /\ over'[q] = over[q]
        /\ over'[p].target = over[p].target
        /\ over'[p].status = "absent" \/ /\ payment'[p].status = "verified"
                                         /\ over'[p].status = "pending"
                                         /\ over'[p].amount <= payment'[p].amount
    <2>1. ASSUME NEW i \in Invoices, NEW a \in Amounts, NEW u \in Users,
                 RecordManualPayment(p, i, a, u)
          PROVE  <1>1
      <3>1. over[p].status = "absent"
        BY <2>1 DEF RecordManualPayment, Inv, NoRecordBeforeVerification
      <3> QED BY <2>1, <3>1 DEF RecordManualPayment, Inv, RowsTyped
    <2>2. ASSUME NEW u \in Users, RejectPayment(p, u) PROVE <1>1
      <3>1. over[p].status = "absent"
        BY <2>2 DEF RejectPayment, Inv, NoRecordBeforeVerification
      <3> QED BY <2>2, <3>1 DEF RejectPayment, Inv, RowsTyped
    <2>3. ASSUME NEW u \in Users, VerifyPayment(p, u) PROVE <1>1
      <3> DEFINE i == payment[p].invoice
                 a == payment[p].amount
                 x == Excess(invoice[i], a)
      <3>1. over[p].status = "absent" /\ i \in Invoices /\ payment[p].status = "pending"
        BY <2>3 DEF VerifyPayment, Inv, NoRecordBeforeVerification, RowsTyped
      <3>2. x <= a
        BY <3>1, Rows DEF Excess, Above, Due, LooseInvoice
      <3>3. /\ refund' = refund
            /\ payment' = [payment EXCEPT ![p] = [@ EXCEPT !.status = "verified"]]
            /\ over' = IF x > 0
                       THEN [over EXCEPT ![p] = [@ EXCEPT !.amount = x, !.status = "pending"]]
                       ELSE over
        BY <2>3 DEF VerifyPayment
      <3> HIDE DEF x, i
      <3>4. /\ payment'[p].status = "verified" /\ payment'[p].amount = a
            /\ \A q \in Payments : q # p => payment'[q] = payment[q]
        BY <3>3, Rows DEF Inv, RowsTyped, PaymentRow
      <3>5. /\ \A q \in Payments : q # p => over'[q] = over[q]
            /\ \/ over'[p] = over[p]
               \/ over'[p].status = "pending" /\ over'[p].amount = x
            /\ over'[p].target = over[p].target
        BY <3>3, Rows DEF Inv, RowsTyped, OverRow
      <3> HIDE DEF a
      <3> QED BY <3>1, <3>2, <3>3, <3>4, <3>5
    <2> QED BY <2>1, <2>2, <2>3 DEF PaymentStep
  <1>2. /\ over[p].status = "absent" /\ over[p].target = Nil
        /\ \A r \in Refunds : refund[r].payment = p => refund[r].status = "absent"
        /\ Total(refund, p, {"refunded"}) = 0 /\ Total(refund, p, CommittedStatuses) = 0
        /\ \A j \in Invoices : HoldingOf(payment, refund, over, p, j) = 0
    BY <1>1, Unverified
  <1>3. Links'
    <2>1. FiledOnVerified'
      BY <1>1, <1>2 DEF MoneyInv, Links, FiledOnVerified
    <2>2. RecordsOnVerified'
      BY <1>1, <1>2 DEF MoneyInv, Links, RecordsOnVerified
    <2>3. Reserved'
      BY <1>1, <1>2 DEF MoneyInv, Links, Reserved, CommittedStatuses
    <2> QED BY <2>1, <2>2, <2>3 DEF Links
  <1>r. refund \in RefundTable /\ refund' \in RefundTable
    BY Rows, <1>1
  <1>a. payment'[p].amount \in Nat
    BY DEF Inv, RowsTyped, PaymentRow
  <1>4. PayoutsBounded'
    <2>1. \A q \in Payments :
            Total(refund, q, CommittedStatuses) + SpentOf(over, q) <= payment[q].amount
      BY <1>r, BoundIs DEF MoneyInv
    <2>2. \A q \in Payments :
            Total(refund', q, CommittedStatuses) + SpentOf(over', q) <= payment'[q].amount
      BY <1>1, <1>2, <1>a, <2>1 DEF SpentOf
    <2> QED BY <1>r, <2>2, BoundNextIs
  <1>5. \A q \in Payments, j \in Invoices : q # p =>
          HoldingOf(payment', refund', over', q, j) = HoldingOf(payment, refund, over, q, j)
    BY <1>1 DEF HoldingOf, CreditOf
  <1>6. \A j \in Invoices :
          HoldingOf(payment', refund', over', p, j)
            = IF payment'[p].invoice = j /\ payment'[p].status = "verified"
              THEN payment'[p].amount ELSE 0
    BY <1>0, <1>1, <1>2, <1>a DEF HoldingOf, CreditOf
  <1>7. BooksBalance'
    <2>1. ASSUME \/ \E i \in Invoices, a \in Amounts, u \in Users : RecordManualPayment(p, i, a, u)
                 \/ \E u \in Users : RejectPayment(p, u)
          PROVE  BooksBalance'
      <3>1. payment'[p].status # "verified" /\ UNCHANGED <<invoice, fee>>
        BY <2>1 DEF RecordManualPayment, RejectPayment, Inv, RowsTyped, PaymentRow
      <3>2. \A q \in Payments, j \in Invoices :
             HoldingOf(payment', refund', over', q, j) = HoldingOf(payment, refund, over, q, j)
        BY <3>1, <1>2, <1>5, <1>6
      <3> QED BY <3>1, <3>2, BooksStay DEF MoneyInv
    <2>2. ASSUME NEW u \in Users, VerifyPayment(p, u) PROVE BooksBalance'
      <3> DEFINE i == payment[p].invoice
                 a == payment[p].amount
      <3>1. i \in Invoices /\ a \in Int /\ FeeOf[i] \in Fees
        <4>1. payment[p].status = "pending"
          BY <2>2 DEF VerifyPayment
        <4>2. i \in Invoices
          BY <4>1 DEF Inv, RowsTyped
        <4>3. a \in Int
          BY Rows
        <4> HIDE DEF i
        <4> QED BY <4>2, <4>3, LedgerConstants
      <3>2. payment'[p].invoice = i /\ payment'[p].amount = a /\ payment'[p].status = "verified"
        BY <2>2, Rows DEF VerifyPayment, Inv, RowsTyped, PaymentRow
      <3>3. invoice' = [invoice EXCEPT ![i] = PayInvoice(@, a)]
            /\ fee' = [fee EXCEPT ![FeeOf[i]] = PayFee(@, a)]
        BY <2>2 DEF VerifyPayment
      <3> HIDE DEF i, a
      <3>4. PayInvoice(invoice[i], a).paid = invoice[i].paid + a
        BY <3>1, Rows, PayInvoiceYields
      <3>5. PayFee(fee[FeeOf[i]], a).paid = fee[FeeOf[i]].paid + a
        BY <3>1, Rows, PayFeeYields
      <3>6. \A j \in Invoices : invoice'[j].paid
              = invoice[j].paid + (IF j = i THEN a ELSE 0) + (IF j = i THEN 0 ELSE 0)
        BY <3>1, <3>3, <3>4, Rows DEF Inv, RowsTyped
      <3>7. \A f \in Fees : fee'[f].paid
              = fee[f].paid + (IF f = FeeOf[i] THEN a ELSE 0) + (IF f = FeeOf[i] THEN 0 ELSE 0)
        BY <3>1, <3>3, <3>5, Rows DEF Inv, FeesTyped
      <3>8. \A q \in Payments, j \in Invoices :
              HoldingOf(payment', refund', over', q, j)
                = HoldingOf(payment, refund, over, q, j)
                    + (IF q = p /\ j = i THEN a ELSE 0) + (IF q = p /\ j = i THEN 0 ELSE 0)
        <4>1. \A q \in Payments, j \in Invoices : HoldingOf(payment, refund, over, q, j) \in Int
          BY HoldingNat, HoldingIs, Rows
        <4> QED BY <4>1, <1>2, <1>5, <1>6, <3>1, <3>2
      <3>9. 0 \in Int
        OBVIOUS
      <3> QED BY <3>1, <3>6, <3>7, <3>8, <3>9, BooksMove DEF MoneyInv
    <2> QED BY <2>1, <2>2 DEF PaymentStep
  <1> QED BY <1>3, <1>4, <1>7 DEF MoneyInv

-----------------------------------------------------------------------------
(* The books: refunds *)

\* request_refund: the new refund counts against its payment, and fits in what is left.
LEMMA FileRefundMoney ==
    ASSUME Inv, Inv', MoneyInv, NEW r \in Refunds, NEW p \in Payments, NEW a \in Nat,
           NEW u \in Users, NEW source \in {"manual", "overpayment"},
           FileRefund(r, p, a, u, source)
    PROVE  /\ refund[r].status = "absent" /\ payment[p].status = "verified"
           /\ refund'[r].payment = p /\ refund'[r].status = "pending"
           /\ \A q \in Refunds \ {r} : refund'[q] = refund[q]
           /\ \A q \in Payments : Total(refund', q, {"refunded"}) = Total(refund, q, {"refunded"})
           /\ \A q \in Payments \ {p} :
                Total(refund', q, CommittedStatuses) = Total(refund, q, CommittedStatuses)
           /\ Total(refund', p, CommittedStatuses) <= payment[p].amount
  <1>1. refund \in RefundTable /\ refund' \in RefundTable
    BY DEF Inv, RowsTyped, RefundTable
  <1>2. /\ refund[r].status = "absent" /\ payment[p].status = "verified"
        /\ a <= payment[p].amount - Total(refund, p, CommittedStatuses)
    BY <1>1, TotalIs DEF FileRefund, RefundTotal
  <1>3. /\ refund'[r].payment = p /\ refund'[r].status = "pending" /\ refund'[r].amount = a
        /\ \A q \in Refunds \ {r} : refund'[q] = refund[q]
    BY DEF FileRefund, Inv, RowsTyped
  <1>4. \A q \in Payments : \A s : Total(refund', q, s)
          = Total(refund, q, s) + Counted(refund', q, s)[r] - Counted(refund, q, s)[r]
    BY <1>1, <1>3, TotalUpdate
  <1>5. \A q \in Payments : \A s : Total(refund, q, s) \in Nat
    BY <1>1, TotalNat
  <1>6. \A q \in Payments : Counted(refund', q, {"refunded"})[r] = 0
                            /\ Counted(refund, q, {"refunded"})[r] = 0
    BY <1>2, <1>3 DEF Counted
  <1>7. \A q \in Payments : /\ Counted(refund, q, CommittedStatuses)[r] = 0
                            /\ Counted(refund', q, CommittedStatuses)[r] = IF q = p THEN a ELSE 0
    BY <1>2, <1>3 DEF Counted, CommittedStatuses
  <1>8. payment[p].amount \in Nat
    BY Rows
  <1>9. \A q \in Payments : Total(refund', q, {"refunded"}) = Total(refund, q, {"refunded"})
    BY <1>4, <1>5, <1>6
  <1>10. \A q \in Payments \ {p} :
                Total(refund', q, CommittedStatuses) = Total(refund, q, CommittedStatuses)
    BY <1>4, <1>5, <1>7
  <1>11. Total(refund', p, CommittedStatuses) = Total(refund, p, CommittedStatuses) + a
    BY <1>4, <1>5, <1>7
  <1> QED BY <1>2, <1>3, <1>5, <1>8, <1>9, <1>10, <1>11

\* The states of the next step in terms of its tables, where no paid amount changes.
LEMMA SamePaid ==
    ASSUME Inv, Inv', MoneyInv, UNCHANGED <<payment, invoice, fee>>,
           \A q \in Payments : Total(refund', q, {"refunded"}) = Total(refund, q, {"refunded"}),
           \A q \in Payments : /\ CreditOf(over', q) = CreditOf(over, q)
                               /\ over'[q].target = over[q].target,
           \A q \in Payments :
             Total(refund', q, CommittedStatuses) + SpentOf(over', q) <= payment[q].amount
    PROVE  PayoutsBounded' /\ BooksBalance'
  <1>1. refund \in RefundTable /\ refund' \in RefundTable
    BY DEF Inv, RowsTyped, RefundTable
  <1>2. PayoutsBounded'
    BY <1>1, BoundNextIs
  <1>3. \A q \in Payments, j \in Invoices :
          HoldingOf(payment', refund', over', q, j) = HoldingOf(payment, refund, over, q, j)
    BY DEF HoldingOf
  <1>4. BooksBalance'
    BY <1>3, BooksStay DEF MoneyInv
  <1> QED BY <1>2, <1>4

\* The bound as it stands, over the tables.
LEMMA BoundNow ==
    ASSUME Inv, MoneyInv
    PROVE  \A q \in Payments :
             /\ Total(refund, q, CommittedStatuses) + SpentOf(over, q) <= payment[q].amount
             /\ Total(refund, q, CommittedStatuses) \in Nat
             /\ Total(refund, q, {"refunded"}) \in Nat
             /\ SpentOf(over, q) \in Nat /\ CreditOf(over, q) \in Nat
             /\ payment[q].amount \in Nat
  <1>1. refund \in RefundTable
    BY Rows
  <1>2. \A q \in Payments :
           Total(refund, q, CommittedStatuses) + SpentOf(over, q) <= payment[q].amount
    BY <1>1, BoundIs DEF MoneyInv
  <1>3. \A q \in Payments : /\ Total(refund, q, CommittedStatuses) \in Nat
                            /\ Total(refund, q, {"refunded"}) \in Nat
    BY <1>1, TotalNat
  <1>4. \A q \in Payments : /\ SpentOf(over, q) \in Nat /\ CreditOf(over, q) \in Nat
                            /\ payment[q].amount \in Nat
    BY Rows DEF SpentOf, CreditOf
  <1> QED BY <1>2, <1>3, <1>4

\* Requesting, approving, refusing and paying a refund.
LEMMA RefundMoney ==
    ASSUME Inv, Inv', MoneyInv, NEW r \in Refunds, RefundStep(r)
    PROVE  MoneyInv'
  <1>t. refund \in RefundTable /\ refund' \in RefundTable
    BY DEF Inv, RowsTyped, RefundTable
  <1>1. ASSUME NEW p \in Payments, NEW a \in Amounts, NEW u \in Users, RequestRefund(r, p, a, u)
        PROVE  MoneyInv'
    <2>1. /\ FileRefund(r, p, a, u, "manual") /\ a \in Nat
          /\ over[p].status \in {"absent", "refunded"}
          /\ UNCHANGED <<payment, invoice, fee, over>>
      BY <1>1, LedgerConstants DEF RequestRefund
    <2>2. /\ refund[r].status = "absent" /\ payment[p].status = "verified"
          /\ refund'[r].payment = p /\ refund'[r].status = "pending"
          /\ \A q \in Refunds \ {r} : refund'[q] = refund[q]
          /\ \A q \in Payments : Total(refund', q, {"refunded"}) = Total(refund, q, {"refunded"})
          /\ \A q \in Payments \ {p} :
                Total(refund', q, CommittedStatuses) = Total(refund, q, CommittedStatuses)
          /\ Total(refund', p, CommittedStatuses) <= payment[p].amount
      BY <2>1, FileRefundMoney
    <2>3. Links'
      BY <2>1, <2>2 DEF MoneyInv, Links, FiledOnVerified, RecordsOnVerified, Reserved
    <2>4. \A q \in Payments :
             Total(refund', q, CommittedStatuses) + SpentOf(over', q) <= payment[q].amount
      <3>1. SpentOf(over, p) = 0 /\ Total(refund', p, CommittedStatuses) \in Nat
        BY <2>1, <1>t, TotalNat DEF SpentOf
      <3> QED BY <2>1, <2>2, <3>1, BoundNow
    <2>5. PayoutsBounded' /\ BooksBalance'
      BY <2>1, <2>2, <2>4, SamePaid
    <2> QED BY <2>3, <2>5 DEF MoneyInv
  <1>2. ASSUME NEW s \in {"approved", "rejected"},
               refund[r].status \in {"pending", "approved"},
               refund' = [refund EXCEPT ![r].status = s],
               UNCHANGED <<payment, invoice, fee, over>>
        PROVE  MoneyInv'
    <2>1. /\ refund'[r].status = s /\ refund'[r].payment = refund[r].payment
          /\ refund'[r].amount = refund[r].amount
          /\ \A q \in Refunds \ {r} : refund'[q] = refund[q]
      BY <1>2, Rows DEF Inv, RowsTyped, RefundRow
    <2>2. Links'
      BY <1>2, <2>1 DEF MoneyInv, Links, FiledOnVerified, RecordsOnVerified, Reserved,
                        CommittedStatuses
    <2>3. \A q \in Payments : \A w : Total(refund', q, w)
            = Total(refund, q, w) + Counted(refund', q, w)[r] - Counted(refund, q, w)[r]
      BY <1>t, <2>1, TotalUpdate
    <2>4. \A q \in Payments : /\ Counted(refund', q, {"refunded"})[r] = 0
                              /\ Counted(refund, q, {"refunded"})[r] = 0
      BY <1>2, <2>1 DEF Counted
    <2>5. \A q \in Payments : Total(refund', q, {"refunded"}) = Total(refund, q, {"refunded"})
      BY <2>3, <2>4, BoundNow
    <2>6. \A q \in Payments : /\ Counted(refund', q, CommittedStatuses)[r] \in Nat
                              /\ Counted(refund, q, CommittedStatuses)[r] \in Nat
                              /\ Counted(refund', q, CommittedStatuses)[r]
                                   <= Counted(refund, q, CommittedStatuses)[r]
      <3>1. refund[r].amount \in Nat
        BY Rows
      <3> QED BY <1>2, <2>1, <3>1 DEF Counted, CommittedStatuses
    <2>7. \A q \in Payments :
            Total(refund', q, CommittedStatuses) + SpentOf(over', q) <= payment[q].amount
      <3> SUFFICES ASSUME NEW q \in Payments
                   PROVE  Total(refund', q, CommittedStatuses) + SpentOf(over', q)
                            <= payment[q].amount
        OBVIOUS
      <3>1. over' = over
        BY <1>2
      <3> QED BY <3>1, <2>3, <2>6, BoundNow
    <2>8. PayoutsBounded' /\ BooksBalance'
      BY <1>2, <2>5, <2>7, SamePaid
    <2> QED BY <2>2, <2>8 DEF MoneyInv
  <1>3. ASSUME NEW u \in Users, ApproveRefund(r, u) PROVE MoneyInv'
    BY <1>2, <1>3 DEF ApproveRefund
  <1>4. ASSUME RejectRefund(r) PROVE MoneyInv'
    BY <1>2, <1>4 DEF RejectRefund
  <1>5. ASSUME ProcessRefund(r) PROVE MoneyInv'
    <2> DEFINE p == refund[r].payment
               a == refund[r].amount
               i == payment[p].invoice
               f == FeeOf[i]
    <2>1. /\ refund[r].status = "approved"
          /\ a <= payment[p].amount - RefundTotal(p, {"refunded"})
          /\ refund' = [refund EXCEPT ![r].status = "refunded"]
          /\ payment' = payment
      BY <1>5, ZenonT(20) DEF ProcessRefund
    <2>2. /\ \/ invoice' = [invoice EXCEPT ![i] = ReverseInvoice(@, a)]
             \/ invoice' = [invoice EXCEPT ![i] = [ReverseInvoice(@, a) EXCEPT !.status = "cancelled"]]
          /\ \/ fee' = [fee EXCEPT ![f] = ReverseFee(@, a)]
             \/ fee' = [fee EXCEPT ![f] = [ReverseFee(@, a) EXCEPT !.status = "cancelled"]]
      BY <1>5 DEF ProcessRefund
    <2>3. over' = IF over[p].refund = r /\ over[p].status = "pending"
                  THEN [over EXCEPT ![p].status = "refunded"] ELSE over
      BY <1>5, ZenonT(20) DEF ProcessRefund
    <2>4. /\ p \in Payments /\ payment[p].status = "verified"
          /\ a \in Nat /\ i \in Invoices /\ f \in Fees
      <3>1. p \in Payments /\ payment[p].status = "verified"
        BY <2>1 DEF MoneyInv, Links, FiledOnVerified
      <3>2. i \in Invoices
        BY <3>1 DEF Inv, RowsTyped
      <3>3. a \in Nat
        BY Rows
      <3> HIDE DEF i
      <3> QED BY <3>1, <3>2, <3>3, LedgerConstants
    <2> HIDE DEF p, a, i, f
    <2>5. over[p].status \notin {"applied", "cancelled"}
      <3>1. refund[r].payment = p /\ refund[r].status \in CommittedStatuses
        BY <2>1 DEF p, CommittedStatuses
      <3> QED BY <2>4, <3>1, NoRefundOfSpent
    <2>6. /\ refund'[r].status = "refunded" /\ refund'[r].payment = p /\ refund'[r].amount = a
          /\ refund[r].payment = p /\ refund[r].amount = a
          /\ \A q \in Refunds \ {r} : refund'[q] = refund[q]
      BY <2>1, Rows DEF Inv, RowsTyped, RefundRow, p, a
    <2>7. /\ \A q \in Payments \ {p} : over'[q] = over[q]
          /\ over'[p].target = over[p].target /\ over'[p].amount = over[p].amount
          /\ \/ over'[p] = over[p]
             \/ over[p].status = "pending" /\ over'[p].status = "refunded"
      <3>1. over \in [Payments -> OverRow]
        BY DEF Inv, RowsTyped
      <3>2. CASE over' = over
        BY <3>2
      <3>3. CASE over[p].status = "pending" /\ over' = [over EXCEPT ![p].status = "refunded"]
        BY <2>4, <3>1, <3>3 DEF OverRow
      <3> QED BY <2>3, <3>2, <3>3
    <2>8. Links'
      BY <2>1, <2>6, <2>7 DEF MoneyInv, Links, FiledOnVerified, RecordsOnVerified, Reserved,
                        CommittedStatuses
    <2>9. \A q \in Payments : \A w : Total(refund', q, w)
            = Total(refund, q, w) + Counted(refund', q, w)[r] - Counted(refund, q, w)[r]
      BY <1>t, <2>6, TotalUpdate
    <2>10. \A q \in Payments : Counted(refund', q, CommittedStatuses)[r]
                                 = Counted(refund, q, CommittedStatuses)[r]
      BY <2>1, <2>6 DEF Counted, CommittedStatuses
    <2>11. \A q \in Payments :
             /\ Counted(refund', q, {"refunded"})[r] = IF q = p THEN a ELSE 0
             /\ Counted(refund, q, {"refunded"})[r] = 0
      BY <2>1, <2>6 DEF Counted
    <2>12. \A q \in Payments : Total(refund', q, CommittedStatuses)
                                 = Total(refund, q, CommittedStatuses)
      <3>1. \A q \in Payments : Counted(refund, q, CommittedStatuses)[r] \in Nat
        BY <1>t, CountedNat
      <3> QED BY <2>9, <2>10, <3>1, BoundNow
    <2>13. \A q \in Payments : Total(refund', q, {"refunded"})
                                 = Total(refund, q, {"refunded"}) + (IF q = p THEN a ELSE 0)
      BY <2>4, <2>9, <2>11, BoundNow
    <2>14. \A q \in Payments : /\ CreditOf(over', q) = CreditOf(over, q)
                               /\ over'[q].target = over[q].target
                               /\ SpentOf(over', q) = SpentOf(over, q)
      BY <2>5, <2>7 DEF CreditOf, SpentOf
    <2>15. PayoutsBounded'
      BY <1>t, <2>1, <2>12, <2>14, BoundNow, BoundNextIs
    <2>16. CreditOf(over, p) = 0 /\ CreditOf(over', p) = 0
      BY <2>5, <2>7 DEF CreditOf
    <2>17. \A q \in Payments, j \in Invoices :
             HoldingOf(payment', refund', over', q, j)
               = HoldingOf(payment, refund, over, q, j)
                   + (IF q = p /\ j = i THEN 0 - a ELSE 0) + (IF q = p /\ j = i THEN 0 ELSE 0)
      <3>1. \A q \in Payments, j \in Invoices : HoldingOf(payment, refund, over, q, j) \in Int
        BY HoldingNat, HoldingIs, Rows
      <3>2. payment[p].invoice = i
        BY DEF i
      <3>3. ASSUME NEW q \in Payments, NEW j \in Invoices, q # p
            PROVE  HoldingOf(payment', refund', over', q, j)
                     = HoldingOf(payment, refund, over, q, j)
        <4>1. Total(refund', q, {"refunded"}) = Total(refund, q, {"refunded"})
          BY <3>3, <2>13, BoundNow
        <4> QED BY <4>1, <2>1, <2>14 DEF HoldingOf
      <3>4. ASSUME NEW j \in Invoices
            PROVE  /\ HoldingOf(payment, refund, over, p, j)
                        = IF j = i THEN payment[p].amount - Total(refund, p, {"refunded"}) ELSE 0
                   /\ HoldingOf(payment', refund', over', p, j)
                        = IF j = i THEN payment[p].amount - Total(refund, p, {"refunded"}) - a
                          ELSE 0
        <4>1. Total(refund', p, {"refunded"}) = Total(refund, p, {"refunded"}) + a
          BY <2>4, <2>13
        <4>2. /\ Total(refund, p, {"refunded"}) \in Nat /\ payment[p].amount \in Nat
          BY <2>4, BoundNow
        <4>3. payment'[p] = payment[p]
          BY <2>1
        <4>4. /\ HoldingOf(payment, refund, over, p, j)
                   = (IF j = i THEN payment[p].amount - Total(refund, p, {"refunded"}) - 0 ELSE 0)
                      + (IF over[p].target = j THEN 0 ELSE 0)
              /\ HoldingOf(payment', refund', over', p, j)
                   = (IF j = i THEN payment[p].amount - Total(refund', p, {"refunded"}) - 0 ELSE 0)
                      + (IF over'[p].target = j THEN 0 ELSE 0)
          BY <2>4, <2>16, <3>2, <4>3 DEF HoldingOf
        <4> QED BY <2>4, <4>1, <4>2, <4>4
      <3> QED BY <3>1, <3>3, <3>4, <2>4, BoundNow
    <2>18. a <= invoice[i].paid /\ a <= fee[f].paid
      <3>1. Holding(p, i) = payment[p].amount - Total(refund, p, {"refunded"})
        <4>1. Holding(p, i) = HoldingOf(payment, refund, over, p, i)
          BY <1>t, <2>4, HoldingIs
        <4> QED BY <4>1, <2>4, <2>16, BoundNow DEF HoldingOf, i
      <3>2. a <= payment[p].amount - Total(refund, p, {"refunded"})
        BY <1>t, <2>1, TotalIs DEF RefundTotal
      <3>3. /\ Holding(p, i) <= invoice[i].paid /\ invoice[i].paid <= fee[f].paid
            /\ invoice[i].paid \in Nat /\ fee[f].paid \in Nat /\ Holding(p, i) \in Nat
        BY <2>4, PaidNat, HoldingNat DEF f
      <3> QED BY <2>4, <3>1, <3>2, <3>3
    <2>19. \A j \in Invoices : invoice'[j].paid
             = invoice[j].paid + (IF j = i THEN 0 - a ELSE 0) + (IF j = i THEN 0 ELSE 0)
      <3> DEFINE x == ReverseInvoice(invoice[i], a)
                 y == [x EXCEPT !.status = "cancelled"]
      <3>1. x \in LooseInvoice /\ x.paid = Above(invoice[i].paid, a)
        BY <2>4, Rows, ReverseInvoiceYields
      <3>2. invoice' = [invoice EXCEPT ![i] = x] \/ invoice' = [invoice EXCEPT ![i] = y]
        BY <2>2
      <3> HIDE DEF x
      <3>3. y.paid = x.paid
        BY <3>1, InvoicePaidKept
      <3> HIDE DEF y
      <3>4. invoice'[i].paid = Above(invoice[i].paid, a)
            /\ \A j \in Invoices \ {i} : invoice'[j] = invoice[j]
        BY <2>4, <3>1, <3>2, <3>3 DEF Inv, RowsTyped
      <3>5. Above(invoice[i].paid, a) = invoice[i].paid + (0 - a)
        BY <2>4, <2>18, Rows DEF Above
      <3> QED BY <2>4, <3>4, <3>5, Rows
    <2>20. \A g \in Fees : fee'[g].paid
             = fee[g].paid + (IF g = FeeOf[i] THEN 0 - a ELSE 0) + (IF g = FeeOf[i] THEN 0 ELSE 0)
      <3> DEFINE x == ReverseFee(fee[f], a)
                 y == [x EXCEPT !.status = "cancelled"]
      <3>1. x \in LooseFee /\ x.paid = Above(fee[f].paid, a)
        <4>1. fee[f] \in LooseFee
          BY <2>4, Rows
        <4> QED BY <2>4, <4>1, ReverseFeeYields
      <3>2. fee' = [fee EXCEPT ![f] = x] \/ fee' = [fee EXCEPT ![f] = y]
        BY <2>2
      <3> HIDE DEF x
      <3>3. y.paid = x.paid
        BY <3>1, FeePaidKept
      <3> HIDE DEF y
      <3>4. fee'[f].paid = Above(fee[f].paid, a)
            /\ \A j \in Fees \ {f} : fee'[j] = fee[j]
        BY <2>4, <3>1, <3>2, <3>3 DEF Inv, FeesTyped
      <3>5. Above(fee[f].paid, a) = fee[f].paid + (0 - a)
        BY <2>4, <2>18, Rows DEF Above
      <3>6. f = FeeOf[i]
        BY DEF f
      <3> QED BY <2>4, <3>4, <3>5, <3>6, Rows
    <2>21. BooksBalance'
      <3>1. 0 - a \in Int /\ 0 \in Int
        BY <2>4
      <3> QED BY <2>4, <2>17, <2>19, <2>20, <3>1, BooksMove DEF MoneyInv
    <2> QED BY <2>8, <2>15, <2>21 DEF MoneyInv
  <1> QED BY <1>1, <1>3, <1>4, <1>5 DEF RefundStep

-----------------------------------------------------------------------------
(* The books: overpayments *)

\* An overpayment that may be resolved was paid back by nothing: no refund of its
\* payment counts, and its credit is still on the invoice it was paid on.
LEMMA ResolvableIsWhole ==
    ASSUME Inv, MoneyInv, NEW p \in Payments, Resolvable(p)
    PROVE  /\ payment[p].status = "verified" /\ over[p].amount <= payment[p].amount
           /\ payment[p].invoice \in Invoices /\ over[p].target = Nil
           /\ \A r \in Refunds : refund[r].payment = p => refund[r].status \notin CommittedStatuses
           /\ Total(refund, p, CommittedStatuses) = 0 /\ Total(refund, p, {"refunded"}) = 0
  <1>1. over[p].status = "pending"
    BY DEF Resolvable
  <1>2. /\ payment[p].status = "verified" /\ over[p].amount <= payment[p].amount
        /\ over[p].target = Nil
    BY <1>1 DEF MoneyInv, Links, RecordsOnVerified
  <1>3. payment[p].invoice \in Invoices
    BY <1>2 DEF Inv, RowsTyped
  <1>4. ASSUME NEW r \in Refunds, refund[r].payment = p, refund[r].status \in CommittedStatuses
        PROVE  FALSE
    <2>1. over[p].refund = r
      BY <1>1, <1>4 DEF MoneyInv, Links, Reserved
    <2>2. refund[r].status = "refunded"
      <3>1. r # Nil
        BY LedgerConstants
      <3> QED BY <1>4, <2>1, <3>1 DEF Resolvable, CommittedStatuses
    <2> QED BY <1>1, <2>1, <2>2 DEF Inv, OverpaymentSettledOnce
  <1>5. Total(refund, p, CommittedStatuses) = 0 /\ Total(refund, p, {"refunded"}) = 0
    <2>1. \A r \in Refunds : refund[r].payment = p => refund[r].status \notin {"refunded"}
      BY <1>4 DEF CommittedStatuses
    <2> QED BY <1>4, <2>1, Rows, TotalZero
  <1> QED BY <1>2, <1>3, <1>4, <1>5

\* refund_overpayment: the reserved refund takes the record's place.
LEMMA RefundOverpaymentMoney ==
    ASSUME Inv, Inv', MoneyInv, NEW p \in Payments, NEW r \in Refunds, NEW u \in Users,
           RefundOverpayment(p, r, u)
    PROVE  MoneyInv'
  <1>1. /\ Resolvable(p) /\ over[p].status = "pending"
        /\ FileRefund(r, p, over[p].amount, u, "overpayment")
        /\ over' = [over EXCEPT ![p] = [@ EXCEPT !.refund = r]]
        /\ UNCHANGED <<payment, invoice, fee>>
    BY DEF RefundOverpayment, Resolvable
  <1>2. /\ refund[r].status = "absent" /\ payment[p].status = "verified"
        /\ refund'[r].payment = p /\ refund'[r].status = "pending"
        /\ \A q \in Refunds \ {r} : refund'[q] = refund[q]
        /\ \A q \in Payments : Total(refund', q, {"refunded"}) = Total(refund, q, {"refunded"})
        /\ \A q \in Payments \ {p} :
              Total(refund', q, CommittedStatuses) = Total(refund, q, CommittedStatuses)
        /\ Total(refund', p, CommittedStatuses) <= payment[p].amount
    BY <1>1, Rows, FileRefundMoney
  <1>3. /\ over'[p].status = "pending" /\ over'[p].refund = r
        /\ over'[p].amount = over[p].amount /\ over'[p].target = over[p].target
        /\ \A q \in Payments \ {p} : over'[q] = over[q]
    BY <1>1, Rows DEF Inv, RowsTyped, OverRow
  <1>4. FiledOnVerified' /\ RecordsOnVerified'
    BY <1>1, <1>2, <1>3 DEF MoneyInv, Links, FiledOnVerified, RecordsOnVerified
  <1>5. Reserved'
    <2>1. \A q \in Refunds : refund[q].payment = p => refund[q].status \notin CommittedStatuses
      BY <1>1, ResolvableIsWhole
    <2> QED BY <2>1, <1>2, <1>3 DEF MoneyInv, Links, Reserved
  <1>6. \A q \in Payments : /\ CreditOf(over', q) = CreditOf(over, q)
                            /\ over'[q].target = over[q].target
                            /\ SpentOf(over', q) = SpentOf(over, q)
    BY <1>1, <1>3 DEF CreditOf, SpentOf
  <1>7. \A q \in Payments :
           Total(refund', q, CommittedStatuses) + SpentOf(over', q) <= payment[q].amount
    <2>1. SpentOf(over', p) = 0 /\ Total(refund', p, CommittedStatuses) \in Nat
      <3>1. refund' \in RefundTable
        BY DEF Inv, RowsTyped, RefundTable
      <3> QED BY <3>1, <1>3, TotalNat DEF SpentOf
    <2> QED BY <1>2, <1>6, <2>1, BoundNow
  <1>8. PayoutsBounded' /\ BooksBalance'
    BY <1>1, <1>2, <1>6, <1>7, SamePaid
  <1> QED BY <1>4, <1>5, <1>8 DEF MoneyInv, Links

\* write_off: the credit stays where it is and can no longer be paid out.
LEMMA WriteOffMoney ==
    ASSUME Inv, Inv', MoneyInv, NEW p \in Payments, WriteOff(p)
    PROVE  MoneyInv'
  <1>1. /\ Resolvable(p) /\ over[p].status = "pending"
        /\ over' = [over EXCEPT ![p] = [@ EXCEPT !.status = "cancelled"]]
        /\ UNCHANGED <<payment, invoice, fee, refund>>
    BY DEF WriteOff, Resolvable
  <1>2. /\ over'[p].status = "cancelled" /\ over'[p].refund = over[p].refund
        /\ over'[p].amount = over[p].amount /\ over'[p].target = over[p].target
        /\ \A q \in Payments \ {p} : over'[q] = over[q]
    BY <1>1, Rows DEF Inv, RowsTyped, OverRow
  <1>3. /\ over[p].amount <= payment[p].amount
        /\ Total(refund, p, CommittedStatuses) = 0
    BY <1>1, ResolvableIsWhole
  <1>4. Links'
    BY <1>1, <1>2 DEF MoneyInv, Links, FiledOnVerified, RecordsOnVerified, Reserved
  <1>5. \A q \in Payments :
           Total(refund', q, CommittedStatuses) + SpentOf(over', q) <= payment[q].amount
    <2>1. SpentOf(over', p) = over[p].amount /\ over[p].amount \in Nat
      BY <1>2, Rows DEF SpentOf
    <2>2. \A q \in Payments \ {p} : SpentOf(over', q) = SpentOf(over, q)
      BY <1>2 DEF SpentOf
    <2>3. \A q \in Payments :
             Total(refund', q, CommittedStatuses) = Total(refund, q, CommittedStatuses)
      BY <1>1
    <2>4. Total(refund', p, CommittedStatuses) + SpentOf(over', p) <= payment[p].amount
      BY <1>3, <2>1, <2>3
    <2> QED BY <2>2, <2>3, <2>4, BoundNow
  <1>6. \A q \in Payments : /\ CreditOf(over', q) = CreditOf(over, q)
                            /\ over'[q].target = over[q].target
    BY <1>1, <1>2 DEF CreditOf
  <1>7. PayoutsBounded' /\ BooksBalance'
    BY <1>1, <1>5, <1>6, SamePaid
  <1> QED BY <1>4, <1>7 DEF MoneyInv

\* What apply_to_invoice does to the paid amounts: the credit leaves one invoice and
\* one fee, and reaches another invoice and its fee.
LEMMA ApplyMoves ==
    ASSUME Inv, NEW p \in Payments, NEW target \in Invoices, ApplyOverpayment(p, target),
           NEW source \in Invoices, payment[p].invoice = source
    PROVE  /\ \A j \in Invoices : invoice'[j].paid = invoice[j].paid
                + (IF j = source THEN 0 - over[p].amount ELSE 0)
                + (IF j = target THEN over[p].amount ELSE 0)
           /\ \A f \in Fees : fee'[f].paid = fee[f].paid
                + (IF f = FeeOf[source] THEN 0 - over[p].amount ELSE 0)
                + (IF f = FeeOf[target] THEN over[p].amount ELSE 0)
  <1> DEFINE a == over[p].amount
             from == FeeOf[source]
             to == FeeOf[target]
             taken == [invoice EXCEPT ![source] = CreditLeavesInvoice(@, a)]
  <1>1. a \in Int /\ from \in Fees /\ to \in Fees
    BY Rows, LedgerConstants
  <1>2. /\ invoice' = [taken EXCEPT ![target] = PayInvoice(@, a)]
        /\ fee' = IF from = to
                  THEN [fee EXCEPT ![to] = CreditReachesFee(@, 0)]
                  ELSE [fee EXCEPT ![from] = CreditLeavesFee(@, a),
                                   ![to] = CreditReachesFee(@, a)]
    BY DEF ApplyOverpayment
  <1> HIDE DEF a, from, to
  <1>3. /\ taken \in [Invoices -> LooseInvoice]
        /\ \A j \in Invoices : taken[j].paid = invoice[j].paid + (IF j = source THEN 0 - a ELSE 0)
    <2>1. /\ CreditLeavesInvoice(invoice[source], a) \in LooseInvoice
          /\ CreditLeavesInvoice(invoice[source], a).paid = invoice[source].paid - a
      BY <1>1, Rows, CreditLeavesInvoiceYields
    <2> QED BY <1>1, <2>1, Rows DEF Inv, RowsTyped
  <1>4. \A j \in Invoices : invoice'[j].paid = invoice[j].paid
           + (IF j = source THEN 0 - a ELSE 0) + (IF j = target THEN a ELSE 0)
    <2> HIDE DEF taken
    <2>1. PayInvoice(taken[target], a).paid = taken[target].paid + a
      BY <1>1, <1>3, PayInvoiceYields
    <2>2. invoice'[target].paid = taken[target].paid + a
          /\ \A j \in Invoices \ {target} : invoice'[j] = taken[j]
      BY <1>2, <1>3, <2>1
    <2> QED BY <1>1, <1>3, <2>2, Rows
  <1>5. \A f \in Fees : fee[f] \in LooseFee /\ fee[f].paid \in Int
    BY Rows
  <1>6. \A f \in Fees : fee'[f].paid = fee[f].paid
           + (IF f = from THEN 0 - a ELSE 0) + (IF f = to THEN a ELSE 0)
    <2>1. CASE from = to
      <3>1. CreditReachesFee(fee[to], 0).paid = fee[to].paid
        <4>1. 0 \in Int /\ fee[to] \in LooseFee
          BY <1>1, <1>5
        <4>2. CreditReachesFee(fee[to], 0).paid = fee[to].paid + 0
          BY <4>1, CreditReachesFeeYields
        <4> QED BY <4>2, <1>1, <1>5
      <3>2. fee' = [fee EXCEPT ![to] = CreditReachesFee(@, 0)]
        BY <1>2, <2>1
      <3>3. \A f \in Fees : fee'[f].paid = fee[f].paid
        BY <3>1, <3>2, <1>1 DEF Inv, FeesTyped
      <3> QED BY <2>1, <3>3, <1>1, <1>5
    <2>2. CASE from # to
      <3>1. fee[from] \in LooseFee /\ fee[to] \in LooseFee
        BY <1>1, <1>5
      <3>2. CreditLeavesFee(fee[from], a).paid = fee[from].paid - a
        BY <1>1, <3>1, CreditLeavesFeeYields
      <3>3. CreditReachesFee(fee[to], a).paid = fee[to].paid + a
        BY <1>1, <3>1, CreditReachesFeeYields
      <3>4. /\ fee'[from] = CreditLeavesFee(fee[from], a)
            /\ fee'[to] = CreditReachesFee(fee[to], a)
            /\ \A f \in Fees \ {from, to} : fee'[f] = fee[f]
        BY <1>1, <1>2, <2>2 DEF Inv, FeesTyped
      <3> QED BY <1>1, <1>5, <2>2, <3>2, <3>3, <3>4
    <2> QED BY <2>1, <2>2
  <1> QED BY <1>4, <1>6 DEF a, from, to

\* apply_to_invoice.
LEMMA ApplyMoney ==
    ASSUME Inv, Inv', MoneyInv, NEW p \in Payments, NEW target \in Invoices,
           ApplyOverpayment(p, target)
    PROVE  MoneyInv'
  <1> DEFINE a == over[p].amount
             source == payment[p].invoice
  <1>1. /\ Resolvable(p) /\ over[p].status = "pending"
        /\ over' = [over EXCEPT ![p] = [@ EXCEPT !.status = "applied", !.target = target]]
        /\ UNCHANGED <<payment, refund>>
    BY DEF ApplyOverpayment, Resolvable
  <1>2. /\ payment[p].status = "verified" /\ a <= payment[p].amount
        /\ source \in Invoices /\ over[p].target = Nil
        /\ Total(refund, p, CommittedStatuses) = 0 /\ Total(refund, p, {"refunded"}) = 0
    BY <1>1, ResolvableIsWhole
  <1>3. a \in Nat /\ payment[p].amount \in Nat /\ Nil \notin Invoices
    BY Rows, LedgerConstants
  <1>4. /\ over'[p].status = "applied" /\ over'[p].refund = over[p].refund
        /\ over'[p].amount = a /\ over'[p].target = target
        /\ \A q \in Payments \ {p} : over'[q] = over[q]
    BY <1>1, Rows DEF Inv, RowsTyped, OverRow
  <1>5. /\ \A j \in Invoices : invoice'[j].paid = invoice[j].paid
             + (IF j = source THEN 0 - a ELSE 0) + (IF j = target THEN a ELSE 0)
        /\ \A f \in Fees : fee'[f].paid = fee[f].paid
             + (IF f = FeeOf[source] THEN 0 - a ELSE 0) + (IF f = FeeOf[target] THEN a ELSE 0)
    BY <1>2, ApplyMoves
  <1>6. payment[p].invoice = source /\ over[p].amount = a
    OBVIOUS
  <1> HIDE DEF a, source
  <1>7. Links'
    <2>1. target # Nil
      BY <1>3
    <2> QED BY <1>1, <1>2, <1>4, <2>1, <1>6
            DEF MoneyInv, Links, FiledOnVerified, RecordsOnVerified, Reserved
  <1>8. PayoutsBounded'
    <2>1. SpentOf(over', p) = a
      BY <1>4 DEF SpentOf
    <2>2. \A q \in Payments \ {p} : SpentOf(over', q) = SpentOf(over, q)
      BY <1>4 DEF SpentOf
    <2>5. payment' = payment /\ \A q \in Payments :
             Total(refund', q, CommittedStatuses) = Total(refund, q, CommittedStatuses)
      BY <1>1
    <2>6. Total(refund', p, CommittedStatuses) + SpentOf(over', p) <= payment[p].amount
      BY <1>2, <1>3, <2>1, <2>5
    <2>3. \A q \in Payments :
             Total(refund', q, CommittedStatuses) + SpentOf(over', q) <= payment'[q].amount
      BY <2>2, <2>5, <2>6, BoundNow
    <2>4. refund' \in RefundTable
      BY DEF Inv, RowsTyped, RefundTable
    <2> QED BY <2>3, <2>4, BoundNextIs
  <1>9. \A q \in Payments, j \in Invoices :
          HoldingOf(payment', refund', over', q, j)
            = HoldingOf(payment, refund, over, q, j)
                + (IF q = p /\ j = source THEN 0 - a ELSE 0) + (IF q = p /\ j = target THEN a ELSE 0)
    <2>1. \A q \in Payments, j \in Invoices : HoldingOf(payment, refund, over, q, j) \in Int
      BY HoldingNat, HoldingIs, Rows
    <2>2. \A q \in Payments, j \in Invoices : q # p =>
            HoldingOf(payment', refund', over', q, j) = HoldingOf(payment, refund, over, q, j)
      BY <1>1, <1>4 DEF HoldingOf, CreditOf
    <2>3. CreditOf(over, p) = 0 /\ CreditOf(over', p) = a
      BY <1>1, <1>4 DEF CreditOf
    <2>4. ASSUME NEW j \in Invoices
          PROVE  /\ HoldingOf(payment, refund, over, p, j)
                      = IF j = source THEN payment[p].amount ELSE 0
                 /\ HoldingOf(payment', refund', over', p, j)
                      = (IF j = source THEN payment[p].amount - a ELSE 0)
                        + (IF target = j THEN a ELSE 0)
      <3>1. HoldingOf(payment, refund, over, p, j)
              = (IF j = source THEN payment[p].amount - 0 - 0 ELSE 0)
                 + (IF over[p].target = j THEN 0 ELSE 0)
        BY <1>2, <1>6, <2>3 DEF HoldingOf
      <3>2. HoldingOf(payment', refund', over', p, j)
              = (IF j = source THEN payment[p].amount - 0 - a ELSE 0)
                 + (IF target = j THEN a ELSE 0)
        BY <1>1, <1>2, <1>4, <1>6, <2>3 DEF HoldingOf
      <3> QED BY <3>1, <3>2, <1>3
    <2> QED BY <1>3, <2>1, <2>2, <2>4
  <1>10. BooksBalance'
    <2> DEFINE d == 0 - a
    <2>1. d \in Int /\ a \in Int /\ source \in Invoices /\ BooksBalance
      BY <1>2, <1>3 DEF MoneyInv
    <2>2. \A q \in Payments, j \in Invoices :
            HoldingOf(payment', refund', over', q, j)
              = HoldingOf(payment, refund, over, q, j)
                  + (IF q = p /\ j = source THEN d ELSE 0) + (IF q = p /\ j = target THEN a ELSE 0)
      BY <1>9
    <2>3. \A j \in Invoices : invoice'[j].paid = invoice[j].paid
            + (IF j = source THEN d ELSE 0) + (IF j = target THEN a ELSE 0)
      BY <1>5
    <2>4. \A f \in Fees : fee'[f].paid = fee[f].paid
            + (IF f = FeeOf[source] THEN d ELSE 0) + (IF f = FeeOf[target] THEN a ELSE 0)
      BY <1>5
    <2> HIDE DEF d
    <2> QED BY <2>1, <2>2, <2>3, <2>4, BooksMove
  <1> QED BY <1>7, <1>8, <1>10 DEF MoneyInv

\* Every step preserves the books.
LEMMA StepMoney == Inv /\ Inv' /\ MoneyInv /\ [Next]_vars => MoneyInv'
  <1> SUFFICES ASSUME Inv, Inv', MoneyInv, [Next]_vars PROVE MoneyInv'
    OBVIOUS
  <1>1. CASE UNCHANGED vars
    <2>1. Quiet
      BY <1>1 DEF vars, Quiet
    <2> QED BY <2>1, QuietMoney
  <1>2. ASSUME NEW i \in Invoices, InvoiceStep(i) PROVE MoneyInv'
    BY <1>2, InvoiceQuiet, QuietMoney
  <1>3. ASSUME NEW p \in Payments, PaymentStep(p) PROVE MoneyInv'
    BY <1>3, PaymentMoney
  <1>4. ASSUME NEW p \in Payments, OverpaymentStep(p) PROVE MoneyInv'
    BY <1>4, RefundOverpaymentMoney, ApplyMoney, WriteOffMoney DEF OverpaymentStep
  <1>5. ASSUME NEW r \in Refunds, RefundStep(r) PROVE MoneyInv'
    BY <1>5, RefundMoney
  <1>6. ASSUME NEW f \in Fees, FeeStep(f) PROVE MoneyInv'
    BY <1>6, FeeQuiet, QuietMoney
  <1>7. ASSUME OverdueScan \/ OverdueWrite \/ Recalculate PROVE MoneyInv'
    BY <1>7, JobQuiet, QuietMoney
  <1> QED BY <1>1, <1>2, <1>3, <1>4, <1>5, <1>6, <1>7 DEF Next

\* In every reachable state the books balance and no payment is paid out twice.
THEOREM MoneyInvariance == Spec => []MoneyInv
  <1>1. Inv /\ MoneyInv /\ [Next]_vars /\ Inv' => MoneyInv'
    BY StepMoney
  <1> QED BY InitMoney, Invariance, <1>1, PTL DEF Spec

\* Every paid amount is what the payments on record account for, whatever the staff do.
THEOREM BooksAlwaysBalance == Spec => []BooksBalance
  <1>1. MoneyInv => BooksBalance
    BY DEF MoneyInv
  <1> QED BY <1>1, MoneyInvariance, PTL

\* Of no payment is more paid out, credited or written off than was received.
THEOREM PayoutsAreBounded == Spec => []PayoutsBounded
  <1>1. MoneyInv => PayoutsBounded
    BY DEF MoneyInv
  <1> QED BY <1>1, MoneyInvariance, PTL

-----------------------------------------------------------------------------
(* The books: what is cancelled holds no money *)

\* No operation that moves money cancels what it is posted on.
LEMMA PostedAlive ==
    /\ \A t \in LooseInvoice, a \in Int :
         t.status # "cancelled" => PayInvoice(t, a).status # "cancelled"
    /\ \A t \in LooseFee, a \in Int :
         t.status # "cancelled" => /\ PayFee(t, a).status # "cancelled"
                                   /\ CreditReachesFee(t, a).status # "cancelled"
    /\ \A t \in LooseFee, a \in Int : /\ ReverseFee(t, a).status # "cancelled"
                                      /\ CreditLeavesFee(t, a).status # "cancelled"
  <1>1. ASSUME NEW t \in LooseInvoice, NEW a \in Int, t.status # "cancelled"
        PROVE  PayInvoice(t, a).status # "cancelled"
    <2> DEFINE s == CASE t.paid + a >= Due(t) -> "paid"
                      [] t.paid + a < Due(t) /\ t.paid + a > 0 -> "partial"
                      [] OTHER -> t.status
    <2>1. s # "cancelled"
      BY <1>1
    <2>2. PayInvoice(t, a) = [t EXCEPT !.paid = t.paid + a, !.status = s]
      BY DEF PayInvoice
    <2> HIDE DEF s
    <2> QED BY <2>1, <2>2 DEF LooseInvoice
  <1>2. ASSUME NEW t \in LooseFee, NEW a \in Int, t.status # "cancelled"
        PROVE  /\ PayFee(t, a).status # "cancelled"
               /\ CreditReachesFee(t, a).status # "cancelled"
    <2>1. PICK after \in LooseFee : /\ after.status = t.status
                                    /\ PayFee(t, a) = [after EXCEPT !.status = PostedFeeStatus(after)]
      BY PayFeeYields
    <2>2. PICK b \in LooseFee :
             /\ b.status = t.status
             /\ CreditReachesFee(t, a) = [b EXCEPT !.status = CreditedFeeStatus(b)]
      BY CreditReachesFeeYields
    <2>3. PostedFeeStatus(after) # "cancelled" /\ CreditedFeeStatus(b) # "cancelled"
      BY <1>2, <2>1, <2>2 DEF PostedFeeStatus, CreditedFeeStatus
    <2> QED BY <2>1, <2>2, <2>3, FeePaidKept
  <1>3. ASSUME NEW t \in LooseFee, NEW a \in Int
        PROVE  /\ ReverseFee(t, a).status # "cancelled"
               /\ CreditLeavesFee(t, a).status # "cancelled"
    <2>1. PICK after \in LooseFee : ReverseFee(t, a) = [after EXCEPT !.status = SettledFeeStatus(after)]
      BY ReverseFeeYields
    <2>2. PICK b \in LooseFee : CreditLeavesFee(t, a) = [b EXCEPT !.status = SettledFeeStatus(b)]
      BY CreditLeavesFeeYields
    <2>3. SettledFeeStatus(after) # "cancelled" /\ SettledFeeStatus(b) # "cancelled"
      BY DEF SettledFeeStatus
    <2> QED BY <2>1, <2>2, <2>3, FeePaidKept
  <1> QED BY <1>1, <1>2, <1>3

\* Where no money moves, only what holds none is cancelled.
LEMMA QuietCancelled ==
    ASSUME Inv, MoneyInv, CancelledHoldsNoMoney, Quiet
    PROVE  CancelledHoldsNoMoney'
  <1>1. \A i \in Invoices : FeeOf[i] \in Fees /\ invoice[i].paid \in Nat
                            /\ invoice[i].paid <= fee[FeeOf[i]].paid
    BY PaidNat, LedgerConstants
  <1>2. \A f \in Fees : PendingPayments(f)' = PendingPayments(f)
    BY DEF Quiet, PendingPayments
  <1>3. ASSUME NEW i \in Invoices, invoice'[i].status = "cancelled" PROVE invoice'[i].paid = 0
    BY <1>1, <1>3 DEF Quiet, CancelledHoldsNoMoney
  <1>4. ASSUME NEW f \in Fees, fee'[f].status = "cancelled"
        PROVE  fee'[f].paid = 0 /\ PendingPayments(f)' = {}
    BY <1>2, <1>4 DEF Quiet, CancelledHoldsNoMoney
  <1> QED BY <1>3, <1>4 DEF CancelledHoldsNoMoney

\* A payment is recorded and verified for what is not cancelled.
LEMMA PaymentCancelled ==
    ASSUME Inv, MoneyInv, CancelledHoldsNoMoney, NEW p \in Payments, PaymentStep(p)
    PROVE  CancelledHoldsNoMoney'
  <1>1. ASSUME NEW i \in Invoices, NEW a \in Amounts, NEW u \in Users,
               RecordManualPayment(p, i, a, u)
        PROVE  CancelledHoldsNoMoney'
    <2>1. /\ fee[FeeOf[i]].status # "cancelled" /\ UNCHANGED <<fee, invoice>>
          /\ payment' = [payment EXCEPT ![p] =
                     [invoice |-> i, amount |-> a, maker |-> u, status |-> "pending"]]
      BY <1>1 DEF RecordManualPayment, AcceptsMoney, PayableTarget
    <2>2. payment'[p].invoice = i /\ \A q \in Payments \ {p} : payment'[q] = payment[q]
      BY <2>1 DEF Inv, RowsTyped
    <2> QED BY <2>1, <2>2 DEF CancelledHoldsNoMoney, PendingPayments
  <1>2. ASSUME NEW u \in Users, RejectPayment(p, u) PROVE CancelledHoldsNoMoney'
    <2>1. /\ UNCHANGED <<fee, invoice>> /\ payment'[p].status = "rejected"
          /\ \A q \in Payments \ {p} : payment'[q] = payment[q]
      BY <1>2, Rows DEF RejectPayment, Inv, RowsTyped, PaymentRow
    <2> QED BY <2>1 DEF CancelledHoldsNoMoney, PendingPayments
  <1>3. ASSUME NEW u \in Users, VerifyPayment(p, u) PROVE CancelledHoldsNoMoney'
    <2> DEFINE i == payment[p].invoice
               a == payment[p].amount
    <2>1. /\ invoice' = [invoice EXCEPT ![i] = PayInvoice(@, a)]
          /\ fee' = [fee EXCEPT ![FeeOf[i]] = PayFee(@, a)]
          /\ payment' = [payment EXCEPT ![p] = [@ EXCEPT !.status = "verified"]]
          /\ fee[FeeOf[i]].status # "cancelled" /\ invoice[i].status # "cancelled"
          /\ payment[p].status = "pending"
      BY <1>3 DEF VerifyPayment, AcceptsMoney, PayableTarget
    <2>2. /\ payment'[p].status = "verified"
          /\ \A q \in Payments \ {p} : payment'[q] = payment[q]
      BY <2>1, Rows DEF Inv, RowsTyped, PaymentRow
    <2>3. i \in Invoices /\ a \in Int
      BY <2>1, Rows DEF Inv, RowsTyped
    <2> HIDE DEF i, a
    <2>4. FeeOf[i] \in Fees
      BY <2>3, LedgerConstants
    <2>5. /\ PayInvoice(invoice[i], a).status # "cancelled"
          /\ PayFee(fee[FeeOf[i]], a).status # "cancelled"
      BY <2>1, <2>3, <2>4, Rows, PostedAlive
    <2>6. /\ invoice'[i].status # "cancelled" /\ \A j \in Invoices \ {i} : invoice'[j] = invoice[j]
          /\ fee'[FeeOf[i]].status # "cancelled"
          /\ \A f \in Fees \ {FeeOf[i]} : fee'[f] = fee[f]
      BY <2>1, <2>3, <2>4, <2>5 DEF Inv, RowsTyped, FeesTyped
    <2> QED BY <2>2, <2>6 DEF CancelledHoldsNoMoney, PendingPayments
  <1> QED BY <1>1, <1>2, <1>3 DEF PaymentStep

\* process_refund leaves a dead fee dead, and empty.
LEMMA RefundCancelled ==
    ASSUME Inv, MoneyInv, CancelledHoldsNoMoney, NEW r \in Refunds, RefundStep(r)
    PROVE  CancelledHoldsNoMoney'
  <1>1. ASSUME UNCHANGED <<fee, invoice, payment>> PROVE CancelledHoldsNoMoney'
    BY <1>1 DEF CancelledHoldsNoMoney, PendingPayments
  <1>2. ASSUME ProcessRefund(r) PROVE CancelledHoldsNoMoney'
    <2> DEFINE p == refund[r].payment
               a == refund[r].amount
               i == payment[p].invoice
               f == FeeOf[i]
               x == ReverseInvoice(invoice[i], a)
               y == ReverseFee(fee[f], a)
    <2>1. /\ refund[r].status = "approved" /\ payment' = payment
          /\ invoice' = [invoice EXCEPT ![i] =
                IF fee[f].status = "cancelled" THEN [x EXCEPT !.status = "cancelled"] ELSE x]
          /\ fee' = [fee EXCEPT ![f] =
                IF fee[f].status = "cancelled" THEN [y EXCEPT !.status = "cancelled"] ELSE y]
      BY <1>2 DEF ProcessRefund
    <2>2. a \in Nat /\ p \in Payments /\ payment[p].status = "verified"
      BY <2>1, Rows DEF MoneyInv, Links, FiledOnVerified
    <2>3. i \in Invoices
      BY <2>2 DEF Inv, RowsTyped
    <2> HIDE DEF a, p
    <2>4. f \in Fees
      <3> HIDE DEF i
      <3> QED BY <2>3, LedgerConstants
    <2> HIDE DEF i
    <2>5. invoice[i].paid \in Nat /\ fee[f].paid \in Nat /\ invoice[i].paid <= fee[f].paid
      BY <2>3, <2>4, PaidNat
    <2>6. x \in LooseInvoice /\ x.paid = Above(invoice[i].paid, a)
      BY <2>2, <2>3, Rows, ReverseInvoiceYields
    <2>7. y \in LooseFee /\ y.paid = Above(fee[f].paid, a)
      <3>1. fee[f] \in LooseFee /\ a \in Int
        BY <2>2, <2>4, Rows
      <3> QED BY <3>1, ReverseFeeYields
    <2>8. y.status # "cancelled"
      <3>1. fee[f] \in LooseFee /\ a \in Int
        BY <2>2, <2>4, Rows
      <3> QED BY <3>1, PostedAlive
    <2>9. x.status = "cancelled" => x.paid = 0
      <3> DEFINE s == CASE invoice[i].paid <= a -> "issued"
                        [] invoice[i].paid > a /\ invoice[i].paid - a < invoice[i].amount -> "partial"
                        [] OTHER -> invoice[i].status
      <3>1. invoice[i].status = "cancelled" => s # "cancelled"
        BY <2>2, <2>3, <2>5 DEF CancelledHoldsNoMoney
      <3>2. invoice[i].status # "cancelled" => s # "cancelled"
        OBVIOUS
      <3>3. x = [invoice[i] EXCEPT !.paid = Above(invoice[i].paid, a), !.status = s]
        BY DEF ReverseInvoice
      <3> HIDE DEF s, x
      <3>4. x.status = s
        BY <2>3, <3>3, Rows DEF LooseInvoice
      <3> QED BY <3>1, <3>2, <3>4
    <2>10. fee[f].status = "cancelled" => x.paid = 0 /\ y.paid = 0
      BY <2>2, <2>4, <2>5, <2>6, <2>7 DEF CancelledHoldsNoMoney, Above
    <2> HIDE DEF x, y
    <2>11. /\ [x EXCEPT !.status = "cancelled"].paid = x.paid
           /\ [y EXCEPT !.status = "cancelled"].paid = y.paid
      BY <2>6, <2>7, InvoicePaidKept, FeePaidKept
    <2>12. /\ invoice'[i].status = "cancelled" => invoice'[i].paid = 0
           /\ \A j \in Invoices \ {i} : invoice'[j] = invoice[j]
      BY <2>1, <2>3, <2>9, <2>10, <2>11 DEF Inv, RowsTyped
    <2>13. /\ fee'[f].status = "cancelled" => fee'[f].paid = 0 /\ fee[f].status = "cancelled"
           /\ \A g \in Fees \ {f} : fee'[g] = fee[g]
      BY <2>1, <2>4, <2>8, <2>10, <2>11 DEF Inv, FeesTyped
    <2> QED BY <2>1, <2>12, <2>13 DEF CancelledHoldsNoMoney, PendingPayments
  <1>3. CASE \E p \in Payments, a \in Amounts, u \in Users : RequestRefund(r, p, a, u)
    BY <1>1, <1>3 DEF RequestRefund
  <1>4. CASE \/ \E u \in Users : ApproveRefund(r, u)
             \/ RejectRefund(r)
    BY <1>1, <1>4 DEF ApproveRefund, RejectRefund
  <1> QED BY <1>2, <1>3, <1>4 DEF RefundStep

\* A credit reaches only what is not cancelled.
LEMMA OverpaymentCancelled ==
    ASSUME Inv, MoneyInv, CancelledHoldsNoMoney, NEW p \in Payments, OverpaymentStep(p)
    PROVE  CancelledHoldsNoMoney'
  <1>1. ASSUME UNCHANGED <<fee, invoice, payment>> PROVE CancelledHoldsNoMoney'
    BY <1>1 DEF CancelledHoldsNoMoney, PendingPayments
  <1>2. CASE (\E r \in Refunds, u \in Users : RefundOverpayment(p, r, u)) \/ WriteOff(p)
    BY <1>1, <1>2 DEF RefundOverpayment, WriteOff
  <1>3. ASSUME NEW target \in Invoices, ApplyOverpayment(p, target)
        PROVE  CancelledHoldsNoMoney'
    <2> DEFINE a == over[p].amount
               source == payment[p].invoice
               from == FeeOf[source]
               to == FeeOf[target]
               taken == [invoice EXCEPT ![source] = CreditLeavesInvoice(@, a)]
    <2>1. /\ Resolvable(p) /\ payment' = payment
          /\ invoice[target].status # "cancelled" /\ fee[to].status # "cancelled"
          /\ invoice' = [taken EXCEPT ![target] = PayInvoice(@, a)]
          /\ fee' = IF from = to
                    THEN [fee EXCEPT ![to] = CreditReachesFee(@, 0)]
                    ELSE [fee EXCEPT ![from] = CreditLeavesFee(@, a),
                                     ![to] = CreditReachesFee(@, a)]
      BY <1>3 DEF ApplyOverpayment, AcceptsMoney, PayableTarget
    <2>2. source \in Invoices /\ a \in Int
      BY <2>1, Rows, ResolvableIsWhole
    <2> HIDE DEF a, source
    <2>3. from \in Fees /\ to \in Fees
      BY <2>2, LedgerConstants
    <2> HIDE DEF from, to
    <2>4. /\ taken \in [Invoices -> LooseInvoice]
          /\ taken[source].status # "cancelled"
          /\ \A j \in Invoices \ {source} : taken[j] = invoice[j]
      <3>1. /\ CreditLeavesInvoice(invoice[source], a) \in LooseInvoice
            /\ CreditLeavesInvoice(invoice[source], a).status # "cancelled"
        BY <2>2, Rows, CreditLeavesInvoiceYields
      <3> QED BY <2>2, <3>1 DEF Inv, RowsTyped
    <2> HIDE DEF taken
    <2>5. PayInvoice(taken[target], a).status # "cancelled"
      <3>1. taken[target].status # "cancelled"
        BY <2>1, <2>4
      <3> QED BY <2>2, <2>4, <3>1, PostedAlive
    <2>6. \A j \in Invoices : invoice'[j] = invoice[j] \/ invoice'[j].status # "cancelled"
      <3>1. \A j \in Invoices : invoice'[j] = IF j = target THEN PayInvoice(taken[target], a)
                                                            ELSE taken[j]
        BY <2>1, <2>4
      <3> QED BY <2>4, <2>5, <3>1
    <2>7. \A f \in Fees : fee'[f] = fee[f] \/ fee'[f].status # "cancelled"
      <3>1. fee[from] \in LooseFee /\ fee[to] \in LooseFee /\ 0 \in Int
        BY <2>3, Rows
      <3>2. /\ CreditReachesFee(fee[to], 0).status # "cancelled"
            /\ CreditReachesFee(fee[to], a).status # "cancelled"
            /\ CreditLeavesFee(fee[from], a).status # "cancelled"
        BY <2>1, <2>2, <3>1, PostedAlive
      <3>3. CASE from = to
        <4>1. fee' = [fee EXCEPT ![to] = CreditReachesFee(@, 0)]
          BY <2>1, <3>3
        <4> QED BY <4>1, <2>3, <3>2 DEF Inv, FeesTyped
      <3>4. CASE from # to
        <4>1. fee' = [fee EXCEPT ![from] = CreditLeavesFee(@, a), ![to] = CreditReachesFee(@, a)]
          BY <2>1, <3>4
        <4>2. \A f \in Fees : \/ fee'[f] = fee[f]
                              \/ fee'[f] = CreditLeavesFee(fee[from], a)
                              \/ fee'[f] = CreditReachesFee(fee[to], a)
          BY <2>3, <3>4, <4>1 DEF Inv, FeesTyped
        <4> QED BY <3>2, <4>2
      <3> QED BY <3>3, <3>4
    <2> QED BY <2>1, <2>6, <2>7 DEF CancelledHoldsNoMoney, PendingPayments
  <1> QED BY <1>2, <1>3 DEF OverpaymentStep

\* Every step leaves what is cancelled empty.
LEMMA StepCancelled ==
    Inv /\ MoneyInv /\ CancelledHoldsNoMoney /\ [Next]_vars => CancelledHoldsNoMoney'
  <1> SUFFICES ASSUME Inv, MoneyInv, CancelledHoldsNoMoney, [Next]_vars
               PROVE  CancelledHoldsNoMoney'
    OBVIOUS
  <1>1. CASE UNCHANGED vars
    BY <1>1 DEF vars, CancelledHoldsNoMoney, PendingPayments
  <1>2. ASSUME NEW i \in Invoices, InvoiceStep(i) PROVE CancelledHoldsNoMoney'
    BY <1>2, InvoiceQuiet, QuietCancelled
  <1>3. ASSUME NEW p \in Payments, PaymentStep(p) PROVE CancelledHoldsNoMoney'
    BY <1>3, PaymentCancelled
  <1>4. ASSUME NEW p \in Payments, OverpaymentStep(p) PROVE CancelledHoldsNoMoney'
    BY <1>4, OverpaymentCancelled
  <1>5. ASSUME NEW r \in Refunds, RefundStep(r) PROVE CancelledHoldsNoMoney'
    BY <1>5, RefundCancelled
  <1>6. ASSUME NEW f \in Fees, FeeStep(f) PROVE CancelledHoldsNoMoney'
    BY <1>6, FeeQuiet, QuietCancelled
  <1>7. ASSUME OverdueScan \/ OverdueWrite \/ Recalculate PROVE CancelledHoldsNoMoney'
    BY <1>7, JobQuiet, QuietCancelled
  <1> QED BY <1>1, <1>2, <1>3, <1>4, <1>5, <1>6, <1>7 DEF Next

\* The books balance and what is cancelled is empty, the nightly job included.
THEOREM BooksAlwaysHold == Spec => []BooksHold
  <1>1. Init => CancelledHoldsNoMoney
    BY DEF Init, CancelledHoldsNoMoney
  <1>2. Inv /\ MoneyInv /\ CancelledHoldsNoMoney /\ [Next]_vars => CancelledHoldsNoMoney'
    BY StepCancelled
  <1>3. MoneyInv /\ CancelledHoldsNoMoney => BooksHold
    BY DEF MoneyInv, BooksHold
  <1> QED BY <1>1, <1>2, <1>3, Invariance, MoneyInvariance, PTL DEF Spec

-----------------------------------------------------------------------------
(* Types *)

\* What the two jobs and the gate of a change of major keep.
JobsTyped ==
    /\ awaiting \subseteq FirstTerm
    /\ overdueScan \subseteq Invoices
    /\ recalculation \in [fee : Fees \cup {Nil}, waived : Nat, drafts : SUBSET Invoices]

\* Every step keeps it.
LEMMA StepJobs == Inv /\ JobsTyped /\ [Next]_vars => JobsTyped'
  <1> SUFFICES ASSUME Inv, JobsTyped, [Next]_vars PROVE JobsTyped'
    OBVIOUS
  <1>0. UNCHANGED <<awaiting, jobs>> => JobsTyped'
    BY DEF JobsTyped, jobs
  <1>1. CASE UNCHANGED vars
    BY <1>0, <1>1 DEF vars
  <1>2. ASSUME NEW i \in Invoices, InvoiceStep(i) PROVE JobsTyped'
    BY <1>0, <1>2 DEF InvoiceStep, CreateInvoice, IssueInvoice, CancelInvoice, ApplyPenalty
  <1>3. ASSUME NEW p \in Payments, PaymentStep(p) PROVE JobsTyped'
    BY <1>0, <1>3 DEF PaymentStep, RecordManualPayment, VerifyPayment, RejectPayment
  <1>4. ASSUME NEW p \in Payments, OverpaymentStep(p) PROVE JobsTyped'
    BY <1>0, <1>4 DEF OverpaymentStep, RefundOverpayment, ApplyOverpayment, WriteOff
  <1>5. ASSUME NEW r \in Refunds, RefundStep(r) PROVE JobsTyped'
    BY <1>0, <1>5 DEF RefundStep, RequestRefund, ApproveRefund, RejectRefund, ProcessRefund
  <1>6. ASSUME NEW f \in Fees, FeeStep(f) PROVE JobsTyped'
    <2>1. CASE CalculateFee(f) \/ CancelFee(f) \/ \E a \in Amounts : WaiveFee(f, a)
      BY <1>0, <2>1 DEF CalculateFee, CancelFee, WaiveFee
    <2>2. ASSUME NEW a \in Amounts, RepriceForMajorChange(f, a) PROVE JobsTyped'
      BY <2>2 DEF RepriceForMajorChange, JobsTyped, jobs
    <2>3. CASE ConfirmMajorChange(f)
      BY <2>3 DEF ConfirmMajorChange, JobsTyped, jobs
    <2> QED BY <1>6, <2>1, <2>2, <2>3 DEF FeeStep
  <1>7. CASE OverdueScan \/ OverdueWrite
    BY <1>7, LedgerConstants DEF OverdueScan, OverdueWrite, JobsTyped
  <1>8. CASE Recalculate
    <2>1. ASSUME NEW f \in Fees, RecalculateRead(f) PROVE JobsTyped'
      <3>1. fee[f].waived \in Nat
        BY Rows DEF LooseFee
      <3>2. ActiveInvoices(f) \subseteq Invoices
        BY DEF ActiveInvoices, InvoicesOf
      <3> QED BY <2>1, <3>1, <3>2 DEF RecalculateRead, JobsTyped
    <2>2. CASE (\E a \in Amounts : RecalculateWrite(a)) \/ RecalculateFails
      BY <2>2 DEF RecalculateWrite, RecalculateFails, NoRecalculation, JobsTyped
    <2> QED BY <1>8, <2>1, <2>2 DEF Recalculate
  <1> QED BY <1>1, <1>2, <1>3, <1>4, <1>5, <1>6, <1>7, <1>8 DEF Next

\* The rows have the types of their tables: no amount is ever negative.
THEOREM TypeCorrect == Spec => []TypeOK
  <1>1. Init => JobsTyped
    BY DEF Init, JobsTyped, NoRecalculation
  <1>2. Inv /\ MoneyInv /\ JobsTyped => TypeOK
    <2> SUFFICES ASSUME Inv, MoneyInv, JobsTyped PROVE TypeOK
      OBVIOUS
    <2>1. ASSUME NEW f \in Fees PROVE fee[f] \in Fee
      <3>1. fee[f] \in LooseFee /\ fee[f].paid \in Nat
        BY Rows, PaidNat
      <3> QED BY <3>1 DEF LooseFee, Fee
    <2>2. ASSUME NEW i \in Invoices PROVE invoice[i] \in Invoice
      <3>1. invoice[i] \in LooseInvoice /\ invoice[i].paid \in Nat
        BY Rows, PaidNat
      <3> QED BY <3>1 DEF LooseInvoice, Invoice
    <2>3. fee \in [Fees -> Fee] /\ invoice \in [Invoices -> Invoice]
      BY <2>1, <2>2 DEF Inv, RowsTyped, FeesTyped
    <2> QED BY <2>3 DEF Inv, RowsTyped, JobsTyped, TypeOK
  <1>3. Inv /\ JobsTyped /\ [Next]_vars => JobsTyped'
    BY StepJobs
  <1> QED BY <1>1, <1>2, <1>3, Invariance, MoneyInvariance, PTL DEF Spec

-----------------------------------------------------------------------------
(* Statuses, as long as no invoice is past due, no penalty is applied and no fee *)
(* is recalculated                                                               *)

InvoiceAgrees(row) ==
    /\ row.penalty = 0
    /\ row.status = "absent" => row.paid = 0
    /\ row.status # "absent" =>
         /\ row.amount > 0
         /\ row.status = "paid" <=> FullyPaid(row)
         /\ row.status = "partial" <=> row.paid > 0 /\ ~FullyPaid(row)

\* active: does the fee have an active invoice.
FeeAgrees(row, active) ==
    /\ row.status = "absent" => row.paid = 0 /\ row.waived = 0 /\ ~active
    /\ row.status \notin {"absent", "cancelled"} => row.status = RecomputedStatus(row, active)

Billed(f) == ActiveInvoices(f) # {}

Agreement ==
    /\ \A i \in Invoices : InvoiceAgrees(invoice[i])
    /\ \A f \in Fees : FeeAgrees(fee[f], Billed(f))

\* A row that exists is about an amount, and a payment about an invoice that exists.
Positive ==
    /\ \A p \in Payments : payment[p].status # "absent" =>
         payment[p].amount > 0 /\ invoice[payment[p].invoice].status # "absent"
    /\ \A r \in Refunds : refund[r].status # "absent" => refund[r].amount > 0
    /\ \A p \in Payments : over[p].status # "absent" => over[p].amount > 0

Idle == overdueScan = {} /\ recalculation = NoRecalculation

StatusInv == Agreement /\ Positive /\ Idle /\ RepricingCanBeConfirmed

\* The postings of an amount leave the status of an invoice in agreement.
LEMMA InvoicePostings ==
    ASSUME NEW t \in Invoice, InvoiceAgrees(t), NEW a \in Nat \ {0}
    PROVE  /\ t.status # "absent" => /\ InvoiceAgrees(PayInvoice(t, a))
                                     /\ PayInvoice(t, a).status \in {"paid", "partial"}
           /\ a <= t.paid => /\ t.status \notin {"absent", "cancelled"}
                             /\ InvoiceAgrees(ReverseInvoice(t, a))
                             /\ ReverseInvoice(t, a).status \in {"paid", "partial", "issued"}
                             /\ InvoiceAgrees(CreditLeavesInvoice(t, a))
                             /\ CreditLeavesInvoice(t, a).status \in {"paid", "partial", "issued"}
           /\ /\ PayInvoice(t, a).amount = t.amount
              /\ ReverseInvoice(t, a).amount = t.amount
              /\ CreditLeavesInvoice(t, a).amount = t.amount
  <1> USE DEF Invoice, InvoiceAgrees, FullyPaid, InvoiceRemaining, Due
  <1>0. ASSUME NEW x \in Int, NEW s
        PROVE  LET n == [t EXCEPT !.paid = x, !.status = s]
               IN  n.amount = t.amount /\ n.paid = x /\ n.penalty = t.penalty /\ n.status = s
    OBVIOUS
  <1>1. /\ t.status # "absent" => /\ InvoiceAgrees(PayInvoice(t, a))
                                  /\ PayInvoice(t, a).status \in {"paid", "partial"}
        /\ PayInvoice(t, a).amount = t.amount
    <2> DEFINE s == CASE t.paid + a >= Due(t) -> "paid"
                      [] t.paid + a < Due(t) /\ t.paid + a > 0 -> "partial"
                      [] OTHER -> t.status
               n == [t EXCEPT !.paid = t.paid + a, !.status = s]
    <2>1. PayInvoice(t, a) = n
      BY DEF PayInvoice
    <2>2. n.amount = t.amount /\ n.paid = t.paid + a /\ n.penalty = t.penalty /\ n.status = s
      <3> HIDE DEF s
      <3> QED BY <1>0
    <2>3. s = IF t.paid + a >= t.amount + t.penalty THEN "paid" ELSE "partial"
      OBVIOUS
    <2> HIDE DEF n, s
    <2> QED BY <2>1, <2>2, <2>3
  <1>2. ASSUME a <= t.paid
        PROVE  /\ t.status \in {"paid", "partial"}
               /\ t.status = "paid" <=> t.paid >= t.amount
               /\ t.penalty = 0 /\ t.amount > 0
    BY <1>2
  <1>3. /\ a <= t.paid => /\ InvoiceAgrees(ReverseInvoice(t, a))
                          /\ ReverseInvoice(t, a).status \in {"paid", "partial", "issued"}
        /\ ReverseInvoice(t, a).amount = t.amount
    <2> DEFINE s == CASE t.paid <= a -> "issued"
                      [] t.paid > a /\ t.paid - a < t.amount -> "partial"
                      [] OTHER -> t.status
               n == [t EXCEPT !.paid = Above(t.paid, a), !.status = s]
    <2>1. ReverseInvoice(t, a) = n
      BY DEF ReverseInvoice
    <2>2. /\ n.amount = t.amount /\ n.paid = Above(t.paid, a) /\ n.penalty = t.penalty
          /\ n.status = s
      <3>1. Above(t.paid, a) \in Int
        BY DEF Above
      <3> HIDE DEF s
      <3> QED BY <1>0, <3>1
    <2>3. ASSUME a <= t.paid
          PROVE  /\ s = IF t.paid = a THEN "issued"
                        ELSE IF t.paid - a < t.amount THEN "partial" ELSE "paid"
                 /\ Above(t.paid, a) = t.paid - a
      BY <1>2, <2>3 DEF Above
    <2> HIDE DEF n, s
    <2> QED BY <2>1, <2>2, <2>3, <1>2
  <1>4. /\ a <= t.paid => /\ InvoiceAgrees(CreditLeavesInvoice(t, a))
                          /\ CreditLeavesInvoice(t, a).status \in {"paid", "partial", "issued"}
        /\ CreditLeavesInvoice(t, a).amount = t.amount
    <2> DEFINE after == [t EXCEPT !.paid = t.paid - a]
               s == CASE FullyPaid(after) -> "paid"
                      [] ~FullyPaid(after) /\ after.paid > 0 -> "partial"
                      [] OTHER -> "issued"
               n == [t EXCEPT !.paid = t.paid - a, !.status = s]
    <2>1. /\ after.amount = t.amount /\ after.paid = t.paid - a /\ after.penalty = t.penalty
      OBVIOUS
    <2>2. CreditLeavesInvoice(t, a) = n
      BY DEF CreditLeavesInvoice
    <2>3. /\ n.amount = t.amount /\ n.paid = t.paid - a /\ n.penalty = t.penalty /\ n.status = s
      <3> HIDE DEF s
      <3> QED BY <1>0
    <2>4. s = IF t.paid - a >= t.amount + t.penalty THEN "paid"
              ELSE IF t.paid - a > 0 THEN "partial" ELSE "issued"
      <3> HIDE DEF after
      <3> QED BY <2>1
    <2> HIDE DEF n, s
    <2> QED BY <2>2, <2>3, <2>4, <1>2
  <1> QED BY <1>1, <1>2, <1>3, <1>4

\* A new status, or a new amount with it, of an invoice that holds nothing or that is priced again.
LEMMA InvoiceWrites ==
    ASSUME NEW t \in Invoice, InvoiceAgrees(t)
    PROVE  /\ \A s \in {"issued", "cancelled"} :
                t.paid = 0 /\ t.status # "absent" => InvoiceAgrees([t EXCEPT !.status = s])
           /\ \A a \in Nat \ {0}, s \in {"draft", "issued"} :
                t.paid = 0 => InvoiceAgrees([t EXCEPT !.amount = a, !.status = s])
           /\ \A a \in Nat \ {0} :
                InvoiceAgrees([t EXCEPT !.amount = a,
                   !.status = CASE t.paid >= a -> "paid"
                                [] t.paid < a /\ t.paid > 0 -> "partial"
                                [] OTHER -> "issued"])
  <1> USE DEF Invoice, InvoiceAgrees, FullyPaid, InvoiceRemaining, Due
  <1>1. ASSUME NEW s \in {"issued", "cancelled"}, t.paid = 0, t.status # "absent"
        PROVE  InvoiceAgrees([t EXCEPT !.status = s])
    <2> DEFINE n == [t EXCEPT !.status = s]
    <2>1. n.amount = t.amount /\ n.paid = t.paid /\ n.penalty = t.penalty /\ n.status = s
      OBVIOUS
    <2> HIDE DEF n
    <2>2. InvoiceAgrees(n)
      BY <1>1, <2>1
    <2> QED BY <2>2 DEF n
  <1>2. ASSUME NEW a \in Nat \ {0}, NEW s \in {"draft", "issued"}, t.paid = 0
        PROVE  InvoiceAgrees([t EXCEPT !.amount = a, !.status = s])
    <2> DEFINE n == [t EXCEPT !.amount = a, !.status = s]
    <2>1. n.amount = a /\ n.paid = t.paid /\ n.penalty = t.penalty /\ n.status = s
      OBVIOUS
    <2> HIDE DEF n
    <2>2. InvoiceAgrees(n)
      BY <1>2, <2>1
    <2> QED BY <2>2 DEF n
  <1>3. ASSUME NEW a \in Nat \ {0}
        PROVE  InvoiceAgrees([t EXCEPT !.amount = a,
                   !.status = CASE t.paid >= a -> "paid"
                                [] t.paid < a /\ t.paid > 0 -> "partial"
                                [] OTHER -> "issued"])
    <2> DEFINE s == CASE t.paid >= a -> "paid"
                      [] t.paid < a /\ t.paid > 0 -> "partial"
                      [] OTHER -> "issued"
               n == [t EXCEPT !.amount = a, !.status = s]
    <2>1. n.amount = a /\ n.paid = t.paid /\ n.penalty = t.penalty /\ n.status = s
      <3> HIDE DEF s
      <3> QED OBVIOUS
    <2>2. s = IF t.paid >= a THEN "paid" ELSE IF t.paid > 0 THEN "partial" ELSE "issued"
      OBVIOUS
    <2> HIDE DEF n, s
    <2>3. InvoiceAgrees(n)
      BY <2>1, <2>2
    <2> QED BY <2>3 DEF n, s
  <1> QED BY <1>1, <1>2, <1>3

\* The postings of an amount leave the status of a billed fee in agreement, and they
\* leave its price and its waivers alone.
LEMMA FeePostings ==
    ASSUME NEW t \in Fee, FeeAgrees(t, TRUE), t.status # "cancelled", NEW a \in Nat \ {0}
    PROVE  /\ \A u \in {PayFee(t, a), ReverseFee(t, a), CreditReachesFee(t, a)} :
                /\ FeeAgrees(u, TRUE) /\ u.status \notin {"absent", "cancelled"}
                /\ u.final = t.final /\ u.waived = t.waived
           /\ a <= t.paid => LET u == CreditLeavesFee(t, a)
                             IN  /\ FeeAgrees(u, TRUE) /\ u.status \notin {"absent", "cancelled"}
                                 /\ u.final = t.final /\ u.waived = t.waived
  <1>1. t.status = RecomputedStatus(t, TRUE) /\ t.status \notin {"absent", "cancelled"}
    BY DEF FeeAgrees
  <1>2. t \in LooseFee /\ a \in Int
    BY DEF Fee, LooseFee
  <1>3. \A s \in {"absent", "cancelled"} : \A u : RecomputedStatus(u, TRUE) # s
    BY DEF RecomputedStatus
  <1>4. /\ PayFee(t, a).final = t.final /\ PayFee(t, a).waived = t.waived
        /\ ReverseFee(t, a).final = t.final /\ ReverseFee(t, a).waived = t.waived
        /\ CreditReachesFee(t, a).final = t.final /\ CreditReachesFee(t, a).waived = t.waived
        /\ CreditLeavesFee(t, a).final = t.final /\ CreditLeavesFee(t, a).waived = t.waived
    <2>1. \A after \in LooseFee : \A s : /\ [after EXCEPT !.status = s].final = after.final
                                         /\ [after EXCEPT !.status = s].waived = after.waived
      BY DEF LooseFee
    <2>2. PayFee(t, a).final = t.final /\ PayFee(t, a).waived = t.waived
      <3>1. PICK after \in LooseFee :
               /\ after.final = t.final /\ after.waived = t.waived
               /\ PayFee(t, a) = [after EXCEPT !.status = PostedFeeStatus(after)]
        BY <1>2, PayFeeYields
      <3> QED BY <3>1, <2>1
    <2>3. ReverseFee(t, a).final = t.final /\ ReverseFee(t, a).waived = t.waived
      <3>1. PICK after \in LooseFee :
               /\ after.final = t.final /\ after.waived = t.waived
               /\ ReverseFee(t, a) = [after EXCEPT !.status = SettledFeeStatus(after)]
        BY <1>2, ReverseFeeYields
      <3> QED BY <3>1, <2>1
    <2>4. CreditReachesFee(t, a).final = t.final /\ CreditReachesFee(t, a).waived = t.waived
      <3>1. PICK after \in LooseFee :
               /\ after.final = t.final /\ after.waived = t.waived
               /\ CreditReachesFee(t, a) = [after EXCEPT !.status = CreditedFeeStatus(after)]
        BY <1>2, CreditReachesFeeYields
      <3> QED BY <3>1, <2>1
    <2>5. CreditLeavesFee(t, a).final = t.final /\ CreditLeavesFee(t, a).waived = t.waived
      <3>1. PICK after \in LooseFee :
               /\ after.final = t.final /\ after.waived = t.waived
               /\ CreditLeavesFee(t, a) = [after EXCEPT !.status = SettledFeeStatus(after)]
        BY <1>2, CreditLeavesFeeYields
      <3> QED BY <3>1, <2>1
    <2> QED BY <2>2, <2>3, <2>4, <2>5
  <1>5. /\ PayFee(t, a).status = RecomputedStatus(PayFee(t, a), TRUE)
        /\ ReverseFee(t, a).status = RecomputedStatus(ReverseFee(t, a), TRUE)
        /\ a <= t.paid =>
             CreditLeavesFee(t, a).status = RecomputedStatus(CreditLeavesFee(t, a), TRUE)
        /\ CreditReachesFee(t, a).status = RecomputedStatus(CreditReachesFee(t, a), TRUE)
    BY <1>1, FeeRulesAgree
  <1>6. \A u : u.status = RecomputedStatus(u, TRUE) =>
                 FeeAgrees(u, TRUE) /\ u.status \notin {"absent", "cancelled"}
    BY <1>3 DEF FeeAgrees
  <1> QED BY <1>4, <1>5, <1>6

\* recompute_fee_from_invoices brings about the agreement; with the new price of a
\* change of major as well.
LEMMA RecomputedAgrees ==
    ASSUME NEW t \in Fee, NEW active \in BOOLEAN, t.status # "absent"
    PROVE  LET u == RecomputedFee(t, active)
           IN  /\ FeeAgrees(u, active) /\ u.final = t.final /\ u.waived = t.waived
               /\ u.status = "cancelled" <=> t.status = "cancelled"
  <1> DEFINE u == RecomputedFee(t, active)
  <1>1. CASE t.status = "cancelled"
    BY <1>1 DEF RecomputedFee, FeeAgrees
  <1>2. CASE t.status # "cancelled"
    <2> DEFINE s == RecomputedStatus(t, active)
               n == [t EXCEPT !.status = s]
    <2>1. u = n
      BY <1>2 DEF RecomputedFee
    <2>2. n.final = t.final /\ n.waived = t.waived /\ n.paid = t.paid /\ n.status = s
      <3> HIDE DEF s
      <3> QED BY DEF Fee
    <2>3. s \notin {"absent", "cancelled"}
      BY DEF RecomputedStatus
    <2>4. RecomputedStatus(n, active) = s
      <3> HIDE DEF n
      <3> QED BY <2>2 DEF RecomputedStatus, FeeRemaining
    <2> HIDE DEF n, s
    <2> QED BY <1>2, <2>1, <2>2, <2>3, <2>4 DEF FeeAgrees
  <1> QED BY <1>1, <1>2

\* Where no invoice becomes active or inactive and no amount billed changes, a fee
\* whose row agrees is enough.
LEMMA AgreementKept ==
    ASSUME Agreement, RepricingCanBeConfirmed, awaiting' = awaiting, awaiting \subseteq Fees,
           \A i \in Invoices :
              /\ InvoiceAgrees(invoice'[i]) /\ invoice'[i].amount = invoice[i].amount
              /\ invoice'[i].status \in {"absent", "cancelled"}
                   <=> invoice[i].status \in {"absent", "cancelled"},
           \A f \in Fees : \/ fee'[f] = fee[f]
                           \/ /\ FeeAgrees(fee'[f], Billed(f)) /\ fee'[f].status # "cancelled"
                              /\ fee'[f].final = fee[f].final /\ fee'[f].waived = fee[f].waived
    PROVE  Agreement' /\ RepricingCanBeConfirmed'
  <1>1. \A f \in Fees : ActiveInvoices(f)' = ActiveInvoices(f) /\ Billed(f)' = Billed(f)
    BY DEF ActiveInvoices, InvoicesOf, Billed
  <1>2. Agreement'
    BY <1>1 DEF Agreement
  <1>3. RepricingCanBeConfirmed'
    <2> SUFFICES ASSUME NEW f \in awaiting
                 PROVE  /\ fee'[f].status # "cancelled" /\ fee'[f].final > fee'[f].waived
                        /\ \E i \in Invoices : /\ ActiveInvoices(f)' = {i}
                                               /\ invoice'[i].amount = fee'[f].final - fee'[f].waived
      BY DEF RepricingCanBeConfirmed
    <2>1. /\ fee[f].status # "cancelled" /\ fee[f].final > fee[f].waived
          /\ \E i \in Invoices : /\ ActiveInvoices(f) = {i}
                                 /\ invoice[i].amount = fee[f].final - fee[f].waived
      BY DEF RepricingCanBeConfirmed
    <2>2. f \in Fees
      OBVIOUS
    <2>3. /\ fee'[f].status # "cancelled"
          /\ fee'[f].final = fee[f].final /\ fee'[f].waived = fee[f].waived
      BY <2>1, <2>2
    <2>4. PICK i \in Invoices : /\ ActiveInvoices(f) = {i}
                                /\ invoice[i].amount = fee[f].final - fee[f].waived
      BY <2>1
    <2>5. invoice'[i].amount = invoice[i].amount /\ ActiveInvoices(f)' = {i}
      BY <1>1, <2>2, <2>4
    <2> QED BY <2>1, <2>3, <2>4, <2>5
  <1> QED BY <1>2, <1>3

Confirmable(f) ==
    /\ fee[f].status # "cancelled" /\ fee[f].final > fee[f].waived
    /\ \E i \in Invoices : /\ ActiveInvoices(f) = {i}
                          /\ invoice[i].amount = fee[f].final - fee[f].waived

\* An invoice that exists does not disappear.
Standing == \A i \in Invoices : invoice[i].status # "absent" => invoice'[i].status # "absent"

\* Where a step writes one fee and its invoices only, that fee is enough.
LEMMA OneFee ==
    ASSUME Agreement, RepricingCanBeConfirmed, awaiting \subseteq Fees, NEW f \in Fees,
           \A i \in Invoices : InvoiceAgrees(invoice'[i])
                               /\ (FeeOf[i] # f => invoice'[i] = invoice[i]),
           \A g \in Fees \ {f} : fee'[g] = fee[g],
           awaiting' \subseteq awaiting \cup {f},
           FeeAgrees(fee'[f], Billed(f)'), f \in awaiting' => Confirmable(f)'
    PROVE  Agreement' /\ RepricingCanBeConfirmed'
  <1>1. \A g \in Fees \ {f} : ActiveInvoices(g)' = ActiveInvoices(g) /\ Billed(g)' = Billed(g)
    BY DEF ActiveInvoices, InvoicesOf, Billed
  <1>2. Agreement'
    BY <1>1 DEF Agreement
  <1>3. ASSUME NEW g \in awaiting' PROVE Confirmable(g)'
    <2>1. CASE g = f
      BY <2>1
    <2>2. CASE g # f
      <3>1. Confirmable(g) /\ g \in Fees \ {f}
        BY <2>2, <1>3 DEF RepricingCanBeConfirmed, Confirmable
      <3>2. PICK i \in Invoices : /\ ActiveInvoices(g) = {i}
                                  /\ invoice[i].amount = fee[g].final - fee[g].waived
        BY <3>1 DEF Confirmable
      <3>3. invoice'[i] = invoice[i] /\ fee'[g] = fee[g] /\ ActiveInvoices(g)' = {i}
        <4>1. FeeOf[i] = g
          BY <3>2 DEF ActiveInvoices, InvoicesOf
        <4> QED BY <1>1, <2>2, <3>1, <3>2, <4>1
      <3> QED BY <3>1, <3>2, <3>3 DEF Confirmable
    <2> QED BY <2>1, <2>2
  <1>4. RepricingCanBeConfirmed'
    BY <1>3 DEF RepricingCanBeConfirmed, Confirmable
  <1> QED BY <1>2, <1>4

\* The sum over one invoice.
LEMMA SumOfOne ==
    ASSUME NEW g, NEW x, g[x] \in Int
    PROVE  SumFunctionOnSet(g, {x}) = g[x]
  <1>1. IsFiniteSet({x})
    BY FS_Singleton
  <1>2. SumFunctionOnSet(g, {x}) = g[x] + SumFunctionOnSet(g, {x} \ {x})
    BY <1>1, SumRemove
  <1>3. {x} \ {x} = {}
    OBVIOUS
  <1> QED BY <1>2, <1>3, SumEmpty

\* Creating, issuing and cancelling an invoice.
LEMMA InvoiceStatus ==
    ASSUME TypeOK, StatusInv, ~PenaltyAllowed, NEW i \in Invoices, InvoiceStep(i)
    PROVE  Agreement' /\ RepricingCanBeConfirmed' /\ Standing
  <1> DEFINE f == FeeOf[i]
  <1>0. /\ f \in Fees /\ awaiting \subseteq Fees
        /\ Agreement /\ RepricingCanBeConfirmed
        /\ \A j \in Invoices : invoice[j] \in Invoice /\ InvoiceAgrees(invoice[j])
        /\ fee[f] \in Fee /\ FeeAgrees(fee[f], Billed(f))
        /\ invoice[i].paid \in Nat
    BY LedgerConstants DEF TypeOK, StatusInv, Agreement, Invoice
  <1> HIDE DEF f
  <1>1. ASSUME NEW a \in Amounts, CreateInvoice(i, a)
        PROVE  Agreement' /\ RepricingCanBeConfirmed' /\ Standing
    <2> DEFINE bill == [j \in Invoices |-> invoice[j].amount]
               n == [invoice[i] EXCEPT !.amount = a, !.status = "draft"]
    <2>1. /\ invoice[i].status = "absent" /\ fee[f].status # "absent"
          /\ a <= fee[f].final - fee[f].waived - SumFunctionOnSet(bill, ActiveInvoices(f))
          /\ invoice' = [invoice EXCEPT ![i] = [@ EXCEPT !.amount = a, !.status = "draft"]]
          /\ fee' = [fee EXCEPT ![f] = RecomputedFee(@, TRUE)]
          /\ awaiting' = awaiting
      BY <1>1 DEF CreateInvoice, f
    <2>2. a \in Nat \ {0}
      BY LedgerConstants
    <2>3. InvoiceAgrees(n) /\ n.status = "draft"
      <3>1. invoice[i].paid = 0
        BY <1>0, <2>1 DEF InvoiceAgrees
      <3>2. n.status = "draft"
        BY <1>0 DEF Invoice
      <3> HIDE DEF n
      <3>3. InvoiceAgrees(n)
        BY <1>0, <2>2, <3>1, InvoiceWrites DEF n
      <3> QED BY <3>2, <3>3
    <2>4. invoice'[i] = n /\ \A j \in Invoices \ {i} : invoice'[j] = invoice[j]
      BY <2>1 DEF TypeOK
    <2> HIDE DEF n
    <2>5. /\ fee'[f] = RecomputedFee(fee[f], TRUE) /\ \A g \in Fees \ {f} : fee'[g] = fee[g]
      BY <1>0, <2>1 DEF TypeOK
    <2>6. FeeAgrees(fee'[f], TRUE)
      BY <1>0, <2>1, <2>5, RecomputedAgrees
    <2>7. Billed(f)' = TRUE
      <3>1. i \in ActiveInvoices(f)'
        BY <2>3, <2>4 DEF ActiveInvoices, InvoicesOf, f
      <3> QED BY <3>1 DEF Billed
    <2>8. f \notin awaiting
      <3> SUFFICES ASSUME f \in awaiting PROVE FALSE
        OBVIOUS
      <3>1. PICK k \in Invoices : /\ ActiveInvoices(f) = {k}
                                  /\ invoice[k].amount = fee[f].final - fee[f].waived
        BY <1>0 DEF RepricingCanBeConfirmed
      <3>2. bill[k] = invoice[k].amount /\ bill[k] \in Int
        BY <1>0 DEF Invoice
      <3>3. fee[f].final - fee[f].waived \in Int
        BY <1>0 DEF Fee
      <3> HIDE DEF bill
      <3>4. SumFunctionOnSet(bill, {k}) = bill[k]
        BY <3>2, SumOfOne
      <3> QED BY <2>1, <2>2, <3>1, <3>2, <3>3, <3>4
    <2>9. \A j \in Invoices : InvoiceAgrees(invoice'[j]) /\ (FeeOf[j] # f => invoice'[j] = invoice[j])
      BY <1>0, <2>3, <2>4 DEF f
    <2>10. Agreement' /\ RepricingCanBeConfirmed'
      BY <1>0, <2>1, <2>5, <2>6, <2>7, <2>8, <2>9, OneFee
    <2> QED BY <2>3, <2>4, <2>10 DEF Standing
  <1>2. CASE IssueInvoice(i)
    <2> DEFINE n == [invoice[i] EXCEPT !.status = "issued"]
    <2>1. /\ invoice[i].status = "draft" /\ UNCHANGED <<fee, awaiting>>
          /\ invoice' = [invoice EXCEPT ![i] = [@ EXCEPT !.status = "issued"]]
      BY <1>2 DEF IssueInvoice
    <2>2. invoice[i].paid = 0
      BY <1>0, <2>1 DEF InvoiceAgrees
    <2>3. InvoiceAgrees(n) /\ n.status = "issued" /\ n.amount = invoice[i].amount
      <3>1. InvoiceAgrees([invoice[i] EXCEPT !.status = "issued"])
        BY <1>0, <2>1, <2>2, InvoiceWrites
      <3>2. n.status = "issued" /\ n.amount = invoice[i].amount
        BY <1>0 DEF Invoice
      <3> QED BY <3>1, <3>2
    <2>4. invoice'[i] = n /\ \A j \in Invoices \ {i} : invoice'[j] = invoice[j]
      BY <2>1 DEF TypeOK
    <2> HIDE DEF n
    <2>5. \A j \in Invoices :
              /\ InvoiceAgrees(invoice'[j]) /\ invoice'[j].amount = invoice[j].amount
              /\ invoice'[j].status \in {"absent", "cancelled"}
                   <=> invoice[j].status \in {"absent", "cancelled"}
      BY <1>0, <2>1, <2>3, <2>4
    <2>6. Agreement' /\ RepricingCanBeConfirmed'
      BY <1>0, <2>1, <2>5, AgreementKept
    <2> QED BY <2>3, <2>4, <2>6 DEF Standing
  <1>3. CASE CancelInvoice(i)
    <2> DEFINE n == [invoice[i] EXCEPT !.status = "cancelled"]
               rest == ActiveInvoices(f) # {i}
    <2>1. /\ invoice[i].status \notin {"absent", "cancelled"} /\ invoice[i].paid = 0
          /\ f \notin awaiting /\ awaiting' = awaiting
          /\ invoice' = [invoice EXCEPT ![i] = [@ EXCEPT !.status = "cancelled"]]
          /\ fee' = [fee EXCEPT ![f] = RecomputedFee(@, rest)]
      BY <1>3 DEF CancelInvoice, f
    <2>3. InvoiceAgrees(n) /\ n.status = "cancelled"
      <3>1. InvoiceAgrees([invoice[i] EXCEPT !.status = "cancelled"])
        BY <1>0, <2>1, InvoiceWrites
      <3>2. n.status = "cancelled"
        BY <1>0 DEF Invoice
      <3> QED BY <3>1, <3>2
    <2>4. invoice'[i] = n /\ \A j \in Invoices \ {i} : invoice'[j] = invoice[j]
      BY <2>1 DEF TypeOK
    <2> HIDE DEF n
    <2>5. i \in ActiveInvoices(f) /\ ActiveInvoices(f)' = ActiveInvoices(f) \ {i}
      BY <2>1, <2>3, <2>4 DEF ActiveInvoices, InvoicesOf, f
    <2>6. Billed(f)' = rest /\ rest \in BOOLEAN
      BY <2>5 DEF Billed
    <2>7. fee[f].status # "absent"
      BY <1>0, <2>5 DEF FeeAgrees, Billed
    <2> HIDE DEF rest
    <2>8. /\ fee'[f] = RecomputedFee(fee[f], rest) /\ \A g \in Fees \ {f} : fee'[g] = fee[g]
      BY <1>0, <2>1 DEF TypeOK
    <2>9. FeeAgrees(fee'[f], rest)
      BY <1>0, <2>6, <2>7, <2>8, RecomputedAgrees
    <2>10. \A j \in Invoices : InvoiceAgrees(invoice'[j]) /\ (FeeOf[j] # f => invoice'[j] = invoice[j])
      BY <1>0, <2>3, <2>4 DEF f
    <2>11. Agreement' /\ RepricingCanBeConfirmed'
      BY <1>0, <2>1, <2>6, <2>8, <2>9, <2>10, OneFee
    <2> QED BY <2>3, <2>4, <2>11 DEF Standing
  <1>4. ASSUME NEW a \in Amounts, ApplyPenalty(i, a) PROVE FALSE
    BY <1>4 DEF ApplyPenalty
  <1> QED BY <1>1, <1>2, <1>3, <1>4 DEF InvoiceStep

\* What happens to a fee as a whole.
LEMMA FeeStatus ==
    ASSUME TypeOK, StatusInv, MoneyInv, Inv, CancelledHoldsNoMoney, NEW f \in Fees, FeeStep(f)
    PROVE  Agreement' /\ RepricingCanBeConfirmed' /\ Standing
  <1>0. /\ awaiting \subseteq Fees
        /\ Agreement /\ RepricingCanBeConfirmed
        /\ \A j \in Invoices : /\ invoice[j] \in Invoice /\ InvoiceAgrees(invoice[j])
                               /\ invoice[j].paid \in Nat
        /\ fee[f] \in Fee /\ FeeAgrees(fee[f], Billed(f))
        /\ fee[f].paid \in Nat /\ fee[f].final \in Nat /\ fee[f].waived \in Nat
    BY LedgerConstants DEF TypeOK, StatusInv, Agreement, Invoice, Fee
  <1>1. CASE CalculateFee(f)
    <2>1. PICK batch \in SUBSET InvoicesOf(f), first \in {"draft", "issued"} :
            \E part \in [batch -> Amounts] :
              /\ batch # {}
              /\ SumFunctionOnSet(part, batch) = fee[f].final
              /\ invoice' = [j \in Invoices |->
                  IF j \in batch THEN [invoice[j] EXCEPT !.amount = part[j], !.status = first]
                                 ELSE invoice[j]]
      BY <1>1 DEF CalculateFee
    <2>2. PICK part \in [batch -> Amounts] :
              /\ batch # {}
              /\ SumFunctionOnSet(part, batch) = fee[f].final
              /\ invoice' = [j \in Invoices |->
                  IF j \in batch THEN [invoice[j] EXCEPT !.amount = part[j], !.status = first]
                                 ELSE invoice[j]]
      BY <2>1
    <2>3. /\ fee[f].status = "absent" /\ awaiting' = awaiting
          /\ fee' = [fee EXCEPT ![f] = [@ EXCEPT !.status = "invoiced"]]
      BY <1>1 DEF CalculateFee
    <2>4. fee[f].paid = 0 /\ fee[f].waived = 0 /\ ActiveInvoices(f) = {}
      BY <1>0, <2>3 DEF FeeAgrees, Billed
    <2>5. f \notin awaiting
      BY <2>4 DEF StatusInv, RepricingCanBeConfirmed
    <2>6. fee[f].final > 0
      <3>1. PICK x \in batch : TRUE
        BY <2>2
      <3>2. IsFiniteSet(batch)
        BY LedgerConstants, FS_Subset DEF InvoicesOf
      <3>3. \A y \in batch : part[y] \in Nat
        BY LedgerConstants
      <3>4. part[x] <= SumFunctionOnSet(part, batch)
        BY <3>1, <3>2, <3>3, SumTerm
      <3>5. part[x] \in Nat \ {0}
        BY <3>1, LedgerConstants
      <3>6. part[x] <= fee[f].final
        BY <2>2, <3>4
      <3>7. fee[f].final \in Nat
        BY <1>0
      <3> QED BY <3>5, <3>6, <3>7
    <2>7. ASSUME NEW j \in Invoices
          PROVE  /\ InvoiceAgrees(invoice'[j])
                 /\ j \in batch => FeeOf[j] = f /\ invoice'[j].status = first
                 /\ j \notin batch => invoice'[j] = invoice[j]
      <3>1. CASE j \notin batch
        BY <1>0, <2>2, <3>1
      <3>2. CASE j \in batch
        <4> DEFINE n == [invoice[j] EXCEPT !.amount = part[j], !.status = first]
        <4>1. invoice'[j] = n /\ FeeOf[j] = f
          BY <2>2, <3>2 DEF InvoicesOf
        <4>2. invoice[j].paid = 0
          <5>1. invoice[j].status \in {"absent", "cancelled"}
            BY <2>4, <4>1 DEF ActiveInvoices, InvoicesOf
          <5> QED BY <1>0, <5>1 DEF InvoiceAgrees, CancelledHoldsNoMoney
        <4>3. part[j] \in Nat \ {0}
          BY <3>2, LedgerConstants
        <4>4. InvoiceAgrees([invoice[j] EXCEPT !.amount = part[j], !.status = first])
          BY <1>0, <4>2, <4>3, InvoiceWrites
        <4>5. n.status = first
          BY <1>0 DEF Invoice
        <4> QED BY <3>2, <4>1, <4>4, <4>5
      <3> QED BY <3>1, <3>2
    <2>8. Billed(f)' = TRUE
      <3>1. PICK x \in batch : TRUE
        BY <2>2
      <3>2. x \in Invoices /\ invoice'[x].status = first
        BY <3>1, <2>7 DEF InvoicesOf
      <3>3. x \in ActiveInvoices(f)'
        BY <3>1, <3>2 DEF ActiveInvoices, InvoicesOf
      <3> QED BY <3>3 DEF Billed
    <2>9. FeeAgrees(fee'[f], TRUE) /\ \A g \in Fees \ {f} : fee'[g] = fee[g]
      <3> DEFINE n == [fee[f] EXCEPT !.status = "invoiced"]
      <3>1. fee'[f] = n /\ \A g \in Fees \ {f} : fee'[g] = fee[g]
        BY <2>3 DEF TypeOK
      <3>2. n.status = "invoiced" /\ n.paid = 0 /\ n.waived = 0 /\ n.final = fee[f].final
        BY <1>0, <2>4 DEF Fee
      <3> HIDE DEF n
      <3> QED BY <1>0, <2>6, <3>1, <3>2 DEF FeeAgrees, RecomputedStatus, FeeRemaining
    <2>10. Agreement' /\ RepricingCanBeConfirmed'
      BY <1>0, <2>3, <2>5, <2>7, <2>8, <2>9, OneFee
    <2>11. Standing
      BY <2>7 DEF Standing
    <2> QED BY <2>10, <2>11
  <1>2. ASSUME NEW a \in Amounts, WaiveFee(f, a)
        PROVE  Agreement' /\ RepricingCanBeConfirmed' /\ Standing
    <2> DEFINE after == [fee[f] EXCEPT !.waived = @ + a]
               n == IF FeeRemaining(after) <= 0 THEN [after EXCEPT !.status = "paid"] ELSE after
    <2>1. /\ fee[f].status # "absent" /\ f \notin awaiting
          /\ fee' = [fee EXCEPT ![f] = n]
          /\ UNCHANGED <<invoice, awaiting>>
      BY <1>2 DEF WaiveFee
    <2>2. a \in Nat \ {0}
      BY LedgerConstants
    <2>3. /\ after.final = fee[f].final /\ after.waived = fee[f].waived + a
          /\ after.paid = fee[f].paid /\ after.status = fee[f].status
          /\ [after EXCEPT !.status = "paid"].final = fee[f].final
          /\ [after EXCEPT !.status = "paid"].waived = fee[f].waived + a
          /\ [after EXCEPT !.status = "paid"].paid = fee[f].paid
          /\ [after EXCEPT !.status = "paid"].status = "paid"
      BY <1>0 DEF Fee
    <2>4. fee'[f] = n /\ \A g \in Fees \ {f} : fee'[g] = fee[g]
      BY <2>1 DEF TypeOK
    <2>5. Billed(f)' = Billed(f) /\ Billed(f) \in BOOLEAN
      BY <2>1 DEF Billed, ActiveInvoices
    <2>6. /\ n.final = fee[f].final /\ n.waived = fee[f].waived + a /\ n.paid = fee[f].paid
          /\ n.status = IF FeeRemaining(after) <= 0 THEN "paid" ELSE fee[f].status
          /\ FeeRemaining(after) = fee[f].final - fee[f].paid - (fee[f].waived + a)
      <3> HIDE DEF after
      <3> QED BY <2>3 DEF FeeRemaining
    <2> HIDE DEF n, after
    <2>7. FeeAgrees(n, Billed(f))
      BY <1>0, <2>1, <2>2, <2>5, <2>6 DEF FeeAgrees, RecomputedStatus, FeeRemaining
    <2>8. \A j \in Invoices : InvoiceAgrees(invoice'[j]) /\ (FeeOf[j] # f => invoice'[j] = invoice[j])
      BY <1>0, <2>1
    <2>9. Agreement' /\ RepricingCanBeConfirmed'
      BY <1>0, <2>1, <2>4, <2>5, <2>7, <2>8, OneFee
    <2> QED BY <2>1, <2>9 DEF Standing
  <1>3. CASE CancelFee(f)
    <2>1. /\ f \notin awaiting /\ awaiting' = awaiting /\ fee[f].paid = 0
          /\ fee' = [fee EXCEPT ![f] = [@ EXCEPT !.status = "cancelled"]]
          /\ invoice' = [j \in Invoices |->
               IF j \in ActiveInvoices(f) THEN [invoice[j] EXCEPT !.status = "cancelled"]
                                          ELSE invoice[j]]
      BY <1>3 DEF CancelFee
    <2>2. ASSUME NEW j \in Invoices
          PROVE  /\ InvoiceAgrees(invoice'[j])
                 /\ FeeOf[j] # f => invoice'[j] = invoice[j]
                 /\ invoice[j].status # "absent" => invoice'[j].status # "absent"
      <3>1. CASE j \notin ActiveInvoices(f)
        BY <1>0, <2>1, <3>1
      <3>2. CASE j \in ActiveInvoices(f)
        <4>1. FeeOf[j] = f /\ invoice[j].status # "absent"
          BY <3>2 DEF ActiveInvoices, InvoicesOf
        <4>2. invoice[j].paid = 0
          <5>1. invoice[j].paid <= fee[f].paid
            BY <4>1, PaidNat
          <5> QED BY <1>0, <2>1, <5>1
        <4>3. InvoiceAgrees([invoice[j] EXCEPT !.status = "cancelled"])
          BY <1>0, <4>1, <4>2, InvoiceWrites
        <4>4. [invoice[j] EXCEPT !.status = "cancelled"].status = "cancelled"
          BY <1>0 DEF Invoice
        <4> QED BY <2>1, <3>2, <4>1, <4>3, <4>4
      <3> QED BY <3>1, <3>2
    <2>3. fee'[f].status = "cancelled" /\ \A g \in Fees \ {f} : fee'[g] = fee[g]
      BY <1>0, <2>1 DEF TypeOK, Fee
    <2>4. FeeAgrees(fee'[f], Billed(f)')
      BY <2>3 DEF FeeAgrees
    <2>5. Agreement' /\ RepricingCanBeConfirmed'
      BY <1>0, <2>1, <2>2, <2>3, <2>4, OneFee
    <2> QED BY <2>2, <2>5 DEF Standing
  <1>4. ASSUME NEW a \in Amounts, RepriceForMajorChange(f, a)
        PROVE  Agreement' /\ RepricingCanBeConfirmed' /\ Standing
    <2> DEFINE target == a - fee[f].waived
    <2>1. /\ fee[f].status \notin {"absent", "cancelled"} /\ target > 0
          /\ fee' = [fee EXCEPT ![f] = RecomputedFee([@ EXCEPT !.final = a], TRUE)]
          /\ awaiting' = awaiting \cup {f}
      BY <1>4, Zenon DEF RepriceForMajorChange
    <2>2. PICK i \in Invoices :
            /\ ActiveInvoices(f) = {i}
            /\ invoice' = [invoice EXCEPT ![i].amount = target,
                 ![i].status = CASE invoice[i].paid >= target -> "paid"
                                 [] invoice[i].paid < target /\ invoice[i].paid > 0 -> "partial"
                                 [] OTHER -> "issued"]
      BY <1>4, Zenon DEF RepriceForMajorChange
    <2> DEFINE s == CASE invoice[i].paid >= target -> "paid"
                      [] invoice[i].paid < target /\ invoice[i].paid > 0 -> "partial"
                      [] OTHER -> "issued"
               n == [invoice[i] EXCEPT !.amount = target, !.status = s]
               priced == [fee[f] EXCEPT !.final = a]
    <2>3. a \in Nat \ {0}
      BY LedgerConstants
    <2>4. target \in Nat \ {0}
      BY <1>0, <2>1, <2>3
    <2>5. InvoiceAgrees(n)
      <3> HIDE DEF target
      <3> QED BY <1>0, <2>4, InvoiceWrites
    <2>6. s \notin {"absent", "cancelled"}
      OBVIOUS
    <2>7. invoice' = [invoice EXCEPT ![i].amount = target, ![i].status = s]
      BY <2>2
    <2>8. n.amount = target /\ n.status = s
      <3> HIDE DEF s, target
      <3> QED BY <1>0 DEF Invoice
    <2>9. priced \in Fee /\ priced.final = a /\ priced.waived = fee[f].waived
          /\ priced.status = fee[f].status
      BY <1>0, <2>3 DEF Fee
    <2>10. FeeOf[i] = f /\ invoice[i].status \notin {"absent", "cancelled"}
      BY <2>2 DEF ActiveInvoices, InvoicesOf
    <2>11. fee' = [fee EXCEPT ![f] = RecomputedFee(priced, TRUE)]
      BY <2>1
    <2> HIDE DEF s, target, priced
    <2>12. invoice'[i] = n /\ \A j \in Invoices \ {i} : invoice'[j] = invoice[j]
      BY <2>7 DEF TypeOK
    <2> HIDE DEF n
    <2>13. fee'[f] = RecomputedFee(priced, TRUE) /\ \A g \in Fees \ {f} : fee'[g] = fee[g]
      BY <2>11 DEF TypeOK
    <2>14. /\ FeeAgrees(fee'[f], TRUE) /\ fee'[f].final = a /\ fee'[f].waived = fee[f].waived
           /\ fee'[f].status # "cancelled"
      BY <2>1, <2>9, <2>13, RecomputedAgrees
    <2>15. ActiveInvoices(f)' = {i} /\ Billed(f)' = TRUE
      <3>1. \A j \in Invoices : invoice'[j].status \in {"absent", "cancelled"}
                                 <=> invoice[j].status \in {"absent", "cancelled"}
        BY <2>6, <2>8, <2>10, <2>12
      <3>2. ActiveInvoices(f)' = ActiveInvoices(f)
        BY <3>1 DEF ActiveInvoices, InvoicesOf
      <3> QED BY <2>2, <3>2 DEF Billed
    <2>16. Confirmable(f)'
      <3>1. invoice'[i].amount = fee'[f].final - fee'[f].waived
        BY <2>8, <2>12, <2>14 DEF target
      <3>2. fee'[f].final > fee'[f].waived
        BY <1>0, <2>3, <2>4, <2>14 DEF target
      <3> QED BY <2>14, <2>15, <3>1, <3>2 DEF Confirmable
    <2>17. \A j \in Invoices : InvoiceAgrees(invoice'[j]) /\ (FeeOf[j] # f => invoice'[j] = invoice[j])
      BY <1>0, <2>5, <2>10, <2>12
    <2>18. Agreement' /\ RepricingCanBeConfirmed'
      BY <1>0, <2>1, <2>13, <2>14, <2>15, <2>16, <2>17, OneFee
    <2>19. Standing
      BY <2>6, <2>8, <2>12 DEF Standing
    <2> QED BY <2>18, <2>19
  <1>5. CASE ConfirmMajorChange(f)
    <2>1. /\ ActiveInvoices(f) # {}
          /\ fee' = [fee EXCEPT ![f] = RecomputedFee(@, TRUE)]
          /\ awaiting' = awaiting \ {f} /\ invoice' = invoice
      BY <1>5 DEF ConfirmMajorChange
    <2>2. fee[f].status # "absent"
      BY <1>0, <2>1 DEF FeeAgrees, Billed
    <2>3. fee'[f] = RecomputedFee(fee[f], TRUE) /\ \A g \in Fees \ {f} : fee'[g] = fee[g]
      BY <2>1 DEF TypeOK
    <2>4. FeeAgrees(fee'[f], TRUE)
      BY <1>0, <2>2, <2>3, RecomputedAgrees
    <2>5. Billed(f)' = TRUE
      BY <2>1 DEF Billed, ActiveInvoices
    <2>6. f \notin awaiting' /\ awaiting' \subseteq awaiting \cup {f}
      BY <2>1
    <2>7. \A j \in Invoices : InvoiceAgrees(invoice'[j]) /\ (FeeOf[j] # f => invoice'[j] = invoice[j])
      BY <1>0, <2>1
    <2>8. Agreement' /\ RepricingCanBeConfirmed'
      BY <1>0, <2>3, <2>4, <2>5, <2>6, <2>7, OneFee
    <2> QED BY <2>1, <2>8 DEF Standing
  <1> QED BY <1>1, <1>2, <1>3, <1>4, <1>5 DEF FeeStep

\* Recording, verifying and rejecting a payment.
LEMMA PaymentStatus ==
    ASSUME TypeOK, Inv, StatusInv, NEW p \in Payments, PaymentStep(p)
    PROVE  Agreement' /\ RepricingCanBeConfirmed' /\ Standing /\ Positive'
  <1>0. /\ awaiting \subseteq Fees
        /\ Agreement /\ RepricingCanBeConfirmed /\ Positive
        /\ \A j \in Invoices : invoice[j] \in Invoice /\ InvoiceAgrees(invoice[j])
        /\ \A f \in Fees : fee[f] \in Fee /\ FeeAgrees(fee[f], Billed(f))
        /\ \A q \in Payments : payment[q] \in PaymentRow /\ over[q] \in OverRow
    BY LedgerConstants DEF TypeOK, StatusInv, Agreement
  <1>1. ASSUME NEW i \in Invoices, NEW a \in Amounts, NEW u \in Users,
               RecordManualPayment(p, i, a, u)
        PROVE  Agreement' /\ RepricingCanBeConfirmed' /\ Standing /\ Positive'
    <2>1. /\ UNCHANGED <<fee, invoice, refund, over, awaiting>>
          /\ invoice[i].status # "absent" /\ a \in Nat \ {0}
          /\ payment' = [payment EXCEPT ![p] =
                     [invoice |-> i, amount |-> a, maker |-> u, status |-> "pending"]]
      BY <1>1, LedgerConstants DEF RecordManualPayment, PayableInvoiceStatuses
    <2>2. /\ payment'[p].invoice = i /\ payment'[p].amount = a
          /\ \A q \in Payments \ {p} : payment'[q] = payment[q]
      BY <2>1 DEF TypeOK
    <2>3. Positive'
      BY <1>0, <2>1, <2>2 DEF Positive
    <2>4. Agreement' /\ RepricingCanBeConfirmed' /\ Standing
      BY <1>0, <2>1 DEF Agreement, RepricingCanBeConfirmed, Billed, ActiveInvoices, Standing
    <2> QED BY <2>3, <2>4
  <1>2. ASSUME NEW u \in Users, RejectPayment(p, u)
        PROVE  Agreement' /\ RepricingCanBeConfirmed' /\ Standing /\ Positive'
    <2>1. /\ UNCHANGED <<fee, invoice, refund, over, awaiting>>
          /\ payment[p].status = "pending"
          /\ payment' = [payment EXCEPT ![p] = [@ EXCEPT !.status = "rejected"]]
      BY <1>2 DEF RejectPayment
    <2>2. /\ payment'[p].invoice = payment[p].invoice /\ payment'[p].amount = payment[p].amount
          /\ \A q \in Payments \ {p} : payment'[q] = payment[q]
      BY <1>0, <2>1 DEF TypeOK, PaymentRow
    <2>3. Positive'
      BY <1>0, <2>1, <2>2 DEF Positive
    <2>4. Agreement' /\ RepricingCanBeConfirmed' /\ Standing
      BY <1>0, <2>1 DEF Agreement, RepricingCanBeConfirmed, Billed, ActiveInvoices, Standing
    <2> QED BY <2>3, <2>4
  <1>3. ASSUME NEW u \in Users, VerifyPayment(p, u)
        PROVE  Agreement' /\ RepricingCanBeConfirmed' /\ Standing /\ Positive'
    <2> DEFINE i == payment[p].invoice
               a == payment[p].amount
               f == FeeOf[i]
               x == Excess(invoice[i], a)
    <2>1. /\ UNCHANGED <<refund, awaiting>> /\ payment[p].status = "pending"
          /\ fee[f].status # "cancelled" /\ invoice[i].status # "cancelled"
          /\ payment' = [payment EXCEPT ![p] = [@ EXCEPT !.status = "verified"]]
          /\ invoice' = [invoice EXCEPT ![i] = PayInvoice(@, a)]
          /\ fee' = [fee EXCEPT ![f] = PayFee(@, a)]
          /\ over' = IF x > 0
                     THEN [over EXCEPT ![p] = [@ EXCEPT !.amount = x, !.status = "pending"]]
                     ELSE over
      BY <1>3 DEF VerifyPayment, AcceptsMoney, PayableTarget
    <2>2. /\ payment'[p].invoice = payment[p].invoice /\ payment'[p].amount = payment[p].amount
          /\ \A q \in Payments \ {p} : payment'[q] = payment[q]
      BY <1>0, <2>1 DEF TypeOK, PaymentRow
    <2>3. a \in Nat \ {0} /\ i \in Invoices /\ invoice[i].status # "absent"
      BY <1>0, <2>1 DEF Positive, PaymentRow, Inv, RowsTyped
    <2> HIDE DEF x, a, i
    <2>4. f \in Fees
      BY <2>3, LedgerConstants
    <2>5. i \in ActiveInvoices(f) /\ Billed(f) = TRUE
      BY <2>1, <2>3 DEF ActiveInvoices, InvoicesOf, Billed
    <2> HIDE DEF f
    <2>6. /\ over'[p] = over[p] \/ over'[p].amount > 0
          /\ \A q \in Payments \ {p} : over'[q] = over[q]
      BY <1>0, <2>1 DEF TypeOK, OverRow
    <2>7. /\ InvoiceAgrees(PayInvoice(invoice[i], a))
          /\ PayInvoice(invoice[i], a).status \in {"paid", "partial"}
          /\ PayInvoice(invoice[i], a).amount = invoice[i].amount
      BY <1>0, <2>3, InvoicePostings
    <2>8. /\ FeeAgrees(PayFee(fee[f], a), TRUE) /\ PayFee(fee[f], a).status # "cancelled"
          /\ PayFee(fee[f], a).final = fee[f].final /\ PayFee(fee[f], a).waived = fee[f].waived
      <3>1. FeeAgrees(fee[f], TRUE) /\ fee[f] \in Fee
        BY <1>0, <2>4, <2>5
      <3> QED BY <3>1, <2>1, <2>3, FeePostings
    <2>9. /\ invoice'[i] = PayInvoice(invoice[i], a)
          /\ \A j \in Invoices \ {i} : invoice'[j] = invoice[j]
          /\ fee'[f] = PayFee(fee[f], a) /\ \A g \in Fees \ {f} : fee'[g] = fee[g]
      BY <2>1, <2>3, <2>4 DEF TypeOK
    <2>10. \A j \in Invoices :
              /\ InvoiceAgrees(invoice'[j]) /\ invoice'[j].amount = invoice[j].amount
              /\ invoice'[j].status \in {"absent", "cancelled"}
                   <=> invoice[j].status \in {"absent", "cancelled"}
      BY <1>0, <2>1, <2>3, <2>7, <2>9
    <2>11. \A g \in Fees : \/ fee'[g] = fee[g]
                           \/ /\ FeeAgrees(fee'[g], Billed(g)) /\ fee'[g].status # "cancelled"
                              /\ fee'[g].final = fee[g].final /\ fee'[g].waived = fee[g].waived
      BY <2>5, <2>8, <2>9
    <2>12. Agreement' /\ RepricingCanBeConfirmed'
      BY <1>0, <2>1, <2>10, <2>11, AgreementKept
    <2>13. Standing
      BY <2>7, <2>9 DEF Standing
    <2>14. Positive'
      BY <1>0, <2>1, <2>2, <2>6, <2>13 DEF Positive, Standing, TypeOK, Inv, RowsTyped
    <2> QED BY <2>12, <2>13, <2>14
  <1> QED BY <1>1, <1>2, <1>3 DEF PaymentStep

\* A refund of a verified payment takes its amount from an invoice and a fee that hold
\* it: neither is cancelled.
LEMMA Holder ==
    ASSUME TypeOK, Inv, MoneyInv, CancelledHoldsNoMoney, StatusInv,
           NEW p \in Payments, NEW a \in Nat \ {0}, payment[p].status = "verified",
           a <= Holding(p, payment[p].invoice)
    PROVE  LET i == payment[p].invoice
               f == FeeOf[i]
           IN  /\ i \in Invoices /\ f \in Fees
               /\ a <= invoice[i].paid /\ a <= fee[f].paid
               /\ fee[f].status # "cancelled" /\ invoice[i].status \notin {"absent", "cancelled"}
               /\ FeeAgrees(fee[f], TRUE) /\ Billed(f) = TRUE
  <1> DEFINE i == payment[p].invoice
             f == FeeOf[i]
  <1>1. i \in Invoices
    BY DEF Inv, RowsTyped
  <1>2. f \in Fees
    <2> HIDE DEF i
    <2> QED BY <1>1, LedgerConstants
  <1>3. /\ Holding(p, i) \in Nat /\ Holding(p, i) <= invoice[i].paid
        /\ invoice[i].paid <= fee[f].paid /\ invoice[i].paid \in Nat /\ fee[f].paid \in Nat
    BY <1>1, <1>2, PaidNat, HoldingNat
  <1> HIDE DEF i, f
  <1>4. a <= invoice[i].paid /\ a <= fee[f].paid
    BY <1>3 DEF i
  <1>5. fee[f].status # "cancelled" /\ invoice[i].status # "cancelled"
    BY <1>1, <1>2, <1>3, <1>4 DEF CancelledHoldsNoMoney
  <1>6. invoice[i].status # "absent"
    BY <1>1, <1>3, <1>4 DEF StatusInv, Agreement, InvoiceAgrees
  <1>7. i \in ActiveInvoices(f)
    BY <1>1, <1>5, <1>6 DEF ActiveInvoices, InvoicesOf, f
  <1>8. FeeAgrees(fee[f], TRUE) /\ Billed(f) = TRUE
    BY <1>2, <1>7 DEF StatusInv, Agreement, Billed
  <1> QED BY <1>1, <1>2, <1>4, <1>5, <1>6, <1>8 DEF i, f

\* A refund that is filed is about an amount.
LEMMA FilePositive ==
    ASSUME TypeOK, Positive, NEW r \in Refunds, NEW p \in Payments, NEW a \in Nat \ {0},
           NEW u \in Users, NEW source \in {"manual", "overpayment"},
           FileRefund(r, p, a, u, source)
    PROVE  \A q \in Refunds : refund'[q].status # "absent" => refund'[q].amount > 0
  BY DEF FileRefund, TypeOK, Positive

\* Requesting, deciding and paying a refund.
LEMMA RefundStatus ==
    ASSUME TypeOK, Inv, MoneyInv, CancelledHoldsNoMoney, StatusInv,
           NEW r \in Refunds, RefundStep(r)
    PROVE  Agreement' /\ RepricingCanBeConfirmed' /\ Standing /\ Positive'
  <1>0. /\ awaiting \subseteq Fees
        /\ Agreement /\ RepricingCanBeConfirmed /\ Positive
        /\ \A j \in Invoices : invoice[j] \in Invoice /\ InvoiceAgrees(invoice[j])
        /\ \A f \in Fees : fee[f] \in Fee
        /\ \A q \in Payments : payment[q] \in PaymentRow /\ over[q] \in OverRow
        /\ \A q \in Refunds : refund[q] \in RefundRow
    BY LedgerConstants DEF TypeOK, StatusInv, Agreement
  <1>1. ASSUME UNCHANGED <<fee, invoice, payment, over, awaiting>>,
               \A q \in Refunds : refund'[q].status # "absent" => refund'[q].amount > 0
        PROVE  Agreement' /\ RepricingCanBeConfirmed' /\ Standing /\ Positive'
    <2>1. Agreement' /\ RepricingCanBeConfirmed' /\ Standing
      BY <1>0, <1>1 DEF Agreement, RepricingCanBeConfirmed, Billed, ActiveInvoices, Standing
    <2>2. Positive'
      BY <1>0, <1>1 DEF Positive
    <2> QED BY <2>1, <2>2
  <1>2. ASSUME NEW p \in Payments, NEW a \in Amounts, NEW u \in Users, RequestRefund(r, p, a, u)
        PROVE  Agreement' /\ RepricingCanBeConfirmed' /\ Standing /\ Positive'
    <2>1. FileRefund(r, p, a, u, "manual") /\ a \in Nat \ {0}
      BY <1>2, LedgerConstants DEF RequestRefund
    <2>2. \A q \in Refunds : refund'[q].status # "absent" => refund'[q].amount > 0
      BY <1>0, <2>1, FilePositive
    <2> QED BY <1>1, <1>2, <2>2 DEF RequestRefund
  <1>3. ASSUME NEW s, refund[r].status # "absent", refund' = [refund EXCEPT ![r].status = s]
        PROVE  \A q \in Refunds : refund'[q].status # "absent" => refund'[q].amount > 0
    BY <1>0, <1>3 DEF TypeOK, RefundRow, Positive
  <1>4. CASE (\E u \in Users : ApproveRefund(r, u)) \/ RejectRefund(r)
    BY <1>1, <1>3, <1>4 DEF ApproveRefund, RejectRefund
  <1>5. CASE ProcessRefund(r)
    <2> DEFINE p == refund[r].payment
               a == refund[r].amount
               i == payment[p].invoice
               f == FeeOf[i]
    <2>o. over' = IF over[p].refund = r /\ over[p].status = "pending"
                  THEN [over EXCEPT ![p].status = "refunded"] ELSE over
      BY <1>5, ZenonT(20) DEF ProcessRefund
    <2>r. /\ a <= payment[p].amount - RefundTotal(p, {"refunded"})
          /\ refund' = [refund EXCEPT ![r].status = "refunded"]
      BY <1>5, ZenonT(20) DEF ProcessRefund
    <2>w. awaiting' = awaiting
      BY <1>5, ZenonT(20) DEF ProcessRefund
    <2>s. refund[r].status = "approved" /\ payment' = payment
      BY <1>5, ZenonT(20) DEF ProcessRefund
    <2> DEFINE x == ReverseInvoice(invoice[i], a)
               y == ReverseFee(fee[f], a)
    <2>1. /\ refund[r].status = "approved" /\ payment' = payment
          /\ invoice' = [invoice EXCEPT ![i] =
                IF fee[f].status = "cancelled" THEN [x EXCEPT !.status = "cancelled"] ELSE x]
          /\ fee' = [fee EXCEPT ![f] =
                IF fee[f].status = "cancelled" THEN [y EXCEPT !.status = "cancelled"] ELSE y]
      BY <1>5 DEF ProcessRefund
    <2>2. a \in Nat \ {0}
      BY <1>0, <2>s DEF Positive, RefundRow
    <2>3. p \in Payments /\ payment[p].status = "verified"
      BY <2>1 DEF MoneyInv, Links, FiledOnVerified
    <2>4. a <= Holding(p, i)
      <3>1. over[p].status \notin {"applied", "cancelled"}
        <4>1. refund[r].payment = p /\ refund[r].status \in CommittedStatuses
          BY <2>1 DEF CommittedStatuses
        <4> HIDE DEF p
        <4> QED BY <2>3, <4>1, NoRefundOfSpent
      <3>2. i \in Invoices
        BY <2>3 DEF Inv, RowsTyped
      <3>3. Credit(p) = 0
        BY <3>1 DEF Credit
      <3>4. payment[p].amount - RefundTotal(p, {"refunded"}) \in Int
        <4>1. RefundTotal(p, {"refunded"}) = Total(refund, p, {"refunded"})
          BY <2>3, Rows, TotalIs DEF RefundTotal
        <4>2. Total(refund, p, {"refunded"}) \in Nat /\ payment[p].amount \in Nat
          BY <2>3, BoundNow
        <4> QED BY <4>1, <4>2
      <3>5. p \in PaymentsOn(i)
        BY <2>3 DEF PaymentsOn
      <3> HIDE DEF p, a, i
      <3>6. Holding(p, i) = payment[p].amount - RefundTotal(p, {"refunded"})
        BY <3>3, <3>4, <3>5 DEF Holding
      <3> QED BY <2>r, <3>6
    <2> HIDE DEF p, a
    <2>5. /\ i \in Invoices /\ f \in Fees
          /\ a <= invoice[i].paid /\ a <= fee[f].paid
          /\ fee[f].status # "cancelled" /\ invoice[i].status \notin {"absent", "cancelled"}
          /\ FeeAgrees(fee[f], TRUE) /\ Billed(f) = TRUE
      BY <2>2, <2>3, <2>4, Holder
    <2> HIDE DEF i, f
    <2>6. /\ InvoiceAgrees(x) /\ x.status \in {"paid", "partial", "issued"}
          /\ x.amount = invoice[i].amount
      BY <1>0, <2>2, <2>5, InvoicePostings
    <2>7. /\ FeeAgrees(y, TRUE) /\ y.status # "cancelled"
          /\ y.final = fee[f].final /\ y.waived = fee[f].waived
      BY <1>0, <2>2, <2>5, FeePostings
    <2> HIDE DEF x, y
    <2>8. /\ invoice'[i] = x /\ \A j \in Invoices \ {i} : invoice'[j] = invoice[j]
          /\ fee'[f] = y /\ \A g \in Fees \ {f} : fee'[g] = fee[g]
      BY <2>1, <2>5 DEF TypeOK
    <2>9. \A j \in Invoices :
              /\ InvoiceAgrees(invoice'[j]) /\ invoice'[j].amount = invoice[j].amount
              /\ invoice'[j].status \in {"absent", "cancelled"}
                   <=> invoice[j].status \in {"absent", "cancelled"}
      BY <1>0, <2>5, <2>6, <2>8
    <2>10. \A g \in Fees : \/ fee'[g] = fee[g]
                           \/ /\ FeeAgrees(fee'[g], Billed(g)) /\ fee'[g].status # "cancelled"
                              /\ fee'[g].final = fee[g].final /\ fee'[g].waived = fee[g].waived
      BY <2>5, <2>7, <2>8
    <2>11. Agreement' /\ RepricingCanBeConfirmed'
      BY <1>0, <2>w, <2>9, <2>10, AgreementKept
    <2>12. Standing
      BY <2>6, <2>8 DEF Standing
    <2>13. Positive'
      <3>1. \A q \in Payments : payment[q].status # "absent" => payment[q].invoice \in Invoices
        BY DEF Inv, RowsTyped
      <3>2. \A q \in Payments : over'[q].amount = over[q].amount
                                /\ (over'[q].status = "absent" <=> over[q].status = "absent")
        BY <1>0, <2>o, <2>3 DEF TypeOK, OverRow
      <3>3. \A q \in Refunds : refund'[q].status # "absent" => refund'[q].amount > 0
        BY <1>3, <2>1, <2>r
      <3> QED BY <1>0, <2>1, <2>12, <3>1, <3>2, <3>3 DEF Positive, Standing
    <2> QED BY <2>11, <2>12, <2>13
  <1> QED BY <1>2, <1>4, <1>5 DEF RefundStep

\* The three ways to resolve an overpayment.
LEMMA OverpaymentStatus ==
    ASSUME TypeOK, Inv, MoneyInv, CancelledHoldsNoMoney, StatusInv,
           NEW p \in Payments, OverpaymentStep(p)
    PROVE  Agreement' /\ RepricingCanBeConfirmed' /\ Standing /\ Positive'
  <1>0. /\ awaiting \subseteq Fees
        /\ Agreement /\ RepricingCanBeConfirmed /\ Positive
        /\ \A j \in Invoices : invoice[j] \in Invoice /\ InvoiceAgrees(invoice[j])
        /\ \A f \in Fees : fee[f] \in Fee /\ FeeAgrees(fee[f], Billed(f))
        /\ \A q \in Payments : over[q] \in OverRow
        /\ \A q \in Payments : payment[q].status # "absent" => payment[q].invoice \in Invoices
    BY LedgerConstants DEF TypeOK, StatusInv, Agreement, Inv, RowsTyped
  <1>1. ASSUME UNCHANGED <<fee, invoice, awaiting>>
        PROVE  Agreement' /\ RepricingCanBeConfirmed' /\ Standing
    BY <1>0, <1>1 DEF Agreement, RepricingCanBeConfirmed, Billed, ActiveInvoices, Standing
  <1>2. ASSUME NEW r \in Refunds, NEW u \in Users, RefundOverpayment(p, r, u)
        PROVE  Agreement' /\ RepricingCanBeConfirmed' /\ Standing /\ Positive'
    <2>1. /\ over[p].status = "pending" /\ UNCHANGED <<fee, invoice, payment, awaiting>>
          /\ FileRefund(r, p, over[p].amount, u, "overpayment")
          /\ over' = [over EXCEPT ![p] = [@ EXCEPT !.refund = r]]
      BY <1>2 DEF RefundOverpayment, Resolvable
    <2>2. over[p].amount \in Nat \ {0}
      BY <1>0, <2>1 DEF Positive, OverRow
    <2>3. \A q \in Refunds : refund'[q].status # "absent" => refund'[q].amount > 0
      BY <1>0, <2>1, <2>2, FilePositive
    <2>4. \A q \in Payments : over'[q].amount = over[q].amount /\ over'[q].status = over[q].status
      BY <1>0, <2>1 DEF TypeOK, OverRow
    <2>5. Positive'
      BY <1>0, <2>1, <2>3, <2>4 DEF Positive
    <2> QED BY <1>1, <2>1, <2>5
  <1>3. ASSUME WriteOff(p)
        PROVE  Agreement' /\ RepricingCanBeConfirmed' /\ Standing /\ Positive'
    <2>1. /\ over[p].status = "pending" /\ UNCHANGED <<fee, invoice, payment, refund, awaiting>>
          /\ over' = [over EXCEPT ![p] = [@ EXCEPT !.status = "cancelled"]]
      BY <1>3 DEF WriteOff, Resolvable
    <2>2. \A q \in Payments : over'[q].amount = over[q].amount
                              /\ (over'[q].status = "absent" <=> over[q].status = "absent")
      BY <1>0, <2>1 DEF TypeOK, OverRow
    <2>3. Positive'
      BY <1>0, <2>1, <2>2 DEF Positive
    <2> QED BY <1>1, <2>1, <2>3
  <1>4. ASSUME NEW target \in Invoices, ApplyOverpayment(p, target)
        PROVE  Agreement' /\ RepricingCanBeConfirmed' /\ Standing /\ Positive'
    <2> DEFINE a == over[p].amount
               source == payment[p].invoice
               from == FeeOf[source]
               to == FeeOf[target]
               taken == [invoice EXCEPT ![source] = CreditLeavesInvoice(@, a)]
    <2>1. /\ Resolvable(p) /\ UNCHANGED <<payment, refund, awaiting>>
          /\ over[p].status = "pending"
          /\ invoice[target].status \notin {"absent", "cancelled"}
          /\ fee[to].status # "cancelled"
          /\ invoice' = [taken EXCEPT ![target] = PayInvoice(@, a)]
          /\ fee' = IF from = to
                    THEN [fee EXCEPT ![to] = CreditReachesFee(@, 0)]
                    ELSE [fee EXCEPT ![from] = CreditLeavesFee(@, a),
                                     ![to] = CreditReachesFee(@, a)]
          /\ over' = [over EXCEPT ![p] = [@ EXCEPT !.status = "applied", !.target = target]]
      BY <1>4 DEF ApplyOverpayment, AcceptsMoney, PayableTarget, Resolvable, PayableInvoiceStatuses
    <2>2. a \in Nat \ {0}
      BY <1>0, <2>1 DEF Positive, OverRow
    <2>3. payment[p].status = "verified" /\ a <= Holding(p, source)
      <3>1. /\ payment[p].status = "verified" /\ a <= payment[p].amount
            /\ source \in Invoices /\ Total(refund, p, {"refunded"}) = 0
        BY <2>1, ResolvableIsWhole
      <3>2. payment[p].amount \in Nat
        BY Rows
      <3>3. RefundTotal(p, {"refunded"}) = 0
        BY <3>1, Rows, TotalIs DEF RefundTotal
      <3>4. Credit(p) = 0 /\ p \in PaymentsOn(source)
        BY <2>1, <3>1 DEF Credit, PaymentsOn
      <3> HIDE DEF a, source
      <3>5. Holding(p, source) = payment[p].amount
        BY <3>2, <3>3, <3>4 DEF Holding
      <3> QED BY <3>1, <3>5
    <2>4. /\ source \in Invoices /\ from \in Fees
          /\ a <= invoice[source].paid /\ a <= fee[from].paid
          /\ fee[from].status # "cancelled" /\ invoice[source].status \notin {"absent", "cancelled"}
          /\ FeeAgrees(fee[from], TRUE) /\ Billed(from) = TRUE
      BY <2>2, <2>3, Holder
    <2> HIDE DEF a, source
    <2>5. to \in Fees /\ target \in ActiveInvoices(to)
      BY <2>1, LedgerConstants DEF ActiveInvoices, InvoicesOf
    <2>6. Billed(to) = TRUE /\ FeeAgrees(fee[to], TRUE)
      <3>1. Billed(to) = TRUE
        BY <2>5 DEF Billed
      <3> QED BY <1>0, <2>5, <3>1
    <2> HIDE DEF from, to
    <2>7. /\ InvoiceAgrees(CreditLeavesInvoice(invoice[source], a))
          /\ CreditLeavesInvoice(invoice[source], a).status \in {"paid", "partial", "issued"}
          /\ CreditLeavesInvoice(invoice[source], a).amount = invoice[source].amount
          /\ CreditLeavesInvoice(invoice[source], a) \in Invoice
      <3>1. invoice[source] \in Invoice /\ InvoiceAgrees(invoice[source])
        BY <1>0, <2>4
      <3>2. CreditLeavesInvoice(invoice[source], a) \in LooseInvoice
            /\ CreditLeavesInvoice(invoice[source], a).paid = invoice[source].paid - a
        <4>1. invoice[source] \in LooseInvoice /\ a \in Int
          BY <2>2, <2>4, Rows
        <4> QED BY <4>1, CreditLeavesInvoiceYields
      <3>3. invoice[source].paid - a \in Nat
        BY <2>2, <2>4, <3>1 DEF Invoice
      <3>4. CreditLeavesInvoice(invoice[source], a) \in Invoice
        BY <3>2, <3>3 DEF LooseInvoice, Invoice
      <3> QED BY <2>2, <2>4, <3>1, <3>4, InvoicePostings
    <2>8. \A j \in Invoices :
              /\ taken[j] \in Invoice /\ InvoiceAgrees(taken[j])
              /\ taken[j].amount = invoice[j].amount
              /\ taken[j].status \in {"absent", "cancelled"}
                   <=> invoice[j].status \in {"absent", "cancelled"}
              /\ taken[j].status = "absent" => invoice[j].status = "absent"
      BY <1>0, <2>4, <2>7 DEF TypeOK
    <2>9. taken \in [Invoices -> Invoice]
      <3>1. DOMAIN taken = Invoices
        BY DEF TypeOK
      <3> QED BY <2>8, <3>1 DEF TypeOK
    <2> HIDE DEF taken
    <2>10. /\ InvoiceAgrees(PayInvoice(taken[target], a))
           /\ PayInvoice(taken[target], a).status \in {"paid", "partial"}
           /\ PayInvoice(taken[target], a).amount = taken[target].amount
      BY <2>1, <2>2, <2>8, InvoicePostings
    <2>11. /\ invoice'[target] = PayInvoice(taken[target], a)
           /\ \A j \in Invoices \ {target} : invoice'[j] = taken[j]
      BY <2>1, <2>9
    <2>12. \A j \in Invoices :
              /\ InvoiceAgrees(invoice'[j]) /\ invoice'[j].amount = invoice[j].amount
              /\ invoice'[j].status \in {"absent", "cancelled"}
                   <=> invoice[j].status \in {"absent", "cancelled"}
      BY <2>1, <2>8, <2>10, <2>11
    <2>13. \A g \in Fees : \/ fee'[g] = fee[g]
                           \/ /\ FeeAgrees(fee'[g], Billed(g)) /\ fee'[g].status # "cancelled"
                              /\ fee'[g].final = fee[g].final /\ fee'[g].waived = fee[g].waived
      <3>1. CASE from # to
        <4>1. /\ fee'[from] = CreditLeavesFee(fee[from], a)
              /\ fee'[to] = CreditReachesFee(fee[to], a)
              /\ \A g \in Fees \ {from, to} : fee'[g] = fee[g]
          BY <2>1, <2>4, <2>5, <3>1 DEF TypeOK
        <4>2. /\ FeeAgrees(fee'[from], TRUE) /\ fee'[from].status # "cancelled"
              /\ fee'[from].final = fee[from].final /\ fee'[from].waived = fee[from].waived
          <5>1. fee[from] \in Fee
            BY <1>0, <2>4
          <5>2. /\ FeeAgrees(CreditLeavesFee(fee[from], a), TRUE)
                /\ CreditLeavesFee(fee[from], a).status # "cancelled"
                /\ CreditLeavesFee(fee[from], a).final = fee[from].final
                /\ CreditLeavesFee(fee[from], a).waived = fee[from].waived
            BY <2>2, <2>4, <5>1, FeePostings
          <5> QED BY <4>1, <5>2
        <4>3. /\ FeeAgrees(fee'[to], TRUE) /\ fee'[to].status # "cancelled"
              /\ fee'[to].final = fee[to].final /\ fee'[to].waived = fee[to].waived
          <5>1. fee[to] \in Fee
            BY <1>0, <2>5
          <5>2. /\ FeeAgrees(CreditReachesFee(fee[to], a), TRUE)
                /\ CreditReachesFee(fee[to], a).status # "cancelled"
                /\ CreditReachesFee(fee[to], a).final = fee[to].final
                /\ CreditReachesFee(fee[to], a).waived = fee[to].waived
            BY <2>1, <2>2, <2>6, <5>1, FeePostings
          <5> QED BY <4>1, <5>2
        <4> QED BY <2>4, <2>6, <4>1, <4>2, <4>3
      <3>2. CASE from = to
        <4>1. fee'[to] = CreditReachesFee(fee[to], 0) /\ \A g \in Fees \ {to} : fee'[g] = fee[g]
          <5>1. fee' = [fee EXCEPT ![to] = CreditReachesFee(@, 0)]
            BY <2>1, <3>2
          <5> QED BY <5>1, <2>5 DEF TypeOK
        <4>2. fee[to] \in Fee /\ fee[to].status \notin {"absent", "cancelled"}
              /\ fee[to].status = RecomputedStatus(fee[to], TRUE)
          BY <1>0, <2>1, <2>5, <2>6 DEF FeeAgrees
        <4>3. CreditReachesFee(fee[to], 0) = fee[to]
          <5> DEFINE t == fee[to]
                     after == [t EXCEPT !.paid = t.paid + 0]
          <5>1. after = t
            BY <4>2 DEF Fee
          <5>2. CreditReachesFee(t, 0) = [after EXCEPT !.status = CreditedFeeStatus(after)]
            BY DEF CreditReachesFee
          <5>3. CreditedFeeStatus(t) = t.status
            <6>1. FeeRemaining(t) \in Int /\ t.paid \in Nat
              BY <4>2 DEF FeeRemaining, Fee
            <6> HIDE DEF t
            <6>2. t.status = RecomputedStatus(t, TRUE)
              BY <4>2 DEF t
            <6> QED BY <6>1, <6>2 DEF CreditedFeeStatus, RecomputedStatus
          <5> HIDE DEF t, after
          <5>4. [t EXCEPT !.status = t.status] = t
            BY <4>2 DEF Fee, t
          <5>5. CreditReachesFee(t, 0) = t
            BY <5>1, <5>2, <5>3, <5>4
          <5> QED BY <5>5 DEF t
        <4> QED BY <4>1, <4>3
      <3> QED BY <3>1, <3>2
    <2>14. Agreement' /\ RepricingCanBeConfirmed'
      BY <1>0, <2>1, <2>12, <2>13, AgreementKept
    <2>15. Standing
      BY <2>8, <2>10, <2>11 DEF Standing
    <2>16. Positive'
      <3>1. \A q \in Payments : over'[q].amount = over[q].amount
                                /\ (over'[q].status = "absent" <=> over[q].status = "absent")
        BY <1>0, <2>1 DEF TypeOK, OverRow
      <3> QED BY <1>0, <2>1, <2>15, <3>1 DEF Positive, Standing
    <2> QED BY <2>14, <2>15, <2>16
  <1> QED BY <1>2, <1>3, <1>4 DEF OverpaymentStep

\* Nothing past due, no penalty and no recalculation: no job has anything to do.
NoArrears == PastDue = {} /\ ~PenaltyAllowed /\ Recalculated = {}

\* Then the jobs stay idle, and everyone else leaves them alone.
LEMMA StepIdle == NoArrears /\ Idle /\ [Next]_vars => Idle'
  <1> SUFFICES ASSUME NoArrears, Idle, [Next]_vars PROVE Idle'
    OBVIOUS
  <1>0. UNCHANGED jobs => Idle'
    BY DEF Idle, jobs
  <1>1. CASE UNCHANGED vars
    BY <1>0, <1>1 DEF vars
  <1>2. ASSUME NEW i \in Invoices, InvoiceStep(i) PROVE Idle'
    BY <1>0, <1>2 DEF InvoiceStep, CreateInvoice, IssueInvoice, CancelInvoice, ApplyPenalty
  <1>3. ASSUME NEW p \in Payments, PaymentStep(p) PROVE Idle'
    BY <1>0, <1>3 DEF PaymentStep, RecordManualPayment, VerifyPayment, RejectPayment
  <1>4. ASSUME NEW p \in Payments, OverpaymentStep(p) PROVE Idle'
    BY <1>0, <1>4 DEF OverpaymentStep, RefundOverpayment, ApplyOverpayment, WriteOff
  <1>5. ASSUME NEW r \in Refunds, RefundStep(r) PROVE Idle'
    BY <1>0, <1>5 DEF RefundStep, RequestRefund, ApproveRefund, RejectRefund, ProcessRefund
  <1>6. ASSUME NEW f \in Fees, FeeStep(f) PROVE Idle'
    <2>1. CASE CalculateFee(f) \/ CancelFee(f) \/ \E a \in Amounts : WaiveFee(f, a)
      BY <1>0, <2>1 DEF CalculateFee, CancelFee, WaiveFee
    <2>2. ASSUME NEW a \in Amounts, RepriceForMajorChange(f, a) PROVE Idle'
      BY <1>0, <2>2 DEF RepriceForMajorChange
    <2>3. CASE ConfirmMajorChange(f)
      BY <1>0, <2>3 DEF ConfirmMajorChange
    <2> QED BY <1>6, <2>1, <2>2, <2>3 DEF FeeStep
  <1>7. CASE OverdueScan \/ OverdueWrite
    BY <1>7 DEF OverdueScan, OverdueWrite, NoArrears, Idle
  <1>8. CASE Recalculate
    <2>1. ASSUME NEW f \in Fees, RecalculateRead(f) PROVE FALSE
      BY <2>1 DEF RecalculateRead, NoArrears
    <2>2. CASE (\E a \in Amounts : RecalculateWrite(a)) \/ RecalculateFails
      BY <2>2 DEF RecalculateWrite, RecalculateFails, NoRecalculation, Idle
    <2> QED BY <1>8, <2>1, <2>2 DEF Recalculate
  <1> QED BY <1>1, <1>2, <1>3, <1>4, <1>5, <1>6, <1>7, <1>8 DEF Next

\* Every step keeps the statuses in agreement.
LEMMA StepStatus ==
    NoArrears /\ TypeOK /\ Inv /\ MoneyInv /\ CancelledHoldsNoMoney /\ StatusInv /\ [Next]_vars
      => StatusInv'
  <1> SUFFICES ASSUME NoArrears, TypeOK, Inv, MoneyInv, CancelledHoldsNoMoney, StatusInv,
                      [Next]_vars
               PROVE  StatusInv'
    OBVIOUS
  <1>1. Idle'
    BY StepIdle DEF StatusInv
  <1>2. ASSUME Standing, UNCHANGED <<payment, refund, over>> PROVE Positive'
    BY <1>2 DEF StatusInv, Positive, Standing, Inv, RowsTyped
  <1>3. ASSUME UNCHANGED <<fee, invoice, awaiting>>
        PROVE  Agreement' /\ RepricingCanBeConfirmed' /\ Standing
    BY <1>3 DEF StatusInv, Agreement, RepricingCanBeConfirmed, Billed, ActiveInvoices, Standing
  <1>4. CASE UNCHANGED vars
    BY <1>1, <1>2, <1>3, <1>4 DEF vars, StatusInv
  <1>5. ASSUME NEW i \in Invoices, InvoiceStep(i) PROVE StatusInv'
    <2>1. UNCHANGED <<payment, refund, over>>
      BY <1>5, InvoiceQuiet DEF Quiet
    <2>2. Agreement' /\ RepricingCanBeConfirmed' /\ Standing
      BY <1>5, InvoiceStatus DEF NoArrears
    <2> QED BY <1>1, <1>2, <2>1, <2>2 DEF StatusInv
  <1>6. ASSUME NEW p \in Payments, PaymentStep(p) PROVE StatusInv'
    BY <1>1, <1>6, PaymentStatus DEF StatusInv
  <1>7. ASSUME NEW p \in Payments, OverpaymentStep(p) PROVE StatusInv'
    BY <1>1, <1>7, OverpaymentStatus DEF StatusInv
  <1>8. ASSUME NEW r \in Refunds, RefundStep(r) PROVE StatusInv'
    BY <1>1, <1>8, RefundStatus DEF StatusInv
  <1>9. ASSUME NEW f \in Fees, FeeStep(f) PROVE StatusInv'
    <2>1. UNCHANGED <<payment, refund, over>>
      BY <1>9, FeeQuiet DEF Quiet
    <2>2. Agreement' /\ RepricingCanBeConfirmed' /\ Standing
      BY <1>9, FeeStatus
    <2> QED BY <1>1, <1>2, <2>1, <2>2 DEF StatusInv
  <1>10. CASE OverdueScan \/ OverdueWrite \/ Recalculate
    <2>1. UNCHANGED <<fee, invoice, awaiting, payment, refund, over>>
      <3>1. CASE OverdueScan
        BY <3>1 DEF OverdueScan
      <3>2. CASE OverdueWrite
        BY <3>2 DEF OverdueWrite, StatusInv, Idle
      <3>3. CASE Recalculate
        <4>1. ~ \E a \in Amounts : RecalculateWrite(a)
          BY DEF RecalculateWrite, StatusInv, Idle, NoRecalculation
        <4>2. ~ \E f \in Fees : RecalculateRead(f)
          BY DEF RecalculateRead, NoArrears
        <4>3. ~ RecalculateFails
          BY DEF RecalculateFails, StatusInv, Idle
        <4> QED BY <3>3, <4>1, <4>2, <4>3 DEF Recalculate
      <3> QED BY <1>10, <3>1, <3>2, <3>3
    <2> QED BY <1>1, <1>2, <1>3, <2>1 DEF StatusInv
  <1> QED BY <1>4, <1>5, <1>6, <1>7, <1>8, <1>9, <1>10 DEF Next

\* The initial state.
LEMMA InitStatus == Init => StatusInv
  <1> SUFFICES ASSUME Init PROVE StatusInv
    OBVIOUS
  <1>1. \A f \in Fees : ActiveInvoices(f) = {}
    BY DEF Init, ActiveInvoices, InvoicesOf
  <1>2. Agreement
    BY <1>1 DEF Init, Agreement, InvoiceAgrees, FeeAgrees, Billed
  <1> QED BY <1>2 DEF Init, StatusInv, Positive, Idle, RepricingCanBeConfirmed

\* As long as nothing is past due and no penalty or recalculation interferes, the
\* books with their statuses are kept by every step.
LEMMA StatusInvariance ==
    ASSUME NoArrears
    PROVE  Spec => []StatusInv
  <1>1. TypeOK /\ Inv /\ MoneyInv /\ BooksHold /\ StatusInv /\ [Next]_vars => StatusInv'
    BY StepStatus DEF BooksHold
  <1> QED BY InitStatus, <1>1, TypeCorrect, Invariance, MoneyInvariance, BooksAlwaysHold, PTL
          DEF Spec

\* Whichever service wrote last, the status of a live fee is the one its amounts and
\* its active invoices imply, and an invoice is paid or partial exactly when its
\* amounts say so.
THEOREM StatusesAlwaysAgree ==
    ASSUME PastDue = {}, ~PenaltyAllowed, Recalculated = {}
    PROVE  Spec => []StatusesAgree
  <1>1. NoArrears
    BY DEF NoArrears
  <1>2. StatusInv => StatusesAgree
    BY DEF StatusInv, Agreement, InvoiceAgrees, FeeAgrees, Billed, StatusesAgree
  <1>3. Spec => []StatusInv
    BY <1>1, StatusInvariance
  <1> QED BY <1>2, <1>3, PTL

\* What the accountant has to confirm after a change of major stays there to be
\* confirmed.
THEOREM RepricingStaysConfirmable ==
    ASSUME PastDue = {}, ~PenaltyAllowed, Recalculated = {}
    PROVE  Spec => []RepricingCanBeConfirmed
  <1>1. NoArrears
    BY DEF NoArrears
  <1>2. StatusInv => RepricingCanBeConfirmed
    BY DEF StatusInv
  <1>3. Spec => []StatusInv
    BY <1>1, StatusInvariance
  <1> QED BY <1>2, <1>3, PTL
=============================================================================
