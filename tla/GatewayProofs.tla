---------------------------- MODULE GatewayProofs ----------------------------
(***************************************************************************)
(* Proofs about Gateway for every set of intents, manual payments and      *)
(* concurrent requests and every amount.                                   *)
(*                                                                         *)
(* However requests overlap, the fee is right: a callback reads it under   *)
(* its lock, and the one payment row of an intent lets a callback post     *)
(* once.  The fee implements FeeAccount, and the invoice, written from     *)
(* outdated copies, never shows more than was received (CopiesAreBacked).  *)
(* A posting goes wrong on an outdated paid amount alone: what is due is   *)
(* the same in every copy (CopiesShowTheBill).  A final status is written  *)
(* again by nobody but a request that began while it was pending.          *)
(***************************************************************************)
EXTENDS Gateway, LedgerMathProofs, TLAPS

\* Rows that exist are about an amount that can be paid; a payment that is not verified
\* has no excess.
RowsAreFilled ==
    /\ \A n \in Intents : intent[n].status # "absent" => intent[n].amount \in Amounts
    /\ \A p \in Payments : payment[p].status # "absent" => payment[p].amount \in Amounts
    /\ \A p \in Payments : payment[p].status # "verified" => payment[p].excess = 0

\* A request is about an intent, one that settles an intent about one that exists; one
\* that creates or pays an intent is about an amount.
RequestsKnowTheirIntent ==
    \A s \in Sessions :
        /\ session[s].doing # "nothing" => session[s].intent \in Intents
        /\ session[s].doing \in {"success", "failure", "expire"} =>
             intent[session[s].intent].status # "absent"
        /\ session[s].doing \in {"create", "success"} => session[s].amount \in Amounts

\* What an outdated copy of the invoice shows has been received by now.
CopiesAreBacked == \A s \in Sessions : session[s].invoice.paid <= Received

Inv ==
    /\ TypeOK
    /\ RowsAreFilled
    /\ RequestsKnowTheirIntent
    /\ FeeAccounted
    /\ CancelledFeeHasNoMoney
    /\ CreditIsBacked
    /\ CopiesAreBacked


-----------------------------------------------------------------------------
(* What a request and a posting do to the rows *)

\* An UPDATE keeps an invoice an invoice and sets the columns the request changed.
LEMMA FlushedInvoice ==
    ASSUME NEW row \in Invoice, NEW read \in Invoice, NEW new \in Invoice
    PROVE  /\ Flush(row, read, new) \in Invoice
           /\ Flush(row, read, new).paid = IF new.paid # read.paid THEN new.paid ELSE row.paid
           /\ Flush(row, read, new).amount = IF new.amount # read.amount THEN new.amount ELSE row.amount
           /\ Flush(row, read, new).penalty =
                IF new.penalty # read.penalty THEN new.penalty ELSE row.penalty
  <1>1. DOMAIN row = {"amount", "paid", "penalty", "status"}
    BY DEF Invoice
  <1> DEFINE column(c) == IF new[c] # read[c] THEN new[c] ELSE row[c]
  <1>2. Flush(row, read, new) = [c \in {"amount", "paid", "penalty", "status"} |-> column(c)]
    BY <1>1 DEF Flush
  <1>3. /\ column("amount") \in Nat /\ column("paid") \in Nat /\ column("penalty") \in Nat
        /\ column("status") \in InvoiceStatuses
    BY DEF Invoice
  <1>4. Flush(row, read, new) =
          [amount |-> column("amount"), paid |-> column("paid"),
           penalty |-> column("penalty"), status |-> column("status")]
    BY <1>2
  <1> QED BY <1>3, <1>4 DEF Invoice

\* A posting changes the paid amount and the status of an invoice and nothing else.
LEMMA PostedInvoice ==
    ASSUME NEW i \in Invoice, NEW a \in Nat
    PROVE  /\ PayInvoice(i, a) \in Invoice
           /\ PayInvoice(i, a).paid = i.paid + a
           /\ PayInvoice(i, a).amount = i.amount
           /\ PayInvoice(i, a).penalty = i.penalty
  <1> DEFINE s == CASE i.paid + a >= Due(i) -> "paid"
                    [] i.paid + a < Due(i) /\ i.paid + a > 0 -> "partial"
                    [] OTHER -> i.status
  <1>1. s \in InvoiceStatuses
    BY DEF Invoice, InvoiceStatuses, Due
  <1>2. PayInvoice(i, a) = [i EXCEPT !.paid = i.paid + a, !.status = s]
    BY DEF PayInvoice
  <1>3. i.paid + a \in Nat
    BY DEF Invoice
  <1> HIDE DEF s
  <1> QED BY <1>1, <1>2, <1>3 DEF Invoice

\* ... and of a fee, which it never cancels.
LEMMA PostedFee ==
    ASSUME NEW f \in Fee, NEW a \in Nat, f.status # "cancelled"
    PROVE  /\ PayFee(f, a) \in Fee
           /\ PayFee(f, a).paid = f.paid + a
           /\ PayFee(f, a).status # "cancelled"
  <1>1. f \in LooseFee /\ a \in Int /\ f.paid + a \in Nat
    BY DEF Fee, LooseFee
  <1>2. PICK after \in LooseFee :
           /\ after.paid = f.paid + a /\ after.status = f.status
           /\ after.final = f.final /\ after.waived = f.waived
           /\ PayFee(f, a) = [after EXCEPT !.status = PostedFeeStatus(after)]
    BY <1>1, PayFeeYields
  <1>3. PostedFeeStatus(after) \in FeeStatuses \ {"cancelled"}
    BY <1>2 DEF PostedFeeStatus, LooseFee, FeeStatuses, FeeRemaining
  <1>4. after \in Fee
    BY <1>1, <1>2 DEF Fee, LooseFee
  <1> QED BY <1>2, <1>3, <1>4 DEF Fee

\* The table of payments is finite and what came in with each is a number.
LEMMA ReceivedTyped ==
    ASSUME TypeOK
    PROVE  /\ IsFiniteSet(Payments)
           /\ \A p \in Payments : ReceivedOf[p] \in Nat
           /\ Received \in Nat
  <1>1. IsFiniteSet(Payments)
    BY GatewayConstants, FS_Union DEF Payments
  <1>2. \A p \in Payments : ReceivedOf[p] \in Nat
    BY DEF TypeOK, ReceivedOf, Payments, PaymentRow
  <1> QED BY <1>1, <1>2, SumNat DEF Received

\* The payment p of a comes in: what a callback and a verification have in common.
Posted(p, a) ==
    /\ payment[p].status # "verified"
    /\ \E e \in Nat :
         payment' = [payment EXCEPT ![p] = [status |-> "verified", amount |-> a, excess |-> e]]
    /\ fee.status # "cancelled"
    /\ fee' = PayFee(fee, a)

\* A posting brings its amount to the fee, and to the total, once.
LEMMA PostingCounts ==
    ASSUME TypeOK, NEW p \in Payments, NEW a \in Amounts, Posted(p, a)
    PROVE  /\ ReceivedOf[p] = 0
           /\ ReceivedOf' = [ReceivedOf EXCEPT ![p] = a]
           /\ Received' = Received + a
           /\ fee' \in Fee /\ fee'.paid = fee.paid + a /\ fee'.status # "cancelled"
           /\ payment' \in [Payments -> PaymentRow]
  <1>1. PICK e \in Nat :
           payment' = [payment EXCEPT ![p] = [status |-> "verified", amount |-> a, excess |-> e]]
    BY DEF Posted
  <1>2. a \in Nat
    BY GatewayConstants
  <1>3. payment \in [Payments -> PaymentRow]
    BY DEF TypeOK, Payments
  <1>4. payment' \in [Payments -> PaymentRow]
    BY <1>1, <1>2, <1>3 DEF PaymentRow
  <1>5. ReceivedOf[p] = 0
    BY DEF Posted, ReceivedOf
  <1>6. ReceivedOf' = [ReceivedOf EXCEPT ![p] = a]
    BY <1>1, <1>3 DEF ReceivedOf
  <1>7. Received' = Received + a
    <2>1. IsFiniteSet(Payments) /\ \A q \in Payments : ReceivedOf[q] \in Int
      BY ReceivedTyped
    <2>2. ASSUME NEW g, g[p] \in Int, \A q \in Payments \ {p} : g[q] = ReceivedOf[q]
          PROVE  SumFunctionOnSet(g, Payments) = Received + g[p] - ReceivedOf[p]
      BY <2>1, <2>2, SumUpdate DEF Received
    <2>3. ReceivedOf'[p] = a /\ \A q \in Payments \ {p} : ReceivedOf'[q] = ReceivedOf[q]
      BY <1>6 DEF ReceivedOf
    <2>4. SumFunctionOnSet(ReceivedOf', Payments) = Received + a - 0
      BY <1>2, <1>5, <2>2, <2>3
    <2> QED BY <1>2, <2>4, ReceivedTyped DEF Received
  <1>8. fee' \in Fee /\ fee'.paid = fee.paid + a /\ fee'.status # "cancelled"
    BY <1>2, PostedFee DEF Posted, TypeOK
  <1> QED BY <1>4, <1>5, <1>6, <1>7, <1>8

\* Where no payment becomes verified or changes once it is, nothing is received.
LEMMA NothingPosted ==
    ASSUME \A p \in Payments :
              \/ payment'[p] = payment[p]
              \/ payment[p].status # "verified" /\ payment'[p].status # "verified"
    PROVE  ReceivedOf' = ReceivedOf /\ Received' = Received
  <1>1. ReceivedOf' = ReceivedOf
    BY DEF ReceivedOf
  <1> QED BY <1>1 DEF Received

\* A callback and a verification are postings.
LEMMA Postings ==
    ASSUME TypeOK, RowsAreFilled, RequestsKnowTheirIntent
    PROVE  /\ \A s \in Sessions : CommitSuccess(s) =>
                /\ session[s].intent \in Payments /\ session[s].amount \in Amounts
                /\ Posted(session[s].intent, session[s].amount)
           /\ \A m \in Manual : VerifyPayment(m) =>
                /\ m \in Payments /\ payment[m].amount \in Amounts
                /\ Posted(m, payment[m].amount)
  <1>1. ASSUME NEW i \in Invoice, NEW a \in Amounts PROVE Excess(i, a) \in Nat
    <2>1. a \in Nat /\ i \in LooseInvoice
      BY GatewayConstants DEF Invoice, LooseInvoice
    <2> QED BY <2>1, ExcessYields, ExcessIsTheNewSurplus
  <1>2. ASSUME NEW s \in Sessions, CommitSuccess(s)
        PROVE  /\ session[s].intent \in Payments /\ session[s].amount \in Amounts
               /\ Posted(session[s].intent, session[s].amount)
    <2>1. session[s].intent \in Payments /\ session[s].amount \in Amounts
      BY <1>2 DEF CommitSuccess, RequestsKnowTheirIntent, Payments
    <2>2. session[s].invoice \in Invoice
      BY DEF TypeOK, SessionState
    <2>3. Excess(session[s].invoice, session[s].amount) \in Nat
      BY <1>1, <2>1, <2>2
    <2> QED BY <1>2, <2>1, <2>3 DEF CommitSuccess, Post, Posted, PayableTarget
  <1>3. ASSUME NEW m \in Manual, VerifyPayment(m)
        PROVE  /\ m \in Payments /\ payment[m].amount \in Amounts
               /\ Posted(m, payment[m].amount)
    <2>1. m \in Payments /\ payment[m].amount \in Amounts
      BY <1>3 DEF VerifyPayment, RowsAreFilled, Payments
    <2>2. Excess(invoice, payment[m].amount) \in Nat
      BY <1>1, <2>1 DEF TypeOK
    <2> QED BY <1>3, <2>1, <2>2 DEF VerifyPayment, Posted, PayableTarget
  <1> QED BY <1>2, <1>3

\* A request that ends leaves the others alone and remembers what it wrote.
LEMMA Ends ==
    ASSUME TypeOK, NEW s \in Sessions, End(s), fee' \in Fee, invoice' \in Invoice
    PROVE  /\ session' \in [Sessions -> SessionState]
           /\ session'[s].doing = "nothing" /\ session'[s].invoice = invoice'
           /\ \A t \in Sessions \ {s} : session'[t] = session[t]
  <1>1. [doing |-> "nothing", intent |-> NoIntent, amount |-> 0,
         fee |-> fee', invoice |-> invoice'] \in SessionState
    BY DEF SessionState
  <1> QED BY <1>1 DEF End, TypeOK

\* A request that begins reads and writes nothing.
LEMMA Begins ==
    ASSUME TypeOK, NEW s \in Sessions, NEW n \in Intents, NEW a \in Nat,
           NEW what \in {"create", "success", "failure", "expire"}, Begin(s, what, n, a)
    PROVE  /\ session' \in [Sessions -> SessionState]
           /\ session'[s].doing = what /\ session'[s].intent = n /\ session'[s].amount = a
           /\ session'[s].invoice = invoice
           /\ \A t \in Sessions \ {s} : session'[t] = session[t]
           /\ UNCHANGED <<fee, invoice, intent, payment>>
  <1>1. [doing |-> what, intent |-> n, amount |-> a, fee |-> fee, invoice |-> invoice]
          \in SessionState
    BY DEF SessionState, TypeOK
  <1> QED BY <1>1 DEF Begin, TypeOK

\* The three ways to begin.
Starts(s) ==
    \/ \E n \in Intents, a \in Amounts : BeginCreate(s, n, a)
    \/ \E n \in Intents, outcome \in {"success", "failure"} : BeginCallback(s, n, outcome)
    \/ \E n \in Intents : BeginExpire(s, n)

\* ... each with the intent, the amount and the status it is about.
LEMMA StartsAre ==
    ASSUME TypeOK, RowsAreFilled, NEW s \in Sessions, Starts(s)
    PROVE  \E n \in Intents, a \in Nat, what \in {"create", "success", "failure", "expire"} :
              /\ Begin(s, what, n, a)
              /\ what \in {"create", "success"} => a \in Amounts
              /\ what # "create" => intent[n].status = "pending"
  <1>1. Amounts \subseteq Nat
    BY GatewayConstants
  <1>2. ASSUME NEW n \in Intents, NEW a \in Amounts, BeginCreate(s, n, a)
        PROVE  Begin(s, "create", n, a)
    BY <1>2 DEF BeginCreate
  <1>3. ASSUME NEW n \in Intents, NEW outcome \in {"success", "failure"},
               BeginCallback(s, n, outcome)
        PROVE  /\ Begin(s, outcome, n, intent[n].amount)
               /\ intent[n].amount \in Amounts /\ intent[n].status = "pending"
    BY <1>3 DEF BeginCallback, RowsAreFilled
  <1>4. ASSUME NEW n \in Intents, BeginExpire(s, n)
        PROVE  Begin(s, "expire", n, 0) /\ intent[n].status = "pending"
    BY <1>4 DEF BeginExpire
  <1>5. CASE \E n \in Intents, a \in Amounts : BeginCreate(s, n, a)
    BY <1>1, <1>2, <1>5
  <1>6. CASE \E n \in Intents, outcome \in {"success", "failure"} : BeginCallback(s, n, outcome)
    <2>1. PICK n \in Intents, outcome \in {"success", "failure"} : BeginCallback(s, n, outcome)
      BY <1>6
    <2>2. /\ Begin(s, outcome, n, intent[n].amount)
          /\ intent[n].amount \in Amounts /\ intent[n].status = "pending"
      BY <1>3, <2>1
    <2> QED BY <1>1, <2>2
  <1>7. CASE \E n \in Intents : BeginExpire(s, n)
    <2>1. PICK n \in Intents : Begin(s, "expire", n, 0) /\ intent[n].status = "pending"
      BY <1>4, <1>7
    <2> QED BY <2>1
  <1> QED BY <1>5, <1>6, <1>7 DEF Starts

\* Next, with the requests taken apart.
LEMMA NextIs ==
    ASSUME [Next]_vars
    PROVE  \/ \E s \in Sessions :
                \/ Starts(s) \/ Rollback(s) \/ CommitCreate(s) \/ CommitSuccess(s)
                \/ CommitFailure(s) \/ CommitExpire(s)
           \/ \E n \in Intents : Expires(n)
           \/ \E m \in Manual, a \in Amounts : RecordManualPayment(m, a)
           \/ \E m \in Manual : VerifyPayment(m)
           \/ CancelFee
           \/ UNCHANGED vars
  BY DEF Next, Request, Starts

-----------------------------------------------------------------------------
(* The invariant *)

\* The initial state satisfies it: nothing was received and nothing is shown.
LEMMA InitInv == Init => Inv
  <1> SUFFICES ASSUME Init PROVE Inv
    OBVIOUS
  <1> USE GatewayConstants
  <1>1. TypeOK
    <2>1. fee \in Fee /\ invoice \in Invoice
      BY DEF Init, Fee, Invoice, FeeStatuses, InvoiceStatuses
    <2>2. intent \in [Intents -> IntentRow]
      BY DEF Init, IntentRow
    <2>3. payment \in [Intents \cup Manual -> PaymentRow]
      BY DEF Init, PaymentRow
    <2>4. session \in [Sessions -> SessionState]
      BY <2>1 DEF Init, SessionState
    <2> QED BY <2>1, <2>2, <2>3, <2>4 DEF TypeOK
  <1>2. RowsAreFilled
    BY DEF Init, RowsAreFilled, Payments
  <1>3. RequestsKnowTheirIntent
    BY DEF Init, RequestsKnowTheirIntent
  <1>4. Received = 0
    <2>1. \A p \in Payments : ReceivedOf[p] = 0
      BY DEF Init, ReceivedOf, Payments
    <2> QED BY <1>1, <2>1, ReceivedTyped, SumZero DEF Received
  <1>5. FeeAccounted /\ CancelledFeeHasNoMoney
    BY <1>4 DEF Init, FeeAccounted, FeeBalance, CompletedIsPaid, CancelledFeeHasNoMoney
  <1>6. CreditIsBacked /\ CopiesAreBacked
    BY <1>4 DEF Init, CreditIsBacked, CopiesAreBacked
  <1> QED BY <1>1, <1>2, <1>3, <1>5, <1>6 DEF Inv

\* Every step leaves rows and copies typed: amounts stay natural because copies only
\* show what an invoice once showed.
LEMMA StepTypeOK == Inv /\ [Next]_vars => TypeOK'
  <1> SUFFICES ASSUME Inv, [Next]_vars PROVE TypeOK'
    OBVIOUS
  <1>t. /\ TypeOK /\ RowsAreFilled /\ RequestsKnowTheirIntent
        /\ fee \in Fee /\ invoice \in Invoice /\ intent \in [Intents -> IntentRow]
        /\ payment \in [Intents \cup Manual -> PaymentRow]
        /\ session \in [Sessions -> SessionState]
    BY DEF Inv, TypeOK
  <1>1. ASSUME NEW s \in Sessions, Starts(s) PROVE TypeOK'
    BY <1>1, <1>t, StartsAre, Begins DEF TypeOK
  <1>2. ASSUME NEW s \in Sessions, Rollback(s) PROVE TypeOK'
    <2>1. End(s) /\ UNCHANGED <<fee, invoice, intent, payment>>
      BY <1>2 DEF Rollback
    <2> QED BY <1>t, <2>1, Ends DEF TypeOK
  <1>3. ASSUME NEW s \in Sessions, CommitCreate(s) PROVE TypeOK'
    <2> DEFINE n == session[s].intent
               a == session[s].amount
    <2>1. End(s) /\ UNCHANGED <<fee, invoice, payment>>
      BY <1>3 DEF CommitCreate
    <2>2. session' \in [Sessions -> SessionState]
      BY <1>t, <2>1, Ends
    <2>3. [amount |-> a, late |-> FALSE, status |-> "pending"] \in IntentRow
      BY <1>t DEF IntentRow, SessionState
    <2>4. intent' \in [Intents -> IntentRow]
      BY <1>3, <1>t, <2>3 DEF CommitCreate
    <2> QED BY <1>t, <2>1, <2>2, <2>4 DEF TypeOK
  <1>4. ASSUME NEW s \in Sessions, CommitSuccess(s) PROVE TypeOK'
    <2> DEFINE a == session[s].amount
               copy == session[s].invoice
    <2>1. /\ session[s].intent \in Payments /\ a \in Amounts
          /\ Posted(session[s].intent, a)
      BY <1>4, <1>t, Postings
    <2>2. fee' \in Fee /\ payment' \in [Intents \cup Manual -> PaymentRow]
      BY <1>t, <2>1, PostingCounts DEF Payments
    <2>3. invoice' \in Invoice
      <3>1. copy \in Invoice /\ a \in Nat
        BY <1>t, <2>1, GatewayConstants DEF SessionState
      <3>2. invoice' = Flush(invoice, copy, PayInvoice(copy, a))
        BY <1>4 DEF CommitSuccess, Post
      <3> QED BY <1>t, <3>1, <3>2, PostedInvoice, FlushedInvoice
    <2>4. intent' \in [Intents -> IntentRow]
      BY <1>4, <1>t DEF CommitSuccess, IntentRow
    <2>5. session' \in [Sessions -> SessionState]
      BY <1>4, <1>t, <2>2, <2>3, Ends DEF CommitSuccess
    <2> QED BY <2>2, <2>3, <2>4, <2>5 DEF TypeOK
  <1>5. ASSUME NEW s \in Sessions, CommitFailure(s) \/ CommitExpire(s) PROVE TypeOK'
    <2>1. End(s) /\ UNCHANGED <<fee, invoice, payment>>
      BY <1>5 DEF CommitFailure, CommitExpire
    <2>2. session' \in [Sessions -> SessionState]
      BY <1>t, <2>1, Ends
    <2>3. intent' \in [Intents -> IntentRow]
      BY <1>5, <1>t DEF CommitFailure, CommitExpire, IntentRow
    <2> QED BY <1>t, <2>1, <2>2, <2>3 DEF TypeOK
  <1>6. ASSUME NEW n \in Intents, Expires(n) PROVE TypeOK'
    <2>1. intent' \in [Intents -> IntentRow]
      BY <1>6, <1>t DEF Expires, IntentRow
    <2> QED BY <1>6, <1>t, <2>1 DEF Expires, TypeOK
  <1>7. ASSUME NEW m \in Manual, NEW a \in Amounts, RecordManualPayment(m, a) PROVE TypeOK'
    <2>1. a \in Nat
      BY GatewayConstants
    <2>2. payment' \in [Intents \cup Manual -> PaymentRow]
      BY <1>7, <1>t, <2>1 DEF RecordManualPayment, PaymentRow
    <2> QED BY <1>7, <1>t, <2>2 DEF RecordManualPayment, TypeOK
  <1>8. ASSUME NEW m \in Manual, VerifyPayment(m) PROVE TypeOK'
    <2>1. /\ m \in Payments /\ payment[m].amount \in Amounts
          /\ Posted(m, payment[m].amount)
      BY <1>8, <1>t, Postings
    <2>2. fee' \in Fee /\ payment' \in [Intents \cup Manual -> PaymentRow]
      BY <1>t, <2>1, PostingCounts DEF Payments
    <2>3. invoice' \in Invoice
      <3>1. payment[m].amount \in Nat
        BY <2>1, GatewayConstants
      <3>2. invoice' = PayInvoice(invoice, payment[m].amount)
        BY <1>8 DEF VerifyPayment
      <3> QED BY <1>t, <3>1, <3>2, PostedInvoice
    <2> QED BY <1>8, <1>t, <2>2, <2>3 DEF VerifyPayment, TypeOK
  <1>9. CASE CancelFee
    <2>1. [fee EXCEPT !.status = "cancelled"] \in Fee
      BY <1>t DEF Fee, FeeStatuses
    <2>2. [invoice EXCEPT !.status = "cancelled"] \in Invoice
      BY <1>t DEF Invoice, InvoiceStatuses
    <2> QED BY <1>9, <1>t, <2>1, <2>2 DEF CancelFee, TypeOK
  <1>10. CASE UNCHANGED vars
    BY <1>10, <1>t DEF vars, TypeOK
  <1> QED BY <1>1, <1>2, <1>3, <1>4, <1>5, <1>6, <1>7, <1>8, <1>9, <1>10, NextIs

\* What a request creates or records is about an amount, and only a posting has an
\* excess.
LEMMA StepRows == Inv /\ [Next]_vars => RowsAreFilled'
  <1> SUFFICES ASSUME Inv, [Next]_vars PROVE RowsAreFilled'
    OBVIOUS
  <1>t. /\ TypeOK /\ RowsAreFilled /\ RequestsKnowTheirIntent
        /\ intent \in [Intents -> IntentRow] /\ payment \in [Payments -> PaymentRow]
    BY DEF Inv, TypeOK, Payments
  <1> DEFINE Sized == \A n \in Intents : intent[n].status # "absent" => intent[n].amount \in Amounts
             Exact == /\ \A p \in Payments : payment[p].status # "absent" => payment[p].amount \in Amounts
                      /\ \A p \in Payments : payment[p].status # "verified" => payment[p].excess = 0
  <1>s. Sized /\ Exact /\ (Sized' /\ Exact' => RowsAreFilled')
    BY <1>t DEF RowsAreFilled
  <1>1. ASSUME NEW s \in Sessions, Starts(s) \/ Rollback(s) PROVE UNCHANGED <<intent, payment>>
    BY <1>1, <1>t, StartsAre, Begins DEF Rollback
  <1>2. ASSUME NEW s \in Sessions, CommitCreate(s) PROVE Sized' /\ UNCHANGED payment
    <2>1. session[s].amount \in Amounts
      BY <1>2, <1>t DEF CommitCreate, RequestsKnowTheirIntent
    <2> QED BY <1>2, <1>t, <1>s, <2>1 DEF CommitCreate
  <1>3. ASSUME NEW s \in Sessions,
               CommitSuccess(s) \/ CommitFailure(s) \/ CommitExpire(s)
        PROVE  Sized'
    <2> DEFINE k == session[s].intent
    <2>1. k \in Intents /\ intent[k].status # "absent"
      BY <1>3, <1>t DEF CommitSuccess, CommitFailure, CommitExpire, RequestsKnowTheirIntent
    <2>2. \E x \in {"completed", "failed", "expired"} : intent' = [intent EXCEPT ![k].status = x]
      BY <1>3 DEF CommitSuccess, CommitFailure, CommitExpire
    <2>3. \A n \in Intents : /\ intent'[n].amount = intent[n].amount
                             /\ n # k => intent'[n].status = intent[n].status
      BY <1>t, <2>2 DEF IntentRow
    <2> QED BY <1>s, <2>1, <2>3
  <1>4. ASSUME NEW p \in Payments, NEW a \in Amounts, Posted(p, a) PROVE Exact'
    <2>1. PICK e \in Nat :
             payment' = [payment EXCEPT ![p] = [status |-> "verified", amount |-> a, excess |-> e]]
      BY <1>4 DEF Posted
    <2> QED BY <1>t, <1>s, <2>1
  <1>5. ASSUME NEW s \in Sessions, CommitSuccess(s) PROVE Exact'
    BY <1>4, <1>5, <1>t, Postings
  <1>6. ASSUME NEW s \in Sessions, CommitFailure(s) \/ CommitExpire(s) PROVE UNCHANGED payment
    BY <1>6 DEF CommitFailure, CommitExpire
  <1>7. ASSUME NEW n \in Intents, Expires(n) PROVE Sized' /\ UNCHANGED payment
    <2>1. \A k \in Intents : intent'[k].amount = intent[k].amount /\ intent'[k].status = intent[k].status
      BY <1>7, <1>t DEF Expires, IntentRow
    <2> QED BY <1>7, <1>s, <2>1 DEF Expires
  <1>8. ASSUME NEW m \in Manual, NEW a \in Amounts, RecordManualPayment(m, a)
        PROVE  Exact' /\ UNCHANGED intent
    <2>1. m \in Payments
      BY DEF Payments
    <2> QED BY <1>8, <1>t, <1>s, <2>1 DEF RecordManualPayment
  <1>9. ASSUME NEW m \in Manual, VerifyPayment(m) PROVE Exact' /\ UNCHANGED intent
    <2>1. Exact'
      BY <1>4, <1>9, <1>t, Postings
    <2> QED BY <1>9, <2>1 DEF VerifyPayment
  <1>10. CASE CancelFee \/ UNCHANGED vars
    BY <1>10, <1>t DEF CancelFee, vars, RowsAreFilled, Payments
  <1>11. ASSUME UNCHANGED payment PROVE Exact'
    BY <1>11, <1>s
  <1>12. ASSUME UNCHANGED intent PROVE Sized'
    BY <1>12, <1>s
  <1> HIDE DEF Sized, Exact
  <1> QED
    BY <1>s, <1>1, <1>2, <1>3, <1>5, <1>6, <1>7, <1>8, <1>9, <1>10, <1>11, <1>12, NextIs

\* A request keeps what it began with, and no intent disappears.
LEMMA StepRequests == Inv /\ [Next]_vars => RequestsKnowTheirIntent'
  <1> SUFFICES ASSUME Inv, [Next]_vars PROVE RequestsKnowTheirIntent'
    OBVIOUS
  <1>t. /\ TypeOK /\ RowsAreFilled /\ RequestsKnowTheirIntent
        /\ intent \in [Intents -> IntentRow] /\ session \in [Sessions -> SessionState]
    BY DEF Inv, TypeOK
  <1>u. fee' \in Fee /\ invoice' \in Invoice
    BY StepTypeOK DEF TypeOK
  <1>1. ASSUME NEW s \in Sessions, Starts(s) PROVE RequestsKnowTheirIntent'
    <2>1. PICK n \in Intents, a \in Nat, what \in {"create", "success", "failure", "expire"} :
             /\ Begin(s, what, n, a)
             /\ what \in {"create", "success"} => a \in Amounts
             /\ what # "create" => intent[n].status = "pending"
      BY <1>1, <1>t, StartsAre
    <2>2. /\ session'[s].doing = what /\ session'[s].intent = n /\ session'[s].amount = a
          /\ \A t \in Sessions \ {s} : session'[t] = session[t]
          /\ intent' = intent
      BY <1>t, <2>1, Begins
    <2> QED BY <1>t, <2>1, <2>2 DEF RequestsKnowTheirIntent
  <1>2. ASSUME NEW s \in Sessions, End(s),
               \A n \in Intents : intent[n].status # "absent" => intent'[n].status # "absent"
        PROVE  RequestsKnowTheirIntent'
    <2>1. session'[s].doing = "nothing" /\ \A t \in Sessions \ {s} : session'[t] = session[t]
      BY <1>2, <1>t, <1>u, Ends
    <2> QED BY <1>2, <1>t, <2>1 DEF RequestsKnowTheirIntent
  <1>3. ASSUME NEW s \in Sessions,
               \/ Rollback(s) \/ CommitCreate(s) \/ CommitSuccess(s)
               \/ CommitFailure(s) \/ CommitExpire(s)
        PROVE  RequestsKnowTheirIntent'
    <2>1. End(s)
      BY <1>3 DEF Rollback, CommitCreate, CommitSuccess, CommitFailure, CommitExpire
    <2>2. \A n \in Intents : intent[n].status # "absent" => intent'[n].status # "absent"
      BY <1>3, <1>t DEF Rollback, CommitCreate, CommitSuccess, CommitFailure, CommitExpire, IntentRow
    <2> QED BY <1>2, <2>1, <2>2
  <1>4. ASSUME NEW n \in Intents, Expires(n) PROVE RequestsKnowTheirIntent'
    <2>1. \A k \in Intents : intent'[k].status = intent[k].status
      BY <1>4, <1>t DEF Expires, IntentRow
    <2> QED BY <1>4, <1>t, <2>1 DEF Expires, RequestsKnowTheirIntent
  <1>5. CASE \/ \E m \in Manual, a \in Amounts : RecordManualPayment(m, a)
             \/ \E m \in Manual : VerifyPayment(m)
             \/ CancelFee \/ UNCHANGED vars
    <2>1. UNCHANGED <<intent, session>>
      BY <1>5 DEF RecordManualPayment, VerifyPayment, CancelFee, vars
    <2> QED BY <1>t, <2>1 DEF RequestsKnowTheirIntent
  <1> QED BY <1>1, <1>3, <1>4, <1>5, NextIs

\* Every step is a posting or moves no money: the one other step that writes the fee
\* cancels it while nothing is paid.
LEMMA StepMoney ==
    ASSUME Inv, [Next]_vars
    PROVE  \/ \E p \in Payments, a \in Amounts : Posted(p, a)
           \/ /\ ReceivedOf' = ReceivedOf /\ Received' = Received
              /\ fee'.paid = fee.paid /\ invoice'.paid = invoice.paid
              /\ fee' = fee \/ (fee.paid = 0 /\ fee'.status = "cancelled")
  <1> DEFINE Quiet == \A p \in Payments :
                         \/ payment'[p] = payment[p]
                         \/ payment[p].status # "verified" /\ payment'[p].status # "verified"
  <1>t. /\ TypeOK /\ RowsAreFilled /\ RequestsKnowTheirIntent
        /\ fee \in Fee /\ invoice \in Invoice /\ payment \in [Payments -> PaymentRow]
    BY DEF Inv, TypeOK, Payments
  <1>1. ASSUME NEW s \in Sessions,
               Starts(s) \/ Rollback(s) \/ CommitCreate(s) \/ CommitFailure(s) \/ CommitExpire(s)
        PROVE  UNCHANGED <<fee, invoice, payment>>
    BY <1>1, <1>t, StartsAre, Begins DEF Rollback, CommitCreate, CommitFailure, CommitExpire
  <1>2. CASE \/ \E s \in Sessions : \/ Starts(s) \/ Rollback(s) \/ CommitCreate(s)
                                    \/ CommitFailure(s) \/ CommitExpire(s)
             \/ \E n \in Intents : Expires(n)
             \/ UNCHANGED vars
    <2>1. UNCHANGED <<fee, invoice, payment>>
      BY <1>1, <1>2 DEF Expires, vars
    <2> QED BY <2>1, NothingPosted
  <1>3. CASE \E m \in Manual, a \in Amounts : RecordManualPayment(m, a)
    <2>1. Quiet /\ UNCHANGED <<fee, invoice>>
      BY <1>3, <1>t DEF RecordManualPayment, Payments
    <2> QED BY <2>1, NothingPosted
  <1>4. CASE CancelFee
    <2>1. payment' = payment /\ fee.paid = 0
      BY <1>4 DEF CancelFee
    <2>2. fee'.paid = fee.paid /\ fee'.status = "cancelled" /\ invoice'.paid = invoice.paid
      BY <1>4, <1>t DEF CancelFee, Fee, Invoice
    <2> QED BY <2>1, <2>2, NothingPosted
  <1>5. CASE (\E s \in Sessions : CommitSuccess(s)) \/ (\E m \in Manual : VerifyPayment(m))
    BY <1>5, <1>t, Postings
  <1> QED BY <1>2, <1>3, <1>4, <1>5, NextIs

\* A verified payment stays verified; an intent that becomes completed has one.
LEMMA StepPaid == Inv /\ [Next]_vars => CompletedIsPaid'
  <1> SUFFICES ASSUME Inv, [Next]_vars PROVE CompletedIsPaid'
    OBVIOUS
  <1>t. /\ TypeOK /\ CompletedIsPaid
        /\ intent \in [Intents -> IntentRow] /\ payment \in [Intents \cup Manual -> PaymentRow]
    BY DEF Inv, TypeOK, FeeAccounted
  <1> DEFINE Kept == \A n \in Intents : payment[n].status = "verified" => payment'[n].status = "verified"
             NoneCompleted == \A n \in Intents :
                                intent'[n].status = "completed" => intent[n].status = "completed"
  <1>0. ASSUME Kept, NoneCompleted PROVE CompletedIsPaid'
    BY <1>0, <1>t DEF CompletedIsPaid
  <1>1. ASSUME NEW s \in Sessions, Starts(s) \/ Rollback(s) PROVE Kept /\ NoneCompleted
    BY <1>1, <1>t, StartsAre, Begins DEF Inv, Rollback
  <1>2. ASSUME NEW s \in Sessions, CommitCreate(s) \/ CommitFailure(s) \/ CommitExpire(s)
        PROVE  Kept /\ NoneCompleted
    BY <1>2, <1>t DEF CommitCreate, CommitFailure, CommitExpire, IntentRow
  <1>3. ASSUME NEW s \in Sessions, CommitSuccess(s) PROVE CompletedIsPaid'
    <2> DEFINE k == session[s].intent
             row == [status |-> "verified", amount |-> session[s].amount,
                     excess |-> Excess(session[s].invoice, session[s].amount)]
    <2>1. payment' = [payment EXCEPT ![k] = row] /\ row.status = "verified"
      BY <1>3 DEF CommitSuccess, Post
    <2>2. \A n \in Intents : n = k => payment'[n].status = "verified"
      BY <1>t, <2>1
    <2>3. \A n \in Intents : n # k => payment'[n] = payment[n] /\ intent'[n] = intent[n]
      BY <1>3, <1>t, <2>1 DEF CommitSuccess
    <2> QED BY <1>t, <2>2, <2>3 DEF CompletedIsPaid
  <1>4. ASSUME NEW n \in Intents, Expires(n) PROVE Kept /\ NoneCompleted
    BY <1>4, <1>t DEF Expires, IntentRow
  <1>5. ASSUME NEW m \in Manual, VerifyPayment(m) \/ \E a \in Amounts : RecordManualPayment(m, a)
        PROVE  Kept /\ NoneCompleted
    BY <1>5, <1>t, GatewayConstants DEF VerifyPayment, RecordManualPayment
  <1>6. CASE CancelFee \/ UNCHANGED vars
    BY <1>0, <1>6 DEF CancelFee, vars
  <1> HIDE DEF Kept, NoneCompleted
  <1> QED BY <1>0, <1>1, <1>2, <1>3, <1>4, <1>5, <1>6, NextIs

\* The fee is right after a posting because it is read under its lock, and a posting on
\* a cancelled fee is refused.
LEMMA StepFee == Inv /\ [Next]_vars => FeeAccounted' /\ CancelledFeeHasNoMoney'
  <1> SUFFICES ASSUME Inv, [Next]_vars PROVE FeeBalance' /\ CancelledFeeHasNoMoney'
    BY StepPaid DEF FeeAccounted
  <1>t. TypeOK /\ fee.paid = Received /\ (fee.status = "cancelled" => Received = 0)
    BY DEF Inv, FeeAccounted, FeeBalance, CancelledFeeHasNoMoney
  <1>1. ASSUME NEW p \in Payments, NEW a \in Amounts, Posted(p, a)
        PROVE  FeeBalance' /\ CancelledFeeHasNoMoney'
    BY <1>1, <1>t, PostingCounts DEF FeeBalance, CancelledFeeHasNoMoney
  <1>2. ASSUME Received' = Received, fee'.paid = fee.paid,
               fee' = fee \/ (fee.paid = 0 /\ fee'.status = "cancelled")
        PROVE  FeeBalance' /\ CancelledFeeHasNoMoney'
    BY <1>2, <1>t DEF FeeBalance, CancelledFeeHasNoMoney
  <1> QED BY <1>1, <1>2, StepMoney

\* A copy changes when its request begins, which reads the row, or ends.
LEMMA StepSession ==
    ASSUME Inv, [Next]_vars, NEW s \in Sessions
    PROVE  \/ session'[s] = session[s]
           \/ session'[s].doing = "nothing" /\ session'[s].invoice = invoice'
           \/ /\ session'[s].invoice = invoice /\ UNCHANGED <<invoice, intent>>
              /\ session'[s].doing # "create" => intent[session'[s].intent].status = "pending"
  <1>t. TypeOK /\ RowsAreFilled /\ fee' \in Fee /\ invoice' \in Invoice
    BY StepTypeOK DEF Inv, TypeOK
  <1>1. ASSUME NEW t \in Sessions, Starts(t), s = t
        PROVE  /\ session'[s].invoice = invoice /\ UNCHANGED <<invoice, intent>>
               /\ session'[s].doing # "create" => intent[session'[s].intent].status = "pending"
    BY <1>1, <1>t, StartsAre, Begins
  <1>2. ASSUME NEW t \in Sessions, Starts(t), s # t PROVE session'[s] = session[s]
    BY <1>2, <1>t, StartsAre, Begins
  <1>3. ASSUME NEW t \in Sessions,
               \/ Rollback(t) \/ CommitCreate(t) \/ CommitSuccess(t)
               \/ CommitFailure(t) \/ CommitExpire(t)
        PROVE  \/ session'[s].doing = "nothing" /\ session'[s].invoice = invoice'
               \/ session'[s] = session[s]
    <2>1. End(t)
      BY <1>3 DEF Rollback, CommitCreate, CommitSuccess, CommitFailure, CommitExpire
    <2> QED BY <1>t, <2>1, Ends
  <1>4. ASSUME \/ \E n \in Intents : Expires(n)
               \/ \E m \in Manual, a \in Amounts : RecordManualPayment(m, a)
               \/ \E m \in Manual : VerifyPayment(m)
               \/ CancelFee \/ UNCHANGED vars
        PROVE  session'[s] = session[s]
    BY <1>4 DEF Expires, RecordManualPayment, VerifyPayment, CancelFee, vars
  <1> QED BY <1>1, <1>2, <1>3, <1>4, NextIs

\* What was received only grows, and every posting on a copy adds its own amount to
\* something that was received: the invoice loses postings, it does not invent any.
LEMMA StepBacked == Inv /\ [Next]_vars => CreditIsBacked' /\ CopiesAreBacked'
  <1> SUFFICES ASSUME Inv, [Next]_vars PROVE CreditIsBacked' /\ CopiesAreBacked'
    OBVIOUS
  <1>t. /\ TypeOK /\ RowsAreFilled /\ RequestsKnowTheirIntent
        /\ invoice \in Invoice /\ session \in [Sessions -> SessionState]
        /\ invoice.paid <= Received /\ \A s \in Sessions : session[s].invoice.paid <= Received
    BY DEF Inv, TypeOK, CreditIsBacked, CopiesAreBacked
  <1>u. fee' \in Fee /\ invoice' \in Invoice /\ invoice'.paid \in Nat
    BY StepTypeOK DEF TypeOK, Invoice
  <1>v. invoice.paid \in Nat /\ \A s \in Sessions : session[s].invoice \in Invoice /\ session[s].invoice.paid \in Nat
    BY <1>t DEF SessionState, Invoice
  <1>w. Received \in Nat /\ Amounts \subseteq Nat
    BY <1>t, ReceivedTyped, GatewayConstants
  <1>m. Received' \in Nat /\ Received <= Received'
    <2>1. Received' = Received \/ \E a \in Amounts : Received' = Received + a
      BY <1>t, StepMoney, PostingCounts
    <2> HIDE DEF Received
    <2> QED BY <1>w, <2>1
  <1>1. invoice'.paid <= Received'
    <2>1. ASSUME NEW s \in Sessions, CommitSuccess(s) PROVE invoice'.paid <= Received'
      <3> DEFINE a == session[s].amount
                 copy == session[s].invoice
      <3>1. a \in Amounts /\ Received' = Received + a
        BY <1>t, <2>1, Postings, PostingCounts
      <3>2. invoice' = Flush(invoice, copy, PayInvoice(copy, a))
        BY <2>1 DEF CommitSuccess, Post
      <3>3. a \in Nat /\ copy \in Invoice /\ copy.paid \in Nat /\ copy.paid <= Received
        BY <1>t, <1>v, <1>w, <3>1
      <3> HIDE DEF a, copy
      <3>4. PayInvoice(copy, a) \in Invoice /\ PayInvoice(copy, a).paid = copy.paid + a
        BY <3>3, PostedInvoice
      <3>5. invoice'.paid = copy.paid + a \/ invoice'.paid = invoice.paid
        BY <1>t, <3>2, <3>3, <3>4, FlushedInvoice
      <3>6. CASE invoice'.paid = copy.paid + a
        BY <1>w, <3>1, <3>3, <3>6
      <3> QED BY <1>m, <1>t, <1>v, <1>w, <3>5, <3>6
    <2>2. ASSUME NEW m \in Manual, VerifyPayment(m) PROVE invoice'.paid <= Received'
      <3>1. payment[m].amount \in Amounts /\ Received' = Received + payment[m].amount
        BY <1>t, <2>2, Postings, PostingCounts
      <3>2. invoice'.paid = invoice.paid + payment[m].amount
        BY <1>t, <1>w, <2>2, <3>1, PostedInvoice DEF VerifyPayment
      <3>3. payment[m].amount \in Nat /\ invoice.paid \in Nat /\ invoice.paid <= Received
        BY <1>t, <1>v, <1>w, <3>1
      <3> QED BY <1>w, <3>1, <3>2, <3>3
    <2>3. ASSUME NEW s \in Sessions,
                 Starts(s) \/ Rollback(s) \/ CommitCreate(s) \/ CommitFailure(s) \/ CommitExpire(s)
          PROVE  invoice' = invoice
      BY <2>3, <1>t, StartsAre, Begins DEF Rollback, CommitCreate, CommitFailure, CommitExpire
    <2>4. CASE invoice'.paid = invoice.paid
      BY <1>t, <1>v, <1>w, <1>m, <2>4
    <2>5. ASSUME CancelFee PROVE invoice'.paid = invoice.paid
      BY <2>5, <1>t DEF CancelFee, Invoice
    <2>6. ASSUME \/ \E n \in Intents : Expires(n)
                 \/ \E m \in Manual, a \in Amounts : RecordManualPayment(m, a)
                 \/ UNCHANGED vars
          PROVE  invoice' = invoice
      BY <2>6 DEF Expires, RecordManualPayment, vars
    <2> QED BY <2>1, <2>2, <2>3, <2>4, <2>5, <2>6, NextIs
  <1>2. \A s \in Sessions :
           session'[s].invoice \in {session[s].invoice, invoice, invoice'}
    BY StepSession
  <1>3. ASSUME NEW s \in Sessions PROVE session'[s].invoice.paid <= Received'
    <2>1. session'[s].invoice \in {session[s].invoice, invoice, invoice'}
      BY <1>2
    <2> QED BY <1>1, <1>m, <1>t, <1>u, <1>v, <1>w, <2>1
  <1> QED BY <1>1, <1>3 DEF CreditIsBacked, CopiesAreBacked

\* The invariant holds in every reachable state.
THEOREM InvHolds == Spec => []Inv
  <1>1. Inv /\ [Next]_vars => Inv'
    BY StepTypeOK, StepRows, StepRequests, StepFee, StepBacked DEF Inv
  <1> QED BY InitInv, <1>1, PTL DEF Spec

\* Rows have the types of their tables; a session holds copies of rows.
THEOREM TypeCorrect == Spec => []TypeOK
  <1> Inv => TypeOK
    BY DEF Inv
  <1> QED BY InvHolds, PTL

\* However callbacks repeat and overlap, each completed intent has brought its amount to
\* the fee once.
THEOREM FeeIsAccounted == Spec => []FeeAccounted
  <1> Inv => FeeAccounted
    BY DEF Inv
  <1> QED BY InvHolds, PTL

\* Money never stays on a cancelled fee.
THEOREM CancelledStaysEmpty == Spec => []CancelledFeeHasNoMoney
  <1> Inv => CancelledFeeHasNoMoney
    BY DEF Inv
  <1> QED BY InvHolds, PTL

\* A callback on an outdated copy loses money on the invoice; it never adds any.
THEOREM CreditAlwaysBacked == Spec => []CreditIsBacked
  <1> Inv => CreditIsBacked
    BY DEF Inv
  <1> QED BY InvHolds, PTL

\* The fee is a FeeAccount: a posting receives one payment, a cancellation closes it,
\* and no other step touches it.
THEOREM Refinement == Spec => Implements
  <1>1. Init => Account!Init
    <2> SUFFICES ASSUME Init PROVE Account!Init
      OBVIOUS
    <2>1. ReceivedOf = [p \in Payments |-> 0]
      BY DEF Init, ReceivedOf, Payments
    <2> QED BY <2>1 DEF Init, Account!Init
  <1>2. Inv /\ [Next]_vars => [Account!Next]_<<ReceivedOf, fee.paid, fee.status # "cancelled">>
    <2> SUFFICES ASSUME Inv, [Next]_vars
                 PROVE  Account!Next \/ UNCHANGED <<ReceivedOf, fee.paid, fee.status # "cancelled">>
      OBVIOUS
    <2>1. ASSUME NEW p \in Payments, NEW a \in Amounts, Posted(p, a) PROVE Account!Receive(p, a)
      <3>1. /\ ReceivedOf[p] = 0 /\ ReceivedOf' = [ReceivedOf EXCEPT ![p] = a]
            /\ fee'.paid = fee.paid + a /\ fee'.status # "cancelled"
        BY <2>1, PostingCounts DEF Inv
      <3>2. fee.status # "cancelled"
        BY <2>1 DEF Posted
      <3> QED BY <3>1, <3>2 DEF Account!Receive
    <2>2. ASSUME ReceivedOf' = ReceivedOf, fee.paid = 0, fee'.paid = fee.paid, fee'.status = "cancelled"
          PROVE  Account!Close
      BY <2>2 DEF Account!Close
    <2> QED BY <2>1, <2>2, StepMoney DEF Account!Next
  <1> QED BY <1>1, <1>2, InvHolds, PTL DEF Spec, Implements, Account!Spec

-----------------------------------------------------------------------------
(* What overtaken requests break, and nothing else does *)

\* No step changes what is due, so a copy, however old, shows it.
CopiesShowTheBill ==
    \A s \in Sessions :
        /\ session[s].invoice.amount = invoice.amount
        /\ session[s].invoice.penalty = invoice.penalty

\* A posting that starts from the amounts of the row: the excess it records is what it
\* pushes beyond what is due, so nothing is lost and nothing stays off the record.
LEMMA PostedWhole ==
    ASSUME TypeOK, RowsAreFilled,
           NEW p \in Payments, NEW a \in Amounts, NEW copy \in Invoice,
           copy.paid = invoice.paid, copy.amount = invoice.amount, copy.penalty = invoice.penalty,
           payment[p].status # "verified",
           payment' = [payment EXCEPT ![p] =
                         [status |-> "verified", amount |-> a, excess |-> Excess(copy, a)]],
           Received' = Received + a,
           invoice'.paid = copy.paid + a,
           invoice'.amount = invoice.amount, invoice'.penalty = invoice.penalty
    PROVE  UNCHANGED <<Lost, Unrecorded>>
  <1>1. /\ IsFiniteSet(Payments) /\ payment \in [Payments -> PaymentRow]
        /\ \A q \in Payments : ExcessOf[q] \in Nat
    BY ReceivedTyped DEF TypeOK, Payments, PaymentRow, ExcessOf
  <1>2. /\ a \in Nat /\ invoice \in Invoice
        /\ invoice.paid \in Nat /\ invoice.amount \in Nat /\ invoice.penalty \in Nat
    BY GatewayConstants DEF TypeOK, Invoice
  <1>3. Excess(copy, a) = Above(invoice.paid + a, Due(invoice)) - Above(invoice.paid, Due(invoice))
    BY DEF Excess, Due
  <1>4. /\ Due(invoice') = Due(invoice)
        /\ Above(invoice.paid, Due(invoice)) \in Int
        /\ Above(invoice.paid + a, Due(invoice)) \in Int
    BY <1>2 DEF Due, Above
  <1>5. ExcessOf[p] = 0 /\ ExcessOf'[p] = Excess(copy, a)
    BY <1>1 DEF RowsAreFilled, ExcessOf
  <1>6. \A q \in Payments \ {p} : ExcessOf'[q] = ExcessOf[q]
    BY <1>1 DEF ExcessOf
  <1>7. ASSUME NEW g, g[p] \in Int, \A q \in Payments \ {p} : g[q] = ExcessOf[q]
        PROVE  SumFunctionOnSet(g, Payments) = SumFunctionOnSet(ExcessOf, Payments) + g[p] - ExcessOf[p]
    <2>1. IsFiniteSet(Payments) /\ \A q \in Payments : ExcessOf[q] \in Int
      BY <1>1
    <2> QED BY <1>7, <2>1, SumUpdate
  <1>8. SumFunctionOnSet(ExcessOf, Payments) \in Nat
    BY <1>1, SumNat
  <1>9. SumFunctionOnSet(ExcessOf', Payments) = SumFunctionOnSet(ExcessOf, Payments) + Excess(copy, a) - 0
    BY <1>3, <1>4, <1>5, <1>6, <1>7
  <1>10. Unrecorded' = Above(invoice'.paid, Due(invoice')) - SumFunctionOnSet(ExcessOf', Payments)
    BY DEF Unrecorded, Payments
  <1>11. Unrecorded' = Unrecorded
    BY <1>3, <1>4, <1>8, <1>9, <1>10 DEF Unrecorded
  <1>12. Lost' = Lost
    <2>1. Received \in Nat
      BY ReceivedTyped
    <2> QED BY <1>2, <2>1 DEF Lost
  <1> QED BY <1>11, <1>12

\* Every other step leaves the amounts and the records alone, and none ever changes what
\* is due.
LEMMA StepInvoice ==
    ASSUME Inv, [Next]_vars
    PROVE  /\ invoice'.amount = invoice.amount /\ invoice'.penalty = invoice.penalty
           /\ \/ \E s \in Sessions : CommitSuccess(s)
              \/ \E m \in Manual : VerifyPayment(m)
              \/ /\ invoice'.paid = invoice.paid
                 /\ Received' = Received /\ ExcessOf' = ExcessOf
  <1>t. /\ TypeOK /\ RowsAreFilled /\ RequestsKnowTheirIntent
        /\ invoice \in Invoice /\ payment \in [Payments -> PaymentRow]
        /\ session \in [Sessions -> SessionState]
    BY DEF Inv, TypeOK, Payments
  <1>1. ASSUME NEW s \in Sessions,
               Starts(s) \/ Rollback(s) \/ CommitCreate(s) \/ CommitFailure(s) \/ CommitExpire(s)
        PROVE  UNCHANGED <<invoice, payment>>
    BY <1>1, <1>t, StartsAre, Begins DEF Rollback, CommitCreate, CommitFailure, CommitExpire
  <1>2. ASSUME UNCHANGED payment PROVE Received' = Received /\ ExcessOf' = ExcessOf
    BY <1>2, NothingPosted DEF ExcessOf
  <1>3. CASE \/ \E n \in Intents : Expires(n)
             \/ UNCHANGED vars
    <2>1. UNCHANGED <<invoice, payment>>
      BY <1>3 DEF Expires, vars
    <2> QED BY <1>2, <2>1
  <1>4. ASSUME NEW m \in Manual, NEW a \in Amounts, RecordManualPayment(m, a)
        PROVE  UNCHANGED invoice /\ Received' = Received /\ ExcessOf' = ExcessOf
    <2>1. /\ m \in Payments /\ payment[m].status = "absent" /\ payment[m].excess = 0
          /\ payment' = [payment EXCEPT ![m] = [status |-> "pending", amount |-> a, excess |-> 0]]
          /\ UNCHANGED invoice
      BY <1>4, <1>t DEF RecordManualPayment, Payments, RowsAreFilled
    <2>2. Received' = Received
      BY <1>t, <2>1, NothingPosted
    <2> QED BY <1>t, <2>1, <2>2 DEF ExcessOf
  <1>5. CASE CancelFee
    <2>1. payment' = payment /\ invoice' = [invoice EXCEPT !.status = "cancelled"]
      BY <1>5 DEF CancelFee
    <2>2. invoice'.paid = invoice.paid /\ invoice'.amount = invoice.amount /\ invoice'.penalty = invoice.penalty
      BY <1>t, <2>1 DEF Invoice
    <2> QED BY <1>2, <2>1, <2>2
  <1>6. ASSUME NEW s \in Sessions, CommitSuccess(s)
        PROVE  invoice'.amount = invoice.amount /\ invoice'.penalty = invoice.penalty
    <2>1. /\ session[s].invoice \in Invoice /\ session[s].amount \in Nat
          /\ invoice' = Flush(invoice, session[s].invoice,
                              PayInvoice(session[s].invoice, session[s].amount))
      BY <1>6, <1>t DEF SessionState, CommitSuccess, Post
    <2> QED BY <1>t, <2>1, PostedInvoice, FlushedInvoice
  <1>7. ASSUME NEW m \in Manual, VerifyPayment(m)
        PROVE  invoice'.amount = invoice.amount /\ invoice'.penalty = invoice.penalty
    <2>1. payment[m].amount \in Nat
      BY <1>t DEF Payments, PaymentRow
    <2> QED BY <1>7, <1>t, <2>1, PostedInvoice DEF VerifyPayment
  <1> QED BY <1>1, <1>2, <1>3, <1>4, <1>5, <1>6, <1>7, NextIs

\* So the copies go on showing what is due.
LEMMA StepCopies == Inv /\ CopiesShowTheBill /\ [Next]_vars => CopiesShowTheBill'
  <1> SUFFICES ASSUME Inv, CopiesShowTheBill, [Next]_vars PROVE CopiesShowTheBill'
    OBVIOUS
  <1>1. invoice'.amount = invoice.amount /\ invoice'.penalty = invoice.penalty
    BY StepInvoice
  <1>2. ASSUME NEW s \in Sessions
        PROVE  session'[s].invoice \in {session[s].invoice, invoice, invoice'}
    BY StepSession
  <1> QED BY <1>1, <1>2 DEF CopiesShowTheBill

\* Only a callback on an outdated copy changes what is lost or off the record.
LEMMA StepBooks ==
    ASSUME Inv, CopiesShowTheBill, [Next]_vars
    PROVE  \/ UNCHANGED <<Lost, Unrecorded>>
           \/ \E s \in Sessions : Outdated(s) /\ CommitSuccess(s)
  <1>t. /\ TypeOK /\ RowsAreFilled /\ RequestsKnowTheirIntent
        /\ invoice \in Invoice /\ session \in [Sessions -> SessionState]
    BY DEF Inv, TypeOK
  <1>u. invoice'.amount = invoice.amount /\ invoice'.penalty = invoice.penalty
    BY StepInvoice
  <1>1. ASSUME NEW s \in Sessions, CommitSuccess(s), ~Outdated(s)
        PROVE  UNCHANGED <<Lost, Unrecorded>>
    <2> DEFINE p == session[s].intent
               a == session[s].amount
               copy == session[s].invoice
    <2>1. /\ p \in Payments /\ a \in Amounts /\ payment[p].status # "verified"
          /\ Received' = Received + a
      <3>1. p \in Payments /\ a \in Amounts /\ Posted(p, a)
        BY <1>t, <1>1, Postings
      <3> HIDE DEF p, a
      <3> QED BY <1>t, <3>1, PostingCounts DEF Posted
    <2>2. /\ payment' = [payment EXCEPT ![p] =
                           [status |-> "verified", amount |-> a, excess |-> Excess(copy, a)]]
          /\ invoice' = Flush(invoice, copy, PayInvoice(copy, a))
      BY <1>1 DEF CommitSuccess, Post
    <2>3. copy \in Invoice /\ a \in Nat \ {0}
      BY <1>t, <2>1, GatewayConstants DEF SessionState
    <2>4. copy.paid = invoice.paid /\ copy.amount = invoice.amount /\ copy.penalty = invoice.penalty
      BY <1>1 DEF Outdated, CopiesShowTheBill
    <2> HIDE DEF p, a, copy
    <2>5. PayInvoice(copy, a) \in Invoice /\ PayInvoice(copy, a).paid = copy.paid + a
      BY <2>3, PostedInvoice
    <2>6. copy.paid \in Nat /\ copy.paid + a # copy.paid
      BY <2>3 DEF Invoice
    <2>7. invoice'.paid = copy.paid + a
      BY <1>t, <2>2, <2>3, <2>5, <2>6, FlushedInvoice
    <2> QED BY <1>t, <1>u, <2>1, <2>2, <2>3, <2>4, <2>7, PostedWhole
  <1>2. ASSUME NEW m \in Manual, VerifyPayment(m) PROVE UNCHANGED <<Lost, Unrecorded>>
    <2> DEFINE a == payment[m].amount
    <2>1. /\ m \in Payments /\ a \in Amounts /\ payment[m].status # "verified"
          /\ Received' = Received + a
      BY <1>t, <1>2, Postings, PostingCounts DEF Posted
    <2>2. /\ payment' = [payment EXCEPT ![m] =
                           [status |-> "verified", amount |-> a, excess |-> Excess(invoice, a)]]
          /\ invoice' = PayInvoice(invoice, a)
      BY <1>2 DEF VerifyPayment
    <2>3. a \in Nat
      BY <2>1, GatewayConstants
    <2> HIDE DEF a
    <2>4. invoice'.paid = invoice.paid + a
      BY <1>t, <2>2, <2>3, PostedInvoice
    <2> QED BY <1>t, <1>u, <2>1, <2>2, <2>4, PostedWhole
  <1>3. ASSUME invoice'.paid = invoice.paid, Received' = Received, ExcessOf' = ExcessOf
        PROVE  UNCHANGED <<Lost, Unrecorded>>
    <2>1. Due(invoice') = Due(invoice)
      BY <1>u DEF Due
    <2>2. Unrecorded' = Above(invoice'.paid, Due(invoice')) - SumFunctionOnSet(ExcessOf', Payments)
      BY DEF Unrecorded, Payments
    <2> QED BY <1>3, <2>1, <2>2 DEF Lost, Unrecorded
  <1> QED BY <1>1, <1>2, <1>3, StepInvoice

\* Requests that settle an intent begin while it is pending and write none but their own.
LEMMA StepDecided ==
    ASSUME Inv, [Next]_vars, NEW n \in Intents, Decided(n)
    PROVE  intent'[n].status = intent[n].status /\ Decided(n)'
  <1>t. /\ TypeOK /\ RowsAreFilled /\ RequestsKnowTheirIntent
        /\ intent \in [Intents -> IntentRow]
        /\ intent[n].status \in Terminal
    BY DEF Inv, TypeOK, Decided
  <1>1. intent'[n].status = intent[n].status
    <2>1. ASSUME NEW s \in Sessions, Starts(s) \/ Rollback(s) PROVE intent' = intent
      BY <1>t, <2>1, StartsAre, Begins DEF Rollback
    <2>2. ASSUME NEW s \in Sessions, CommitCreate(s) PROVE intent'[n] = intent[n]
      BY <1>t, <2>2 DEF CommitCreate, Terminal
    <2>3. ASSUME NEW s \in Sessions, CommitSuccess(s) \/ CommitFailure(s) \/ CommitExpire(s)
          PROVE  intent'[n] = intent[n]
      <3>1. session[s].intent # n
        BY <2>3 DEF Decided, CommitSuccess, CommitFailure, CommitExpire
      <3> QED BY <1>t, <2>3, <3>1 DEF CommitSuccess, CommitFailure, CommitExpire
    <2>4. ASSUME NEW k \in Intents, Expires(k) PROVE intent'[n].status = intent[n].status
      BY <1>t, <2>4 DEF Expires, IntentRow
    <2>5. ASSUME \/ \E m \in Manual, a \in Amounts : RecordManualPayment(m, a)
                 \/ \E m \in Manual : VerifyPayment(m)
                 \/ CancelFee \/ UNCHANGED vars
          PROVE  intent' = intent
      BY <2>5 DEF RecordManualPayment, VerifyPayment, CancelFee, vars
    <2> QED BY <2>1, <2>2, <2>3, <2>4, <2>5, NextIs
  <1>2. ASSUME NEW s \in Sessions, session'[s].doing \in {"success", "failure", "expire"}
        PROVE  session'[s].intent # n
    <2>1. \/ session'[s] = session[s]
          \/ intent[session'[s].intent].status = "pending"
      BY <1>2, StepSession
    <2> QED BY <1>t, <1>2, <2>1 DEF Decided, Terminal
  <1> QED BY <1>t, <1>1, <1>2 DEF Decided

\* The copies show what is due, whatever the requests interleave with.
THEOREM CopiesShow == Spec => []CopiesShowTheBill
  <1>1. Init => CopiesShowTheBill
    BY DEF Init, CopiesShowTheBill
  <1> QED BY <1>1, StepCopies, InvHolds, PTL DEF Spec

\* Money is lost on the invoice, and an excess left off the record, by a callback that
\* posts on an outdated copy and by no other step.
THEOREM OnlyOvertakingLoses == Spec => LostByOvertakingOnly
  <1>1. /\ Inv /\ CopiesShowTheBill /\ [Next]_vars
        => [ \/ UNCHANGED <<Lost, Unrecorded>>
             \/ \E s \in Sessions : Outdated(s) /\ CommitSuccess(s) ]_vars
    BY StepBooks
  <1> QED BY <1>1, CopiesShow, InvHolds, PTL DEF Spec, LostByOvertakingOnly

\* A final status that no running request contradicts is final.
THEOREM FinalOnceDecided == Spec => DecidedIsFinal
  <1>1. /\ Inv /\ [Next]_vars
        => [\A n \in Intents :
               Decided(n) => intent'[n].status = intent[n].status /\ Decided(n)']_vars
    BY StepDecided
  <1> QED BY <1>1, InvHolds, PTL DEF Spec, DecidedIsFinal
=============================================================================
