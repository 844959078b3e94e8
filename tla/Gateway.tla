------------------------------ MODULE Gateway ------------------------------
(***************************************************************************)
(* Online payment of one invoice (payment_intent_service.py) beside the    *)
(* manual payments and the cancellation of its fee.                        *)
(*                                                                         *)
(* A request runs in a database session whose identity map keeps the       *)
(* first copy of a row it loaded: a later SELECT ... FOR UPDATE takes the  *)
(* lock but hands back that copy.  So each request that loads a row before *)
(* it locks it has two steps here, one that reads (and remembers what it   *)
(* read) and one that locks, decides and commits.  A commit writes only    *)
(* the columns whose value differs from the copy.                          *)
(***************************************************************************)
EXTENDS LedgerMath, FiniteSets, Functions

CONSTANTS
    Intents,       \* payment intents, each with its own idempotency key
    Manual,        \* manually recorded payments
    Sessions,      \* concurrent requests
    Amounts,
    FinalAmount,   \* final_amount of the fee, billed on its one invoice
    NoIntent

ASSUME GatewayConstants ==
    /\ FinalAmount \in Nat \ {0}
    /\ Amounts \subseteq Nat \ {0}
    /\ Intents \cap Manual = {}
    /\ NoIntent \notin Intents \cup Manual
    /\ IsFiniteSet(Intents) /\ IsFiniteSet(Manual)

VARIABLES
    fee, invoice,
    intent,   \* rows of payment_intent
    payment,  \* rows of payment, by the intent (UNIQUE) or the manual payment
    session   \* what each running request has in memory

vars == <<fee, invoice, intent, payment, session>>

IntentRow ==
    [amount : Nat, late : BOOLEAN,
     status : {"absent", "pending", "completed", "failed", "expired"}]

PaymentRow == [status : {"absent", "pending", "verified"}, amount : Nat, excess : Nat]

SessionState ==
    [doing : {"nothing", "create", "success", "failure", "expire"},
     intent : Intents \cup {NoIntent}, amount : Nat, fee : Fee, invoice : Invoice]

\* Rows have the types of their tables; a session holds copies of rows.
TypeOK ==
    /\ fee \in Fee
    /\ invoice \in Invoice
    /\ intent \in [Intents -> IntentRow]
    /\ payment \in [Intents \cup Manual -> PaymentRow]
    /\ session \in [Sessions -> SessionState]

Init ==
    /\ fee = [final |-> FinalAmount, paid |-> 0, waived |-> 0, status |-> "invoiced"]
    /\ invoice = [amount |-> FinalAmount, paid |-> 0, penalty |-> 0, status |-> "issued"]
    /\ intent = [n \in Intents |-> [amount |-> 0, late |-> FALSE, status |-> "absent"]]
    /\ payment = [p \in Intents \cup Manual |->
                    [status |-> "absent", amount |-> 0, excess |-> 0]]
    /\ session = [s \in Sessions |->
                    [doing |-> "nothing", intent |-> NoIntent, amount |-> 0,
                     fee |-> fee, invoice |-> invoice]]

-----------------------------------------------------------------------------
(* The session *)

Begin(s, what, n, a) ==
    /\ session[s].doing = "nothing"
    /\ session' = [session EXCEPT ![s] =
                     [doing |-> what, intent |-> n, amount |-> a,
                      fee |-> fee, invoice |-> invoice]]
    /\ UNCHANGED <<fee, invoice, intent, payment>>

End(s) ==
    session' = [session EXCEPT ![s] =
                  [doing |-> "nothing", intent |-> NoIntent, amount |-> 0,
                   fee |-> fee', invoice |-> invoice']]

\* A refusal, a failed insert or a crash: the transaction is rolled back.
Rollback(s) ==
    /\ session[s].doing # "nothing"
    /\ UNCHANGED <<fee, invoice, intent, payment>>
    /\ End(s)

\* An UPDATE sets the columns that differ from the copy the session read.
Flush(row, read, new) ==
    [c \in DOMAIN row |-> IF new[c] # read[c] THEN new[c] ELSE row[c]]

-----------------------------------------------------------------------------
(* create_intent: the invoice and its fee are loaded by _find_replay_in_scope *)

Terminal == {"completed", "failed", "expired"}

BeginCreate(s, n, a) ==
    /\ intent[n].status \in {"absent"} \cup Terminal
    /\ Begin(s, "create", n, a)

\* The fee row is locked, but the fee that is checked is the copy.  A key already
\* used on this invoice, terminal or not, is refused by the UNIQUE constraint.
CommitCreate(s) ==
    LET n == session[s].intent
        a == session[s].amount
    IN  /\ session[s].doing = "create"
        /\ session[s].invoice.status \in PayableInvoiceStatuses
        /\ a <= InvoiceRemaining(session[s].invoice)
        /\ PayableTarget(session[s].fee, session[s].invoice)
        /\ intent[n].status = "absent"
        /\ intent' = [intent EXCEPT ![n] = [amount |-> a, late |-> FALSE, status |-> "pending"]]
        /\ UNCHANGED <<fee, invoice, payment>>
        /\ End(s)

\* expires_at passes.
Expires(n) ==
    /\ intent[n].status # "absent"
    /\ ~intent[n].late
    /\ intent' = [intent EXCEPT ![n].late = TRUE]
    /\ UNCHANGED <<fee, invoice, payment, session>>

-----------------------------------------------------------------------------
(* process_callback: get_by_gateway_ref loads the intent with its invoice.  A *)
(* gateway may send a callback again, and send different ones.                *)

BeginCallback(s, n, outcome) ==
    /\ intent[n].status = "pending"
    /\ ~intent[n].late
    /\ Begin(s, outcome, n, intent[n].amount)

\* What a success callback writes once it was let through.  The invoice row is locked,
\* but the amounts are those of the copy.
Post(s) ==
    LET n == session[s].intent
        a == session[s].amount
        copy == session[s].invoice
    IN  /\ payment' = [payment EXCEPT ![n] =
                         [status |-> "verified", amount |-> a, excess |-> Excess(copy, a)]]
        /\ invoice' = Flush(invoice, copy, PayInvoice(copy, a))
        /\ fee' = PayFee(fee, a)

\* Faults: the same callback is posted again; the fee is judged by a copy.
CommitSuccessTwice(s) ==
    /\ session[s].doing = "success"
    /\ PayableTarget(fee, session[s].invoice)
    /\ Post(s)
    /\ intent' = [intent EXCEPT ![session[s].intent].status = "completed"]
    /\ End(s)

CommitSuccessOnCopy(s) ==
    /\ session[s].doing = "success"
    /\ PayableTarget(session[s].fee, session[s].invoice)
    /\ payment[session[s].intent].status = "absent"
    /\ Post(s)
    /\ intent' = [intent EXCEPT ![session[s].intent].status = "completed"]
    /\ End(s)

\* The fee is loaded here for the first time.  payment.intent_id is UNIQUE.
CommitSuccess(s) ==
    /\ session[s].doing = "success"
    /\ PayableTarget(fee, session[s].invoice)
    /\ payment[session[s].intent].status = "absent"
    /\ Post(s)
    /\ intent' = [intent EXCEPT ![session[s].intent].status = "completed"]
    /\ End(s)

CommitFailure(s) ==
    /\ session[s].doing = "failure"
    /\ intent' = [intent EXCEPT ![session[s].intent].status = "failed"]
    /\ UNCHANGED <<fee, invoice, payment>>
    /\ End(s)

-----------------------------------------------------------------------------
(* get_intent expires a stale intent on read *)

\* Fault: the expiry looks at the clock alone.
BeginExpireByClock(s, n) ==
    /\ intent[n].late
    /\ Begin(s, "expire", n, 0)

BeginExpire(s, n) ==
    /\ intent[n].status = "pending"
    /\ intent[n].late
    /\ Begin(s, "expire", n, 0)

CommitExpire(s) ==
    /\ session[s].doing = "expire"
    /\ intent' = [intent EXCEPT ![session[s].intent].status = "expired"]
    /\ UNCHANGED <<fee, invoice, payment>>
    /\ End(s)

-----------------------------------------------------------------------------
(* Transactions that read everything under their locks.  Who recorded a manual *)
(* payment and who may verify it is left to Ledger.                            *)

RecordManualPayment(m, a) ==
    /\ payment[m].status = "absent"
    /\ invoice.status \in PayableInvoiceStatuses
    /\ PayableTarget(fee, invoice)
    /\ a <= InvoiceRemaining(invoice)
    /\ payment' = [payment EXCEPT ![m] = [status |-> "pending", amount |-> a, excess |-> 0]]
    /\ UNCHANGED <<fee, invoice, intent, session>>

\* Fault: the status of the payment is not looked at again.
VerifyPaymentAgain(m) ==
    LET a == payment[m].amount
    IN  /\ payment[m].status # "absent"
        /\ PayableTarget(fee, invoice)
        /\ payment' = [payment EXCEPT ![m] =
                         [status |-> "verified", amount |-> a, excess |-> Excess(invoice, a)]]
        /\ invoice' = PayInvoice(invoice, a)
        /\ fee' = PayFee(fee, a)
        /\ UNCHANGED <<intent, session>>

VerifyPayment(m) ==
    LET a == payment[m].amount
    IN  /\ payment[m].status = "pending"
        /\ PayableTarget(fee, invoice)
        /\ payment' = [payment EXCEPT ![m] =
                         [status |-> "verified", amount |-> a, excess |-> Excess(invoice, a)]]
        /\ invoice' = PayInvoice(invoice, a)
        /\ fee' = PayFee(fee, a)
        /\ UNCHANGED <<intent, session>>

\* Fault: what was paid is not looked at.
CancelFeePaid ==
    /\ \A m \in Manual : payment[m].status # "pending"
    /\ \A n \in Intents : intent[n].status = "pending" => intent[n].late
    /\ fee' = [fee EXCEPT !.status = "cancelled"]
    /\ invoice' = [invoice EXCEPT !.status = "cancelled"]
    /\ UNCHANGED <<intent, payment, session>>

CancelFee ==
    /\ fee.paid = 0
    /\ \A m \in Manual : payment[m].status # "pending"
    /\ \A n \in Intents : intent[n].status = "pending" => intent[n].late
    /\ fee' = [fee EXCEPT !.status = "cancelled"]
    /\ invoice' = [invoice EXCEPT !.status = "cancelled"]
    /\ UNCHANGED <<intent, payment, session>>

-----------------------------------------------------------------------------
Request(s) ==
    \/ \E n \in Intents, a \in Amounts : BeginCreate(s, n, a)
    \/ CommitCreate(s)
    \/ \E n \in Intents, outcome \in {"success", "failure"} : BeginCallback(s, n, outcome)
    \/ CommitSuccess(s)
    \/ CommitFailure(s)
    \/ \E n \in Intents : BeginExpire(s, n)
    \/ CommitExpire(s)
    \/ Rollback(s)

Next ==
    \/ \E s \in Sessions : Request(s)
    \/ \E n \in Intents : Expires(n)
    \/ \E m \in Manual, a \in Amounts : RecordManualPayment(m, a)
    \/ \E m \in Manual : VerifyPayment(m)
    \/ CancelFee

Spec == Init /\ [][Next]_vars

-----------------------------------------------------------------------------
(* What holds whatever the requests interleave with *)

Payments == Intents \cup Manual

\* What came in with each payment, and with all of them.
ReceivedOf == [p \in Payments |-> IF payment[p].status = "verified" THEN payment[p].amount ELSE 0]

Received == SumFunctionOnSet(ReceivedOf, Payments)

\* fee.paid_amount is the money received: duplicated callbacks post once, and the
\* fee is the one row a callback reads under its lock.
FeeBalance == fee.paid = Received

\* An intent shown as completed has its payment.
CompletedIsPaid ==
    \A n \in Intents : intent[n].status = "completed" => payment[n].status = "verified"

\* Both: however callbacks repeat and overlap, each completed intent has brought its
\* amount to the fee once.
FeeAccounted == FeeBalance /\ CompletedIsPaid

\* The callback's check of the fee under its lock keeps money off a cancelled fee,
\* even when an intent slipped in while the fee was being cancelled.
CancelledFeeHasNoMoney == fee.status = "cancelled" => Received = 0

\* A callback that posts on an outdated copy can lose another posting on the invoice,
\* but never shows a debtor more than was received.
CreditIsBacked == invoice.paid <= Received

\* Whatever the invoice shows, the fee keeps a true account.
Account == INSTANCE FeeAccount WITH
    received <- ReceivedOf,
    paid <- fee.paid,
    open <- fee.status # "cancelled"

Implements == Account!Spec

-----------------------------------------------------------------------------
(* What an overtaken request can break, and nothing else does *)

\* Something was posted on the invoice since this request loaded it.
Outdated(s) == session[s].invoice.paid # invoice.paid

\* The money the invoice does not show, and the excess no payment has on record.
Lost == Received - invoice.paid

ExcessOf == [p \in Payments |-> payment[p].excess]

Unrecorded == Above(invoice.paid, Due(invoice)) - SumFunctionOnSet(ExcessOf, Payments)

\* Money is lost on the invoice, and an excess left off the record, by a callback that
\* posts on an outdated copy and by no other step, however requests overlap.
LostByOvertakingOnly ==
    [][ \/ UNCHANGED <<Lost, Unrecorded>>
        \/ \E s \in Sessions : Outdated(s) /\ CommitSuccess(s) ]_vars

\* The intent has its final status and no request under way is about to write it.
Decided(n) ==
    /\ intent[n].status \in Terminal
    /\ \A s \in Sessions :
         session[s].doing \in {"success", "failure", "expire"} => session[s].intent # n

\* A final status that no running request contradicts is final: later callbacks, later
\* reads of the intent and a second use of its key leave it.
DecidedIsFinal ==
    [][\A n \in Intents :
          Decided(n) => intent'[n].status = intent[n].status /\ Decided(n)']_vars

-----------------------------------------------------------------------------
(* What a comment says, and an overtaken request breaks *)

\* apply_verified_payment_balances works under the locks of invoice and fee, on
\* their latest state: the invoice holds all the money received for it.
InvoiceBalance == invoice.paid = Received
=============================================================================
