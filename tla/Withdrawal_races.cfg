SPECIFICATION Spec
CONSTANTS
    p1 = p1
    p2 = p2
    p3 = p3
    tuition = tuition
    application = application
    Payments = {p1, p2, p3}
    Fees = {tuition, application}
    FeeOf <- MCFeeOf
    Application = {application}
    Amount <- MCAmount
    Imported = {p1}
    Refunds = {r1, r2, r3, r4}
    Requests = {q1, q2}
    Nobody = Nobody
    NoRow = NoRow
SYMMETRY Symmetry
CHECK_DEADLOCK FALSE
INVARIANTS
    TypeOK
    PendingWaitsForMoney
    WithdrawnHoldsNoMoney
    RefundsDieWithTheirWithdrawal
    PendingMoneyIsScheduled
PROPERTIES
    WithdrawnIsFinal
