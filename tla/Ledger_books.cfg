SPECIFICATION Spec
CONSTANTS
    f1 = f1
    f2 = f2
    i1 = i1
    i2 = i2
    i3 = i3
    p1 = p1
    p2 = p2
    r1 = r1
    r2 = r2
    u1 = u1
    u2 = u2
    Nil = Nil
    Fees = {f1, f2}
    Invoices = {i1, i2, i3}
    FeeOf <- TwoFees
    FinalAmount <- FinalTwo
    Payments = {p1, p2}
    Refunds = {r1, r2}
    Users = {u1, u2}
    Amounts = {1, 2}
    FirstTerm = {f2}
    Recalculated = {}
    PastDue = {}
    PenaltyAllowed = FALSE
SYMMETRY Same
VIEW Anonymous
INVARIANTS
    TypeOK
    BooksBalance
    PayoutsBounded
    OverpaymentSettledOnce
    StatusesAgree
    RepricingCanBeConfirmed
PROPERTIES
    DecisionsAreFinal
CHECK_DEADLOCK FALSE
