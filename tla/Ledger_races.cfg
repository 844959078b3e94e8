SPECIFICATION Spec
CONSTANTS
    f1 = f1
    f2 = f2
    i1 = i1
    i2 = i2
    i3 = i3
    p1 = p1
    p2 = p2
    r1 = r1
    r2 = r2
    u1 = u1
    u2 = u2
    Nil = Nil
    Fees = {f1}
    Invoices = {i1, i2}
    FeeOf <- OneFee
    FinalAmount <- FinalOne
    Payments = {p1, p2}
    Refunds = {r1}
    Users = {u1, u2}
    Amounts = {1, 2}
    FirstTerm = {}
    Recalculated = {f1}
    PastDue = {i1}
    PenaltyAllowed = TRUE
SYMMETRY Same
VIEW Anonymous
INVARIANTS
    BooksHold
CHECK_DEADLOCK FALSE
