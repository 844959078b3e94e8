SPECIFICATION Spec
CONSTANTS
    n1 = n1
    n2 = n2
    m1 = m1
    s1 = s1
    s2 = s2
    NoIntent = NoIntent
    Intents = {n1, n2}
    Manual = {m1}
    Sessions = {s1, s2}
    Amounts = {1, 2}
    FinalAmount = 2
SYMMETRY Same
INVARIANTS
    InvoiceBalance
CHECK_DEADLOCK FALSE
