SPECIFICATION OutboxSpec
CONSTANTS
    a = a
    b = b
    w1 = w1
    w2 = w2
    NoRow = NoRow
    Rows = {a, b}
    Poison = {}
    External = {b}
    Dispatchers = {w1, w2}
    MaxAttempts = 2
    BatchLimit = 2
    RateLimit = TRUE
INVARIANTS
    ExternalAtMostOnce
CHECK_DEADLOCK FALSE
