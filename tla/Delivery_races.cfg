SPECIFICATION FairSpec
CONSTANTS
    d1 = d1
    w1 = w1
    w2 = w2
    s1 = s1
    Nobody = Nobody
    Deliveries = {d1}
    Workers = {w1, w2}
    Sweepers = {s1}
    MaxRetries = 2
    MaxMessages = 2
    MaxCrashes = 1
    MaxReplays = 1
INVARIANTS
    TypeOK
    SentWasAccepted
    EveryRepeatHasAReason
PROPERTIES
    EventuallySettled
CHECK_DEADLOCK FALSE
