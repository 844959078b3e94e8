SPECIFICATION Spec
CONSTANTS
    o1 = o1
    o2 = o2
    u1 = u1
    u2 = u2
    Nobody = Nobody
    Leads = {l1, l2}
    Officers = {o1, o2}
    Units = {u1, u2}
    UnitOf <- MCUnitOf
    Capacity <- MCCapacity
    Requests = {r1, r2}
    Workers = {w1, w2}
    MaxRetries = 1
SYMMETRY Same
INVARIANTS
    NobodyForgotten
PROPERTIES
    AutoRespectsCapacity
    AutoGivesRightly
CHECK_DEADLOCK FALSE
