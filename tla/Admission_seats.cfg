SPECIFICATION Spec
CONSTANTS
    q1 = q1
    q2 = q2
    c1 = c1
    c2 = c2
    g1 = g1
    g2 = g2
    h = h
    i1 = i1
    i2 = i2
    Profiles = {1, 2, 3}
    Engine = {1, 2}
    Billed = {1, 2}
    FirstTerm = {1}
    Paths = {c1, c2}
    Infos = {i1, i2}
    InfoOf <- MCInfoOf
    Options = {g1, g2, h}
    PathOf <- MCPathOf
    LeadInfo <- MCLeadInfo
    Intent <- MCIntent
    Wishes <- MCWishes
    MaxChoices = 2
    RoundQuota <- MCRoundQuota
    AdmitQuota <- MCAdmitQuota
    AnnualQuota <- MCAnnualQuota
    Unlimited = Unlimited
    Bypass = TRUE
    Requests = {q1, q2}
    Nobody = Nobody
SYMMETRY Same
INVARIANTS
    PlacesWithinRoundQuota
    DecisionsStand
PROPERTIES
    EngineSeatWasFree
CHECK_DEADLOCK FALSE
