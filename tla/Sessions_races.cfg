SPECIFICATION Spec
CONSTANTS
    x1 = x1
    x2 = x2
    j1 = j1
    j2 = j2
    j3 = j3
    phone = phone
    desktop = desktop
    r1 = r1
    r2 = r2
    Nobody = Nobody
    NoJti = NoJti
    NoDevice = NoDevice
    Rows = {x1, x2}
    Jtis = {j1, j2, j3}
    Devices = {phone, desktop}
    Requests = {r1, r2}
    MaxSessions = 1
    MaxFailures = 2
    MaxCounted = 2
SYMMETRY Same
INVARIANTS
    SessionLimit
    InactiveHasNoLiveSession
    LiveIsUsable
PROPERTIES
    RevokedIsFinal
CHECK_DEADLOCK FALSE
