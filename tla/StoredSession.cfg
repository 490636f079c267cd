SPECIFICATION Spec
SYMMETRY Symmetric
CHECK_DEADLOCK FALSE
CONSTANTS
    Apps = {a1, a2}
    Logins = {l1}
    Skew = 2
    Delay = 1
    Lifetime = 3
    MaxTime = 3
    MaxGrants = 3
    MaxClients = 2
    MaxLogins = 2
    Given = {9}
INVARIANTS
    TypeOK
    StoredRefreshIsLive
    RequestsCarryLiveToken
    OwnCodeOnly
