SPECIFICATION PatientSpec
CHECK_DEADLOCK FALSE
CONSTANTS
    Apps = {a1}
    Logins = {l1}
    Skew = 2
    Delay = 1
    Lifetime = 3
    MaxTime = 3
    MaxGrants = 3
    MaxClients = 1
    MaxLogins = 2
    Given = {9}
PROPERTY LoginEnds
