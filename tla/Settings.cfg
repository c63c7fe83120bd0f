SPECIFICATION MCSpec
CONSTANTS
    Keys <- SmallKeys
    DNSKeyValues <- SmallDNSKeys
    Lines <- SmallLines
    MaxLines = 3
    MaxRoles = 2
    h1 = h1
    h2 = h2
    Hosts = {h1, h2}
CHECK_DEADLOCK FALSE
INVARIANTS
    ServersKept
    ConnectsAsSet
    SettingsAsMeant
    HandledIfAdmitted
