SPECIFICATION Spec
CONSTANTS
    c4 = c4
    c6 = c6
    s4 = s4
    s6 = s6
    Connections = {c4, c6}
    NoConnection = NoConnection
    Subnets = {s4, s6}
    Family <- Families46
    Routes <- Eth0
    Locals <- Eth0
    Tunnel = "tun0"
    NoInterface = ""
    Ports = {1, 2}
    MaxFaults = 1
CHECK_DEADLOCK FALSE
INVARIANTS
    PolicyFollows
    
    NothingMore
