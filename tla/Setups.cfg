SPECIFICATION Spec
CONSTANTS
    MaxTunnels = 2
    MaxBans = 2
    MaxRuns = 2
    MaxSystemFaults = 2
    MaxChecks = 1
    Externals = {1, 2, 3}
    PortsCount = 2
    Life = 2
    MaxClock = 4
    MaxFaults = 3
    Paths = {576, 1283, 1392, 1428, 1500}
    MSSes = {0, 1238, 1460}
    ICMPAddrs = 2
    VPNs = {"wireguard", "openvpnTCP"}
    VPNRoutes = {r4, r6}
    OriginalMTU = 1320
    MaxLost = 1
CHECK_DEADLOCK FALSE
INVARIANTS
    SetupsTypeOK
    
    SetupUndone
    SamePortKept
    LargestThatPasses
PROPERTIES
    AroundGoesOn
