SPECIFICATION Spec
CONSTANTS
    Callers = {u1, u2, t1}
    Tasks = {t1}
    Nobody = Nobody
    TheLoop = TheLoop
    VPNType = "openvpn"
    Prompt = FALSE
    MaxFaults = 2
    RestartVPN = TRUE
    MaxCalls = 2
    MayShutdown = TRUE
SYMMETRY Symmetry
CHECK_DEADLOCK FALSE
INVARIANTS
    IInv
    RunningMeansWatched
PROPERTIES
    OneTunnel
