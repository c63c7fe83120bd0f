SPECIFICATION FairSpec
CONSTANTS
    Callers = {u1, t1}
    Tasks = {t1}
    Nobody = Nobody
    TheLoop = TheLoop
    VPNType = "wireguard"
    Prompt = TRUE
    MaxFaults = 1
    RestartVPN = TRUE
    MaxCalls = 2
    MayShutdown = FALSE
CHECK_DEADLOCK FALSE
PROPERTIES
    StopIsReceived
