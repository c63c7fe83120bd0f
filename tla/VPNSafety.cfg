SPECIFICATION Spec
CONSTANTS
    Callers = {u1, u2, t1, t2}
    Tasks = {t1, t2}
    Nobody = Nobody
    TheLoop = TheLoop
    VPNType = "wireguard"
    Prompt = TRUE
    MaxFaults = 1
    RestartVPN = TRUE
    MaxCalls = 2
    MayShutdown = TRUE
SYMMETRY Symmetry
CHECK_DEADLOCK FALSE
INVARIANTS
    TypeOK
    
    CrashedMeansRetrying
    NoOrphanContext

    
