SPECIFICATION Spec
CONSTANTS
    Callers = {u1, u2, t1}
    Nobody = Nobody
    TheLoop = TheLoop
    Tunnels = {t1}
    Handlers = {u1, u2}
    Free = Free
    DNSFaults = 2
    DNSCalls = 3
    UpdaterFaults = 1
    UpdaterCalls = 3
    Requests = {"r1", "r2"}
    ProxyFaults = 2
    TunnelRuns = {"run1", "run2", "run3"}
    Urls = {"page1", "page2"}
CHECK_DEADLOCK FALSE
INVARIANTS
    ServicesTypeOK
    AsShown
    ForwardedIfAuthorized
PROPERTIES
    CallsReturn
    RecoverOrQuit
