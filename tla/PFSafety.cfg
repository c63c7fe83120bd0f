SPECIFICATION Spec
CONSTANTS
    Slots = {s1, s2}
    Ports = {p1, p2}
    Updaters = {u1, u2}
    Setters = {}
    InternalPort = InternalPort
    Internal <- Same
    NoService = NoService
    Unlocked = Unlocked
    TheLoop = TheLoop
    TheKeeper = TheKeeper
    Notices = {"up", "down", "unfit"}
    MaxFaults = 2
    MaxBroken = 1
    Enabled = TRUE
    MaxUpdates = 4
    MaxSets = 0
    MayStop = TRUE
SYMMETRY Symmetry
CHECK_DEADLOCK FALSE
INVARIANTS
    
    KeptOnlyWhileUp
    OneKeeper
    KeepersFollow
