SPECIFICATION FairSpec
CONSTANTS
    Slots = {s1, s2}
    Ports = {p1}
    Updaters = {u1}
    Setters = {}
    InternalPort = InternalPort
    Internal <- Same
    NoService = NoService
    Unlocked = Unlocked
    TheLoop = TheLoop
    TheKeeper = TheKeeper
    Notices = {"up", "down"}
    MaxFaults = 1
    MaxBroken = 0
    Enabled = TRUE
    MaxUpdates = 2
    MaxSets = 0
    MayStop = FALSE
CHECK_DEADLOCK FALSE
PROPERTIES
    UpdateIsAnswered
