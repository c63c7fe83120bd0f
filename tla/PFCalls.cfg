SPECIFICATION FairSpec
CONSTANTS
    Slots = {s1, s2, s3}
    Ports = {p1}
    Updaters = {u1}
    Setters = {h1}
    InternalPort = InternalPort
    Internal <- Fixed
    NoService = NoService
    Unlocked = Unlocked
    TheLoop = TheLoop
    TheKeeper = TheKeeper
    Notices = {"up", "down"}
    MaxFaults = 1
    MaxBroken = 1
    Enabled = TRUE
    MaxUpdates = 2
    MaxSets = 1
    MayStop = TRUE
CHECK_DEADLOCK FALSE
INVARIANTS
    TypeOK
PROPERTIES
    CallsReturnOrStuck
