SPECIFICATION Spec
CONSTANTS
    MaxLate = 1
    MaxTime = 4
    MaxUpdates = 2
    MaxWriteFaults = 1
    MaxEdits = 1
    DefaultFamilies <- SmallDefaults
    Subnets <- TwoSubnets
    MaxKernelFaults = 2
    Hosts = {"h1", "h2"}
    Addresses = {"x", "y"}
    MaxFails = 2
    MaxNoNew = 2
    HostFails = 1
    Streams = {"out", "err"}
    MaxLines = 3
CHECK_DEADLOCK FALSE
INVARIANTS
    ProgramTypeOK
    RulesAsNamed
    
    
PROPERTIES
    ProgramGoesOn
