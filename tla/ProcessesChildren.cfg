CONSTANTS
    MaxProcs = 5
    MaxPid = 5
    Codes <- MCCodes
    None = None
    WaitArgs = "child"
SPECIFICATION Spec
INVARIANTS
    UniquePids
    KernelSlotsPinned
    
    
    ZombieHasCode
    NoOrphans
    TargetKept
    NeverAllWaiting
PROPERTIES
    ReapDelivers
