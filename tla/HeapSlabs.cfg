CONSTANTS
    None = None
    Frames <- MCFrames
    WordBits = 2
    HugeWords = 2
    VPages <- MCVPages
    Areas <- MCAreas
    AreaOf <- MCAreaOf
    ScratchSlots = 1
    Scratch <- MCScratch
    Clients = {c1, c2}
    MaxScratch = 2
    Given = {4}
    Machines <- MCMachines
    LowEnd = 1
    MaxTaken = 2
    NodeSize = 1
    PageSize = 16
    SizeClasses <- MCSizeClasses
    BlocksPerSlab <- MCBlocksPerSlab
    Layouts <- MCLayouts
    Slots = {1, 2}
    PagesOf <- MCPagesOf
    MaxSlabs = 2
    DmaPages <- MCDmaPages
    MaxBuffer = 2
    Loads <- MCLoads
SYMMETRY MCSymmetry
SPECIFICATION MemorySpec
INVARIANTS
    LiveBlockMapped
CHECK_DEADLOCK FALSE
