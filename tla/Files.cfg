CONSTANTS
    ClusterCells = 2
    LastCluster = 4
    SlotsPerCluster = 1
    RootSlots = 2
    ShortNames = {"A", "B", "L", "x"}
    ShortName <- MCShortName
    BlockCells = 2
    Direct = 1
    Pointers = 2
    BlocksPerGroup = 5
    GroupCount = 2
    FirstDataBlock = 0
    Reserved = {0, 1, 5}
    Inodes = {1, 2}
    Modes <- MCModes
    Kinds <- MCKinds
    DirBlocks <- MCDirBlocks
    DirBytes = 128
    BlockBytes = 64
    Word = 64
    SectorSizes = {512}
    Fat12Clusters = 4
    Fat16Clusters = 10
    SectorBytes = 5
    TableBytes = 16
    TableWrites = 3
    Copies = {51, 52}
    MinHeader = 92
    Sector = 512
    Paths <- MCPaths
    Rest <- MCRest
    Procs = {1, 2}
    Handles = {1, 2}
    Loads <- MCLoads
    PidOf <- MCPidOf
SPECIFICATION FilesSpec
INVARIANTS
    
    NoClusterLost
    FatWritesKept
    
    
    CountsMatch
    
    VolumesSound
    EntriesIndependent
    OwnMount
    SharedOffset
CHECK_DEADLOCK FALSE
