SPECIFICATION DevicesSpec
CONSTANTS
    Cols = 3
    Rows = 2
    Sector = 2
    SectorsPerPage = 2
    DiskSectors = 4
    Slots = 3
    Pages = {1, 2, 3, 4, 5, 6}
    TIMEOUT_MAX = 1
    Loads <- MCLoads
INVARIANTS TransferExact ControllerMemory CursorSound LineDelivered
 
