CONSTANTS
    MaxProcs = 4
    MaxPid = 4
    Codes <- MCCodes
    None = None
    WaitArgs = "pid"
SPECIFICATION FairSpec
PROPERTIES
    ReapDelivers
    InitWoken
