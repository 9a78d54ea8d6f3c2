CONSTANTS
    MaxProcs = 4
    MaxPid = 4
    Codes <- MCCodes
    None = None
    WaitArgs = "child"
SPECIFICATION FairSpec
PROPERTIES
    ReadyIsRun
