CONSTANTS
    MaxProcs = 6
    MaxPid = 6
    Codes <- MCCodes
    None = None
    WaitArgs = "child"
SPECIFICATION Spec
INVARIANTS
    CurrProcUpdated
