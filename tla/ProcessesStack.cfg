CONSTANTS
    MaxProcs = 5
    MaxPid = 5
    Codes <- MCCodes
    None = None
    WaitArgs = "pid"
SPECIFICATION Spec
INVARIANTS
    ResumesCorrectly
