CONSTANTS
    MaxProcs = 5
    MaxPid = 5
    Codes <- MCCodes
    None = None
    WaitArgs = "any"
SPECIFICATION Spec
INVARIANTS
    AnyChildWakes
