CONSTANTS
    Spaces = {s1, s2, s3}
    NoSpace = NoSpace
    NPages = 2
    Frames = {f1, f2, f3, f4, f5}
    Values = {0, 1}
    Zero = 0
    Refork = FALSE
SYMMETRY MCSymmetry
SPECIFICATION Spec
INVARIANTS
    Isolation
    MappedNotFree
    CountCoversUsers
    NothingLost
CHECK_DEADLOCK FALSE
