\* A command is repeated when its last handler is done; the window closes and
\* entries of other commands are deleted within the clock's range.
SPECIFICATION CSpec
CONSTANTS
    Absent = Absent
    Frames = {f1, f2, f3}
    CommandIds = {a, b, none, bad}
    NoId = none
    BadIds = {bad}
    TTL = 1
    MaxTime = 3
    Overlap = FALSE
CHECK_DEADLOCK FALSE
SYMMETRY FrameSymmetry
INVARIANTS
    CTypeOK
    RetryGetsOriginal
