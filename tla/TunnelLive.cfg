\* Frames overtake each other and the connection breaks at any time; every
\* goroutine runs on.
SPECIFICATION FairSpec
CONSTANTS
    Nil = Nil
    Opens = {o1, o2}
    Closes = {k1, k2}
    Streams = {s1, s2}
    FreshIds = TRUE
    Faults = {"spawn"}
CHECK_DEADLOCK FALSE
INVARIANTS
    TypeOK
    SessionsEndWithConnection
PROPERTIES
    TeardownCompletes
    EndIsReported
