\* Every kind of session, every failure, clients that stall and leave.
SPECIFICATION FairSpec
CONSTANTS
    s1 = s1
    s2 = s2
    Sessions = {s1, s2}
    Kinds <- MCKinds
    Faults = {"resolve", "exec", "attach", "list", "pull", "create", "start", "remove", "lostReply", "break", "wait"}
CHECK_DEADLOCK FALSE
INVARIANTS
    FailedSpawnLeavesNothing
    OneEndPerSession
    ConnUsedWhileHeld
PROPERTIES
    HandlersReturn
    NoGoroutineStays
