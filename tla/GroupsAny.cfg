\* Commands overlap freely, docker fails in every way.
SPECIFICATION Spec
CONSTANTS
    Nil = Nil
    Calls = {c1, c2, c3}
    Ids = {i1}
    PrefillReplicas = 1
    DecodeReplicas = 1
    PrefillPorts = {1, 2}
    DecodePorts = {3, 4}
    Faults = {"body", "plan", "pull", "create", "start", "ready", "remove", "lostReply", "crash", "disconnect"}
    Sender = "any"
    MaxRestarts = 1
SYMMETRY CallSymmetry
CHECK_DEADLOCK FALSE
INVARIANTS
    TypeOK
    GroupIsWhole
    RolledBack
PROPERTY
    NeverReplaced
