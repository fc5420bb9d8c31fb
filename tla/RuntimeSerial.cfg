\* One command at a time for a deployment: retries, disconnects and restarts.
SPECIFICATION Spec
CONSTANTS
    Nil = Nil
    PortLo = 1
    PortHi = 3
    Calls = {c1, c2, c3, c4}
    Ids = {i1}
    FixedPorts = {}
    OllamaIds = {i1}
    Faults = {"pull", "stop", "lostReply", "crash", "disconnect"}
    Sender = "serial"
    MaxRestarts = 1
SYMMETRY CallSymmetry
CHECK_DEADLOCK FALSE
INVARIANTS
    LoadedIsBacked
    NothingUntracked
    ProgressEnds
PROPERTIES
    RunningOnlyStops
    ImplementsService
