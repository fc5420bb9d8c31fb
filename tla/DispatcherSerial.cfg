\* One command at a time for each of two deployments, single or group.
SPECIFICATION DSpec
CONSTANTS
    Nil = Nil
    PortLo = 1
    PortHi = 4
    PrefillPorts = {1, 2}
    DecodePorts = {3, 4}
    Calls = {c1, c2, c3}
    Ids = {i1, i2}
    FixedPorts = {}
    OllamaIds = {}
    Faults = {"stop", "disconnect", "crash"}
    BodyFaults = {"body", "plan"}
    TotalGPUs = 7
    GPUChoices <- MCGPUChoices
    Sender = "serial"
    MaxRestarts = 1
    MaxTroubles = 1
SYMMETRY CallIdSymmetry
CHECK_DEADLOCK FALSE
INVARIANTS
    EndpointsDistinct
    TablesAgree
    UnloadLeavesNothing
    ServedByItself
    SharesFit
