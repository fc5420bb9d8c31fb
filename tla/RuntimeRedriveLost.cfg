\* A load re-driven after a disconnect, with a docker daemon that never fails.
SPECIFICATION Spec
CONSTANTS
    Nil = Nil
    PortLo = 1
    PortHi = 2
    Calls = {c1, c2}
    Ids = {i1}
    FixedPorts = {}
    OllamaIds = {}
    Faults = {"disconnect"}
    Sender = "redrive"
    MaxRestarts = 0
CHECK_DEADLOCK FALSE
INVARIANT
    LoadOkIsLoaded
