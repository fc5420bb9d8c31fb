\* Overlapping commands; a pull, the plan, a create, a start, a probe, an ollama
\* pull or a removal fails, and the connection breaks.  Failing stops, a failing
\* removal by name, lost answers, exits and restarts are not in this run.  Every
\* step of a call is fair.
SPECIFICATION FairSpec
CONSTANTS
    Nil = Nil
    PortLo = 1
    PortHi = 2
    Calls = {c1, c2, c3}
    Ids = {i1}
    FixedPorts = {}
    OllamaIds = {i1}
    Faults = {"pull", "spec", "create", "start", "ready", "ollama", "remove", "disconnect"}
    Sender = "any"
    MaxRestarts = 0
CHECK_DEADLOCK FALSE
INVARIANTS
    TypeOK
    FailedLoadLeavesNothing
PROPERTY
    EveryCallReturns
