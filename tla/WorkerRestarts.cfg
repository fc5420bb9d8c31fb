\* Three starts of a worker that may be killed at any step.
SPECIFICATION FairSpec
CONSTANTS
    Jwts = {j1, j2, j3}
    NoToken = NoToken
    Part = Part
    MaxBoots = 3
CHECK_DEADLOCK FALSE
INVARIANTS
    TypeOK
    TokenIsIssued
    OneIdentity
PROPERTIES
    Reconnects
    SignalStops
