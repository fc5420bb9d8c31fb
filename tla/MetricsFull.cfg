\* One request more than the histogram has room for.
SPECIFICATION MSpec
CONSTANTS
    Nil = Nil
    Requests = {r1, r2, r3, r4}
    Ids = {d}
    Groups = {}
    Limits <- MCLimits
    Latencies <- MCLatencies
    MaxSamples = 3
CHECK_DEADLOCK FALSE
SYMMETRY RequestSymmetry
INVARIANTS
    KeepsLastSamples
