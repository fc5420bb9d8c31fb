\* Requests, scrapes and heartbeats overlap loads and unloads of their
\* deployment in every way; the histogram has room for what they record.
SPECIFICATION MSpec
CONSTANTS
    Nil = Nil
    Requests = {r1, r2, r3}
    Ids = {d, g}
    Groups = {g}
    Limits <- MCLimits
    Latencies <- MCLatencies
    MaxSamples = 3
CHECK_DEADLOCK FALSE
SYMMETRY RequestSymmetry
INVARIANTS
    PercentilesAreRanks
    ActiveDriftsByStale
    
