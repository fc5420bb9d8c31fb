\* Two loads of a deployment, followed by slow and by departing sessions.
SPECIFICATION FairSpec
CONSTANTS
    Nil = Nil
    Loads = {l1, l2}
    Followers = {f1}
    LogCap = 2
    ChanCap = 1
    MaxPullLines = 1
CHECK_DEADLOCK FALSE
INVARIANTS
    LinesInOrder
    EndHasOutcome
PROPERTIES
    LoadsEnd
    FollowersEnd
