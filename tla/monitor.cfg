SPECIFICATION FairSpec
CONSTANTS
    Zygotes = {z1}
    Forked = {p1, p2}
    RootNs = RootNs
    MaxStops = 1
CHECK_DEADLOCK FALSE
INVARIANTS HiddenBeforeApp ThreadsLetGo
 
