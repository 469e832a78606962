SPECIFICATION HistSpec
CONSTANTS
    t1 = t1
    t2 = t2
    Threads = {t1, t2}
    Targets <- MCTwoTargets
    Valid <- MCTwoTargets
    Default <- MCNone
    Isolated = "isolated"
    NoThread = NoThread
SYMMETRY MCSymmetry
INVARIANT LockCovers
