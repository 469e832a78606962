SPECIFICATION ScenesSpec
CONSTANTS
    t1 = t1
    t2 = t2
    Threads = {t1, t2}
    Targets <- SceneTargets
    Valid <- SceneValid
    Default <- MCDefault
    Isolated = "isolated"
    NoThread = NoThread
SYMMETRY MCSymmetry
INVARIANTS NothingForgotten MapFresh HolderRuns BackedIfAlone
