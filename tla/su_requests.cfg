SPECIFICATION ScenesSpec
CONSTANTS
    t1 = t1
    t2 = t2
    t3 = t3
    official = official
    hidden = hidden
    NoThread = NoThread
    NoRow = NoRow
    NoPkg = NoPkg
    Threads <- CacheThreads
    Uids <- SceneUids
    Pkgs <- PolicyPkgs
    Official = official
    PkgAppId <- PolicyPkgAppId
    Rows <- SceneRows
    SettingsUsed <- PolicySettings
    InitPolicies <- SceneInit
    InstalledSets <- PolicyInstalled
    Fresh = 1
    PromptTimeout = 1
    MaxChanges = 1
SYMMETRY CacheSymmetry
INVARIANTS TypeOK OwnInfo PromptOnce AnswersAgree GrantJustified
PROPERTIES DecisionFinal
