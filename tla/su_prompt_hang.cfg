SPECIFICATION DaemonSpec
CONSTANTS
    t1 = t1
    t2 = t2
    t3 = t3
    official = official
    hidden = hidden
    NoThread = NoThread
    NoRow = NoRow
    NoPkg = NoPkg
    Threads <- LiveThreads
    Uids <- LiveUids
    Pkgs <- CachePkgs
    Official = official
    PkgAppId <- CachePkgAppId
    Rows <- CacheRows
    SettingsUsed <- CacheSettings
    InitPolicies <- LiveInit
    InstalledSets <- CacheInstalled
    Fresh = 1
    PromptTimeout = 1
    MaxChanges = 0
PROPERTIES PromptReturns
