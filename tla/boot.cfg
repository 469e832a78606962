SPECIFICATION FairSpec
CONSTANTS
    WaitTime = 40
    ScriptMax = 35
    Fbe = TRUE
    KeyTime = 3
    CommonScripts = 2
    ModuleScripts = 2
    MaxUninstalls = 1
    MaxDeaths = 1
CHECK_DEADLOCK FALSE
INVARIANTS ServiceAfterMount MountedBeforeBoot SafeModeClean
PROPERTY PfsEnds
