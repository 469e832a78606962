SPECIFICATION DeviceSpec
CONSTANTS
    Devices <- MCDevices
    Modules = {m1, m2}
    MaxEdits = 4
    MaxCrashes = 2
    MaxLogs = 3
    MaxSetups = 3
    Users = {0, 10}
    AppIds = {"a"}
    Owner = 0
    Targets <- MCTargets
    NoPkg = "none"
    MaxFiles = 2
    MaxDbCrashes = 2
    Sessions <- MCSessions
    MaxInput = 2
    MaxOutput = 2
    PropNames = {"ro.a", "persist.b", "persist.c"}
    Ro = {"ro.a"}
    Persist = {"persist.b", "persist.c"}
    Long = "long"
    Short = {"x", "y"}
    MaxPropOps = 4
SYMMETRY Symmetry
CHECK_DEADLOCK FALSE
INVARIANTS
    ModulesOverlaid
    NothingLost LoadedAsAsked
    LogComplete
    DataKept RunsOnFinalSchema
    TerminalRestored ResultPassedOn SessionEnds
    PersistKept
