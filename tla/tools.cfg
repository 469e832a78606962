SPECIFICATION ToolsSpec
CONSTANTS
    BootImages <- MCBootImages
    BootEdits <- MCBootEdits
    MaxBootEdits = 1
    Stocks <- MCStocks
    Names <- MCNames
    NameSize <- MCNameSize
    FileSize <- MCFileSize
    Tokens = {"config", "xz", "wait", "verify", "forceencrypt", "stock", "magiskinit", "x", "su"}
    Edits <- MCEdits
    MaxCpioEdits = 2
    MaxPlain = 7
    PieceSizes = {3, 4, 6, 9}
    LZ4_UNCOMPRESSED = 3
    CHUNK = 2
    StockPolicies <- MCStockPolicies
    Statements <- MCStatements
    MaxStatements = 3
    Classes = {"fifo_file", "file", "security", "process", "unix_stream_socket"}
    Perms = {"read", "load_policy", "connectto", "transition", "sigchld"}
    Drivers = {0, 1, 2}
    Funcs = {0, 1}
CHECK_DEADLOCK FALSE
INVARIANTS
    RepackFaithful RamdiskKept RoundTrip
    MagiskRulesHold StatementsHold
