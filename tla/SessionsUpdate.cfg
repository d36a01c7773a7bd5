CONSTANTS
    SessionIds = {0, 1}
    Tables = {t1}
    InitTable = t1
    LOCK_MAX = 4
    TXN_MAX = 99
    MaxTxn = 4
    MaxVersions = 3
    MaxCrashes = 0
    Ops = {"update"}
SPECIFICATION Spec
INVARIANTS OneLiveVersion
CHECK_DEADLOCK FALSE
