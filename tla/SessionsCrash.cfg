CONSTANTS
    SessionIds = {0, 1}
    Tables = {t1}
    InitTable = t1
    LOCK_MAX = 4
    TXN_MAX = 99
    MaxTxn = 4
    MaxVersions = 2
    MaxCrashes = 1
    Ops = {}
SPECIFICATION Spec
INVARIANTS CrashKeepsCommits
CHECK_DEADLOCK FALSE
