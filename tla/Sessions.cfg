CONSTANTS
    SessionIds = {0, 1}
    Tables = {t1, t2}
    InitTable = t1
    LOCK_MAX = 4
    TXN_MAX = 99
    MaxTxn = 5
    MaxVersions = 2
    MaxCrashes = 1
    Ops = {"select", "delete", "update", "vacuum", "create", "catalog", "close"}
SPECIFICATION Spec
INVARIANTS TypeOK OneWriter ReadCommitted SnapshotStable
VIEW StateView
CHECK_DEADLOCK FALSE
