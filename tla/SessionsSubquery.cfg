CONSTANTS
    SessionIds = {0, 1}
    Tables = {t1}
    InitTable = t1
    LOCK_MAX = 4
    TXN_MAX = 99
    MaxTxn = 4
    MaxVersions = 2
    MaxCrashes = 0
    Ops = {"select"}
SPECIFICATION Spec
INVARIANTS SubqueryReadsOwn
CHECK_DEADLOCK FALSE
