CONSTANTS
    MaxPages = 3
    InitPages = 2
    Frames = 2
    MaxWrites = 2
    CheckpointLen = 4
    MaxCrashes = 2
    CrashKinds = {"process", "power_run"}
    Ops = {"read", "write", "new"}
SPECIFICATION Spec
INVARIANTS NoLoserData UndoBeforeSteal
PROPERTIES RollbackRestores
