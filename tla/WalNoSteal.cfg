CONSTANTS
    MaxPages = 3
    InitPages = 2
    Frames = 3
    MaxWrites = 3
    CheckpointLen = 3
    MaxCrashes = 2
    CrashKinds = {"process", "power_first"}
    Ops = {"write", "new", "vacuum"}
SPECIFICATION Spec
INVARIANTS TypeOK CommittedState
