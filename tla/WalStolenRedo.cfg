CONSTANTS
    MaxPages = 2
    InitPages = 2
    Frames = 1
    MaxWrites = 3
    CheckpointLen = 9
    MaxCrashes = 0
    CrashKinds = {}
    Ops = {"write"}
SPECIFICATION Spec
INVARIANTS CommittedState
