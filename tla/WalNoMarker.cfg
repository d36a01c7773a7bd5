CONSTANTS
    MaxPages = 2
    InitPages = 2
    Frames = 1
    MaxWrites = 1
    CheckpointLen = 9
    MaxCrashes = 0
    CrashKinds = {}
    Ops = {"read", "write"}
SPECIFICATION Spec
INVARIANTS TailIsLoser
