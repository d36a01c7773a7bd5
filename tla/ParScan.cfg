SPECIFICATION Spec
CONSTANTS
    Threads = {0, 1, 2, 3}
    Pages = {0, 1, 2, 3}
    NumFrames = 3
    MaxErrors = 1
    np = 3
    nworkers = 2
INVARIANTS OneFramePerPage PinsCounted HeldIsLatest ScanAnswers NeverWrong
PROPERTY ScanEnds
CHECK_DEADLOCK FALSE
