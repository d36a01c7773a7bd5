CONSTANTS
    Node = {n1, n2, n3}
    None = None
    RAFT_MAX_BATCH = 3
    QCAP = 2
    MaxTerm = 3
    MaxLog = 1
    MaxEvents = 3
SYMMETRY Symmetry
VIEW View
CONSTRAINTS NoIdleReply OneAtATime
SPECIFICATION Spec
INVARIANTS TypeOK ElectionSafety LogMatching LeaderCompleteness StateMachineSafety MatchIsHeld ReadsAreCurrent
CHECK_DEADLOCK FALSE
