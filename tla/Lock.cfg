CONSTANTS
    Txns = {1, 2, 3}
    Objs = {a, b, c}
    LOCK_MAX = 4
    LOCK_MAX_WAITS = 3
SPECIFICATION Spec
INVARIANTS TypeOK Exclusive VictimOnCycle
CHECK_DEADLOCK FALSE
