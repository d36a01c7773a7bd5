CONSTANTS
    Keys = {1, 2}
    Vals = {1, 2}
    Pairs <- PairsDef
    Threshold = 2
    MaxSeq = 3
    Faults = {"write"}
SPECIFICATION Spec
INVARIANTS TypeOK ReadsAgree
PROPERTIES ImplementsMap
