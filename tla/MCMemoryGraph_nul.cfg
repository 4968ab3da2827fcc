SPECIFICATION Spec
CONSTANTS
    Writes <- MCSpliced
    KeyRank <- MCKeyRank
    NUL = 0
    MaxTime = 1
INVARIANT FiledUnderEveryAnchor
