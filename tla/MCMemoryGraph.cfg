SPECIFICATION Spec
CONSTANTS
    Writes <- MCWrites
    KeyRank <- MCKeyRank
    NUL = 0
    MaxTime = 2
INVARIANTS
    EdgesAreWhole
    CachesFresh
    IndexesAgree
    RemembersEverything
