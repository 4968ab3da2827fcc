SPECIFICATION Spec
CONSTANTS
    w1 = w1
    w2 = w2
    r1 = r1
    x1 = x1
    None = None
    Streams = {w1, w2, r1}
    Writes = {w1, w2}
    GraphID <- MCGraphID
    NumGraphs = 1
    Workers = {k1}
    Stoppers = {p1, p2}
    Pollers = {}
    BufferSize = 1
    MaxStarts = 2
INVARIANTS
    TypeOK
    AcceptedOnce
    StopLosesNothing
    LaneOrder
    AckedWritesVisible
PROPERTIES
    StopsTakeTurns
