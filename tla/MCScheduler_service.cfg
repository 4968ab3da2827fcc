SPECIFICATION Spec
CONSTANTS
    w1 = w1
    w2 = w2
    r1 = r1
    x1 = x1
    None = None
    Streams = {w1, r1, x1}
    Writes = {w1, x1}
    GraphID <- MCGraphID
    NumGraphs = 2
    Workers = {k1, k2}
    Stoppers = {p1}
    Pollers = {}
    BufferSize = 1
    MaxStarts = 1
INVARIANTS
    WriterIsAlone
    NoTornRead
PROPERTIES
    ImplementsService
