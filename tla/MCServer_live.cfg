SPECIFICATION FairServerSpec
CONSTANTS
    w1 = w1
    w2 = w2
    r1 = r1
    None = None
    Streams = {w1, w2}
    Writes = {w1, w2}
    Malformed = {}
    Explains = {}
    Pollers = {}
    GraphID <- MCGraphID
    NumGraphs = 1
    Workers = {k1}
    Stoppers = {p1}
    BufferSize = 1
    MaxStarts = 1
PROPERTIES
    RequestsAnswered
    ShutdownCompletes
