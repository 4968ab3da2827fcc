SPECIFICATION MCSpec
CONSTANTS
    DocKeys = {1, 2, 3}
    Texts <- MCTexts
    PostingChunk = 2
    Keys = {1, 2, 3}
    Vectors <- MCVectors
    Queries = {0, 2}
    Trees = {1, 2}
    FlushFactor = 2
    Overfetch = 2
    Rows <- MCRows
    LeafSize = 1
    TreeKeys = {1, 2}
    ItemKeys = {1, 2, 3, 4, 5, 6}
    Priorities = {1, 2}
    TreeValues = {1, 2, 3, 4, 5, 6, 7, 8, 9, 10, 11}
    Degree = 2
INVARIANTS
    PostingsMatchDocuments
    NumbersAreOwn
    TextGarbageBounded
    ForestHoldsLive
    FoundUnlessCrowdedOut
    TreeWalksAreReadings
    HeapIsSound
    TreeIsSound
CHECK_DEADLOCK FALSE
