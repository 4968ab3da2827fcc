SPECIFICATION Spec
CONSTANTS
    Facts <- MCFacts
    Anchors <- MCAnchors
    Worlds <- MCWorlds
    Queries <- MCQueries
    Surprisal <- MCSurprisal
    SeedSize = 1
    CommonDegree = 12
    Now = 2
INVARIANTS
    AnchoredMatchesSeed
    GroupsAreTransparent
    PoolCountsEveryFact
    HitsAreBest
    OthersFundTheLift
    SomeAnchorStaysSilent
CHECK_DEADLOCK FALSE
