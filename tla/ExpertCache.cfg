SPECIFICATION FairSpec
CONSTANTS
    Experts = {e1, e2, e3}
    NLayers = 2
    Loads = {p1, p2}
    Cap = 2
    CapFloor = 1
    NoExpert = NoExpert
INVARIANTS TypeOK LayerIsOurs HitsAreWhole NoDuplicates OneLoadPerSlab
PROPERTIES CacheIsStable BarrierOpens
