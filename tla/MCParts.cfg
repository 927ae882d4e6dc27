SPECIFICATION PartsSpec
CONSTANTS
    Requests = {r1, r2}
    Backends <- TwoBackends
    Capacity = 1
    HealthTtl = 2
    ProbeTimeout = 2
    MaxTime = 4
    Workers = {p1, p2}
    Size = 2
    Wrap = 8
    BatchMax = 2
    MaxHints = 4
    Slots = {s1, s2}
    FirstSlot = s1
    Tokens <- SomeTokens
    Stop = 0
    Models <- SomeModels
    Prompts <- SomePrompts
    MaxCtx = 8
    Spare = 1
    Draft = 2
    Budget = 3
    MaxTurns = 2
    Layers = {1}
    Experts = {0, 1, 2}
    Unit = 4
    Margin = 1
    PinMax = 1
    Devices = {d1}
    DeviceRoom <- OneEach
    Stage = 1
    MaxPasses = 2
    Slabs = {s1, s2}
    Names = {e1, e2}
    Reads = 2
    LoadMax = 2
    ReqMax = 4
    MaxBatches = 2
    MaxClock = 5
INVARIANTS HintsAreTakenInOrder SpeculationIsInvisible ReplyIsWhole BatchOwnsItsReads
    HotStoreIsSound BalancerIsSound AlgorithmsMeetTheirReferences
CHECK_DEADLOCK FALSE
