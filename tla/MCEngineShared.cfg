SPECIFICATION EngineSpec
CONSTANTS
    EngineParts = {"rows"}
    MoeBuilds <- EveryBuild
    Tokens = {0, 1}
    Layouts = {"plain"}
    Width <- OneWidth
    Contexts = {6}
    Margin = 2
    MaxTurns = 2
    MaxCrashes = 2
    NoHeader = NoHeader
    RowTokens = {1, 2}
    RowPrompts <- SomeRowPrompts
    Setups <- SharedCaches
    MaxRows = 4
    Small = 2
    PipeMin = 2
    TopK = 2
    MaxBegun = 3
    NaN = NaN
    Homes <- LayerHomes
    Host = "host"
    MaxForwards = 2
INVARIANTS
    AttentionReadsHost
CHECK_DEADLOCK FALSE
