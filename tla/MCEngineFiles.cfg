SPECIFICATION EngineSpec
CONSTANTS
    EngineParts = {"kv"}
    MoeBuilds <- EveryBuild
    Tokens = {0, 1}
    Layouts = {"plain", "dsa"}
    Width <- TwoWidths
    Contexts = {4, 6}
    Margin = 1
    MaxTurns = 2
    MaxCrashes = 2
    NoHeader = NoHeader
    RowTokens = {1, 2}
    RowPrompts <- SomeRowPrompts
    Setups <- SoundCaches
    MaxRows = 4
    Small = 2
    PipeMin = 2
    TopK = 2
    MaxBegun = 3
    NaN = NaN
    Homes <- LayerHomes
    Host = "host"
    MaxForwards = 2
INVARIANTS
    RowsAreOneConversation
CHECK_DEADLOCK FALSE
