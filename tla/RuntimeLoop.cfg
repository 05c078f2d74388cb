SPECIFICATION FairSpec
CONSTANTS
    MaxTurns = 2
    MaxCalls = 2
    MaxBatch = 2
    MaxPrompts = 1
    MaxDeltas = 1
    MaxReplies = 2
    MaxContinuations = 1
    MaxRetry = 1
    AutoCompact = TRUE
    Surfaces <- AnySurface
    Tools = {"read"}
    Forms = {"small", "big"}
    MaxUpsets = 2
    Budget = 4
    ResultMax = 2
    Threshold = 6
    Window = 4
    KeepTurns = 1
    KeepUsers = 1
    KeepResults = 1
INVARIANTS
    EmittedOnce
    ToolOrder
    RebuiltPaired
    NothingForgotten
    ReplacedStays
    PromptKept
PROPERTIES
    EveryTurnEnds
