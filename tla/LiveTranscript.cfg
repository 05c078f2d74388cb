SPECIFICATION Spec
CONSTANTS
    Texts <- SmallTexts
    Drafts <- SmallDrafts
    Batches <- SmallBatches
    ChunkSizes <- Sizes
    MaxSteps = 2
    MaxOutputs = 2
    LiveCapacity = 2
    DurableCapacity = 3
    MaxLags = 1
CONSTRAINT Followed
CHECK_DEADLOCK FALSE
INVARIANTS
    TextsShown
    OutputOnce
