SPECIFICATION FairSpec
CONSTANTS
    MaxCalls = 4
    Kinds <- MCKinds
    MaxDepth = 2
    MaxConcurrent = 3
    RetainLimit = 1
    InboxCapacity = 1
CHECK_DEADLOCK FALSE
INVARIANTS
    Slots
    OneLiveRun
    MessagesKept
PROPERTIES
    CloseReaches
    ClosedStays
    SlotReleased
