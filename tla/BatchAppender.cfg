SPECIFICATION FairSpec
CONSTANTS
    x1 = x1
    x2 = x2
    y = y
    NoEvent = NoEvent
    Events <- MCThree
    Prev <- MCPrev
    Checkpointers = {k1, k2}
    MaxFailures = 2
CHECK_DEADLOCK FALSE
INVARIANTS
    ProgramOrder
    AckedInFile
PROPERTIES
    EveryAppendAnswered
