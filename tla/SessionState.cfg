SPECIFICATION FairSpec
CONSTANTS
    Task = Task
    Others = {o1}
    Waiters = {w}
    Prompts <- AnyPrompt
    Batches <- Several
    Capacity = 1
    MaxTurns = 2
    MaxLog = 4
    MaxRestarts = 1
CHECK_DEADLOCK FALSE
INVARIANTS
    OwnRecovered
    WaiterRight
PROPERTIES
    WaiterEnds
