SPECIFICATION FairSpec
CONSTANTS
    Reports = {1, 2}
    Child <- MCChild
    Capacity = 2
    MaxFollowUps = 2
    MaxFaults = 1
CHECK_DEADLOCK FALSE
INVARIANTS
    OneBatch
    NotDropped
PROPERTIES
    ContractKept
    WakingEnds
