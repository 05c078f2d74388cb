SPECIFICATION StreamSpec
CONSTANTS
    turnTask = turnTask
    report = report
    Writers <- TwoWriters
    ChannelCapacity = 1
    MaxRecords = 4
    MaxBreaks = 1
    MaxCheckpoints = 1
CHECK_DEADLOCK FALSE
INVARIANTS
    GapsExplained
PROPERTIES
    OrderedDelivery
