SPECIFICATION Spec
CONSTANTS
    MaxEvents = 8
    MaxCheckpoints = 4
    MaxFailures = 3
    NoMarker = NoMarker
CHECK_DEADLOCK FALSE
INVARIANTS
    NothingDestroyed
    NoDoubleApply
