SPECIFICATION FairSpec
CONSTANTS
    NoTurn = NoTurn
    NoRequest = NoRequest
    a = a
    b = b
    i = i
    r = r
    Turns <- MCTurns
    Inputs <- MCInputs
    SubRuns <- MCSubRuns
    Interrupts <- MCInterrupts
    Requests <- MCRequests
    MaxWork = 1
    MaxFailures = 1
CHECK_DEADLOCK FALSE
INVARIANTS
    RightTurn
    WholeTurns
PROPERTIES
    KeepsLeaseContract
    EveryTurnEnds
