SPECIFICATION BranchSpec
CONSTANTS
    NoTurn = NoTurn
    NoRequest = NoRequest
    a = a
    b = b
    i = i
    c = c
    Turns <- MCTurns
    Inputs <- MCInputs
    SubRuns <- MCSubRuns
    Interrupts <- MCInterrupts
    Requests <- MCRequests
    Copies <- MCCopies
    MaxWork = 1
    MaxFailures = 1
    MaxBranchDepth = 2
    MaxCheckpoints = 1
CHECK_DEADLOCK FALSE
INVARIANTS
    BranchExact
    ForkExact
