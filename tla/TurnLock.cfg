SPECIFICATION LockSpec
CONSTANTS
    a = a
    b = b
    c = c
    p = p
    q = q
    NoTurn = NoTurn
    Absent = Absent
    Torn = Torn
    Turns <- MCTurns
    Pids <- MCPids
    PidOf <- MCPidOf
    Attempts = 2
CHECK_DEADLOCK FALSE
PROPERTIES
    ImplementsLease
