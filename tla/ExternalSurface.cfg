SPECIFICATION Spec
CONSTANTS
    Servers = {s1}
    Project = {s1}
    Versions <- MCVersions
    Declarations <- MCDeclarations
    Callers = {a, b}
    MaxOps = 2
    MaxFaults = 1
SYMMETRY CallerSymmetry
CHECK_DEADLOCK FALSE
INVARIANTS
    SettledSurface
    FailedReloadKeeps
PROPERTIES
    ReplacedOnlyByOverlap
