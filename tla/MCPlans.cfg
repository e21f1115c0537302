SPECIFICATION Spec
CONSTANTS
    Names = {1, 2, 3, 4}
    MaxNodes = 3
    MaxDeps = 2
    NodeTasks = {1, 2, 3}
    MaxRuns = 2
    MaxMishaps = 2
INVARIANTS VerdictRight EachNodeTriedOnce
PROPERTIES DependenciesFirst Ends
CHECK_DEADLOCK FALSE
