SPECIFICATION Spec
CONSTANTS
    s1 = s1
    t1 = t1
    h1 = h1
    a1 = a1
    v1 = v1
    Sessions = {s1}
    Tasks = {t1}
    Hashes = {h1}
    Required = {a1}
    Validators = {v1}
    CommitRecords <- GoodCommit
    HandModes = {"completed"}
    MaxCommands = 2
    MaxCrashes = 1
    MaxCancels = 0
INVARIANT ExitZeroMeansSelected
CHECK_DEADLOCK FALSE
