SPECIFICATION FairSpec
CONSTANTS
    s1 = s1
    t1 = t1
    h1 = h1
    a1 = a1
    v1 = v1
    Sessions = {s1}
    Tasks = {t1}
    Hashes = {h1, h2}
    h2 = h2
    Required = {a1}
    Validators = {v1}
    CommitRecords <- GoodCommit
    HandModes = {"error", "completed", "lost"}
    MaxCommands = 2
    MaxCrashes = 0
    MaxCancels = 1
PROPERTIES AdmittedSettles SuccessSatisfies
CHECK_DEADLOCK FALSE
