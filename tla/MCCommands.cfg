SPECIFICATION PartsSpec
CONSTANTS
    Sessions = {"s"}
    Tasks = {"t"}
    Hashes = {"h"}
    Required = {"a"}
    Validators = {"v"}
    CommitRecords <- GoodCommit
    HandModes = {"unregistered", "error", "completed", "lost"}
    MaxCommands = 2
    MaxCrashes = 1
    MaxCancels = 1
    Tolerance = 1
    MaxTime = 2
INVARIANTS JoinKeysResolve QueueRight
CHECK_DEADLOCK FALSE
