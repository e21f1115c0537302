SPECIFICATION Spec
CONSTANTS
    s1 = s1
    t1 = t1
    h1 = h1
    h2 = h2
    a1 = a1
    v1 = v1
    Sessions = {s1}
    Tasks = {t1}
    Hashes = {h1, h2}
    Required = {a1}
    Validators = {v1}
    CommitRecords <- SomeCommits
    HandModes = {"error", "completed", "breached", "lost"}
    MaxCommands = 3
    MaxCrashes = 1
    MaxCancels = 1
INVARIANTS TypeOK LedgerSound OneRunPerGeneration CancelSticks RequestsIdempotent
PROPERTIES NoHandAfterAbort ImplementsContract
CONSTRAINT ThirdUndisturbed
CHECK_DEADLOCK FALSE
