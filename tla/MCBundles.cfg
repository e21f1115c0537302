SPECIFICATION Spec
SYMMETRY Interchangeable
CONSTRAINTS GapAlone OneChanged
CONSTANTS
    Bundlers = {b1, b2}
    Inputs = {"i"}
    LastVersion = 3
    Runs <- LostThenCommitted
    Committed <- Artifacts
INVARIANTS GreenIsSound AloneVerifies
CHECK_DEADLOCK FALSE
