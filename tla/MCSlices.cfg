SPECIFICATION Spec
CONSTANTS
    N = 2
    Graders = {"g1", "g2"}
    Shard <- Slices
    Tiers = {0, 4}
    Expecting = {}
    MaxSessions = 1
    MaxAttempts = 1
    MaxMishaps = 0
    Releases = 1
INVARIANTS SlicesKept
CHECK_DEADLOCK FALSE
