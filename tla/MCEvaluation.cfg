SPECIFICATION Spec
CONSTANTS
    Texts <- Written
    Bundled = {"bundled"}
    Replies = {"good", "madeUp", "unfenced", "two", "wide", "claimed", "badYaml"}
    Copied = {"bundled"}
    Names = {"valuation", "bank"}
    Attempts = {"a1"}
    Known = {"citation-closure@1", "source-cutoff@1"}
    MaxMethods = 2
    Ordinary = {"good", "madeUp"}
    Drafted = "valuation"
    N = 2
    Graders = {"g1"}
    Shard <- Shards
    Tiers = {0, 4}
    Expecting = {}
    MaxSessions = 3
    MaxAttempts = 2
    MaxMishaps = 1
    Releases = 2
    Valuations = {"v1", "v2", "v3"}
    Maker <- Hands
    MaxSettlements = 2
    MaxRows = 2
INVARIANTS InForceGated MethodKept AskedOnce GradesStand
PROPERTIES RankFollowsRecord
CHECK_DEADLOCK FALSE
