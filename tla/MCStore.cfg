SPECIFICATION Spec
CONSTANTS
    Writers = {"w1", "w2", "w3"}
    Loner = "w1"
    Blocks = 3
    MaxPuts = 4
    MaxKills = 3
    Sessions = {"s1"}
    Missions = {"m"}
    EpochNames = {1, 2}
    Cutoffs = {"c1", "c2"}
    PlanNames = {"p1", "p2"}
    Tasks = {"t1", "t2"}
    Pins = {"none", "x"}
    NoPins = "none"
    MaxCommands = 5
    MaxCrashes = 1
    Procs = {1}
    Wants <- SomeWants
    Pages = {"page1", "page2"}
    Calls <- SomeCalls
    HostCap = 1
    CallLimit = 1
    MaxTime = 1
    MaxPulls = 3
INVARIANTS ObjectsWhole RowsResolve PullsHonest
PROPERTY NothingTakenBack
CHECK_DEADLOCK FALSE
