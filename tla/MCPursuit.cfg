CONSTANTS
    Goals <- GoalsMC
    Cycles = {1, 2}
    Patches <- PatchesMC
    Writes = {"fs_write"}
    Outputs = {}
    Tools = {"tool"}
    Full = 2
    Gate = 1
    Back = 1
    Valued = 1
    Other = 1
    Repeated = 1
    MaxSteps = 2
    StreakLimit = 2
    FailLimit = 1
    NullLimit = 1
    StrikeLimit = 2
    MaxFaults = 1
    MaxLoad = 2
    Watched = {}
SPECIFICATION FairSpec
CHECK_DEADLOCK FALSE
INVARIANTS TypeOK EarnedUnlessDisturbed
PROPERTIES OnlyFullProgressLands GoalsEnd
