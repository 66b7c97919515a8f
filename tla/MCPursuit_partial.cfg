CONSTANTS
    Goals <- OneGoal
    Cycles = {1}
    Patches = {}
    Writes = {"fs_write"}
    Outputs = {"log"}
    Tools = {"tool"}
    Full = 10
    Gate = 9
    Back = 8
    Valued = 2
    Other = 1
    Repeated = 1
    MaxSteps = 6
    StreakLimit = 3
    FailLimit = 2
    NullLimit = 1
    StrikeLimit = 2
    MaxFaults = 0
    MaxLoad = 2
    Watched = {1}
SPECIFICATION Spec
CHECK_DEADLOCK FALSE
INVARIANTS WholeOrNothing
