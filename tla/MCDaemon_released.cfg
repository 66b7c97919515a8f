CONSTANTS
    Agents <- AgentsMC
    MaxGoals = 2
    StallLimit = 2
    GoalCycles = 2
    ReleaseEvery = 2
    ReleaseCount = 2
    MaxEvents = 0
SPECIFICATION FairSpec
PROPERTIES ReleasedRun
CHECK_DEADLOCK FALSE
