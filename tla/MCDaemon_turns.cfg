CONSTANTS
    Agents <- AgentsMC
    MaxGoals = 2
    StallLimit = 2
    GoalCycles = 2
    ReleaseEvery = 2
    ReleaseCount = 1
    MaxEvents = 1
SPECIFICATION FairSpec
INVARIANTS TypeOK
CHECK_DEADLOCK FALSE
PROPERTIES SkippedReturn GoalsEnd
