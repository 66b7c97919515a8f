CONSTANTS
    d = d
    s = s
    Tasks <- TasksMC
    DependsOn <- DependsOnMC
    Outputs = {2}
    Resembles <- ResemblesMC
    OtherGoals = {11}
    Daemon = d
    Servers = {s}
    MaxRequests = 1
    MaxCrashes = 1
SPECIFICATION FairSpec
INVARIANTS TypeOK ChainsRunInOrder
PROPERTIES KeptUnlessOverwritten AssignedEnds
CHECK_DEADLOCK FALSE
