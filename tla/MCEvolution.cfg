CONSTANTS
    Proposals = {p1}
    Tools = {t1}
    ToolOf <- ToolOfMC
    Quorum = 2
    Approvers = {a1, a2}
    Workers = {w1, w2}
    MaxFaults = 2
SPECIFICATION FairSpec
INVARIANTS TypeOK AppliedIsWarranted ApprovedIsApplied
PROPERTIES ToolsSettle
