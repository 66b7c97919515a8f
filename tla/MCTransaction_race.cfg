SPECIFICATION FairSpec
CONSTANTS
    t1 = t1  t2 = t2   a1 = a1  a2 = a2   c1 = c1  c2 = c2
    Txns = {t1}
    Agents = {a1, a2}
    Owner <- Alone
    Callers = {c1, c2}
    Sequential = FALSE
    Files = {"f"}
    Keys = {"k"}
    MaxOps <- TwoOps
    MaxExternal = 1
    MaxCrashes = 1
    MaxSaved = 1
INVARIANTS StagedInvisible DroppedLeavesNoTrace
PROPERTIES OpenEnds
CHECK_DEADLOCK FALSE
