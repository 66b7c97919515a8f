SPECIFICATION Spec
CONSTANTS
    t1 = t1  t2 = t2   a1 = a1  a2 = a2   c1 = c1  c2 = c2
    Txns = {t1, t2}
    Agents = {a1, a2}
    Owner <- OneEach
    Callers = {c1, c2}
    Sequential = TRUE
    Files = {"f"}
    Keys = {}
    MaxOps <- TwoAndOne
    MaxExternal = 1
    MaxCrashes = 1
    MaxSaved = 1
SYMMETRY Threads
INVARIANTS TypeOK FailedCommitLeavesNoFile AppliedAsStaged LostOnlyUnseen
CHECK_DEADLOCK FALSE
