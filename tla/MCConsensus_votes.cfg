SPECIFICATION FairSpec
CONSTANTS
    a = a  b = b  c = c
    Proposals = {"p"}
    Agents = {a, b, c}
    Callers = {"c1", "c2"}
    Lists <- SomeLists
    Requests = {0, 2, 4}
    MaxCrashes = 1
INVARIANTS TypeOK EarlyRejectionIsExact
PROPERTIES ImplementsBallot EndsAndIsTold
CHECK_DEADLOCK FALSE
