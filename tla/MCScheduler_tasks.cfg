SPECIFICATION FairSpec
CONSTANTS
    u = u  n = n  b = b
    Tasks = {u, n, b}
    Workers = {"w1", "w2"}
    Priority <- OneOfEach
    Streaming = {b}
    MaxTasks = 2
    MaxUpsets = 1
INVARIANTS TypeOK BooksAgree NoTaskIsLost RunsAreAccounted
PROPERTIES EveryTaskEnds
CHECK_DEADLOCK FALSE
