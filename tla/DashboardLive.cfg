\* One job; every request is answered or fails.
SPECIFICATION FairSpec
CONSTANTS
    j1 = j1
    j2 = j2
    f1 = f1
    None = None
    Jobs = {j1}
    Tabs = {"failed", "enqueued"}
    Filters = {f1}
    LastPage = 0
    Query = TRUE
    MaxLoads = 1
    MaxHides = 2
PROPERTIES
    QueuedRefreshRuns
    RetryEnds
