\* Two tabs of two pages, a queue filter and two jobs.
SPECIFICATION Spec
CONSTANTS
    j1 = j1
    j2 = j2
    f1 = f1
    None = None
    Jobs = {j1, j2}
    Tabs = {"failed", "enqueued"}
    Filters = {f1}
    LastPage = 1
    Query = TRUE
    MaxLoads = 1
    MaxHides = 2
INVARIANTS
    TypeOK
    ShownIsSelected
    DetailsInList
PROPERTY
    RetriesConfirmedJob
SYMMETRY Interchangeable
