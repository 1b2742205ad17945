\* Pages of one or two rows over a table of three jobs.
SPECIFICATION Spec
CONSTANTS
    q1 = q1
    q2 = q2
    None = None
    Jobs = {1, 2, 3}
    Queues = {q1, q2}
    QueueOf <- LastElsewhere
    Found = {1, 3}
    DefaultQueue = q1
    DefaultLimit = 1
    MaxLimit = 2
    Times = {1, 2}
    MaxMoves = 2
INVARIANTS
    TypeOK
    WalkFollowsMoves
    PagesFitTogether
    AdaptersAgree
CHECK_DEADLOCK FALSE
