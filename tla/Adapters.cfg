\* One slot and one sweeper on either adapter, one job.  CHECK_DEADLOCK is
\* off because the process does stop once every SQL connection is lost.
SPECIFICATION FairSpec
CONSTANTS
    None = None
    Jobs = {j1}
    Slots = {w1}
    Sweepers = {b1}
    MaxRetry = 1
    MaxConns = 2
    Faults = {"rollback", "lostAck"}
INVARIANTS
    TypeOK
    RowsHaveBeats
PROPERTIES
    FollowsAtomicStore
    CallsReturn
CHECK_DEADLOCK FALSE
