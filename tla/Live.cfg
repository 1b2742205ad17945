\* One process with one slot, started again when it is down; transactions fail.
SPECIFICATION FairSpec
CONSTANTS
    j1 = j1
    j2 = j2
    p1 = p1
    p2 = p2
    w1 = w1
    w2 = w2
    q1 = q1
    q2 = q2
    None = None
    Jobs = {j1}
    Queues = {q1}
    QueueOf <- OneQueue
    MaxRetry = 1
    HasClaimer = TRUE
    Faults = {"rollback"}
    Procs = {p1}
    Slots = {w1}
    Listens <- ListenToAll
    Timely = TRUE
    Features = {"schedule", "signal"}
PROPERTIES
    EveryJobSettles
    LoopsEnd
