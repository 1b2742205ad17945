\* A kill timeout with a job still running.
SPECIFICATION Spec
CONSTANTS
    j1 = j1
    j2 = j2
    p1 = p1
    p2 = p2
    w1 = w1
    w2 = w2
    q1 = q1
    q2 = q2
    None = None
    Jobs = {j1}
    Queues = {q1}
    QueueOf <- OneQueue
    MaxRetry = 1
    HasClaimer = TRUE
    Faults = {}
    Procs = {p1}
    Slots = {w1}
    Listens <- ListenToAll
    Timely = TRUE
    Features = {"signal"}
PROPERTY
    InterruptedJobsRequeued
