------------------------------ MODULE JobStore ------------------------------
(***************************************************************************)
(* The five job tables a StorageAdapter keeps (storage.go), at the level   *)
(* the Processor relies on: each operation below is one adapter method,    *)
(* atomic inside the transaction that calls it.  The methods are read off  *)
(* storage/memory.go; the uniqueness conflicts are the primary keys of     *)
(* storage/sql.go, which both adapters enforce.                            *)
(*                                                                         *)
(* Timestamps are abstracted to the question the code asks of them: a      *)
(* scheduled job is `due' when its EnqueueAt has passed, a failed job is   *)
(* `retryDue' when its NextRetryAt has passed, and a processing row is     *)
(* `stale' when its last heartbeat is older than three heartbeat periods.  *)
(***************************************************************************)
EXTENDS Integers, Sequences, SequencesExt

CONSTANTS
    Jobs,        \* job IDs; a fresh UUID per call of EnqueueAt
    Queues,      \* queue names
    QueueOf,     \* the queue of each job (JobDefinition.Queue)
    MaxRetry,    \* DefaultMaxRetryCount
    HasClaimer,  \* the adapter implements FailedJobClaimer
    Faults,      \* how a transaction without conflict may still go wrong
    None         \* "no row", "no job", "no queue"

ASSUME QueueAssumption == QueueOf \in [Jobs -> Queues]
ASSUME RetryAssumption == MaxRetry \in Nat
ASSUME NoneAssumption  == None \notin Jobs \cup Queues \cup Nat
ASSUME FaultAssumption == Faults \subseteq {"rollback", "lostAck"}
ASSUME ClaimAssumption == HasClaimer \in BOOLEAN

VARIABLES
    scheduled,   \* rows of the scheduled table
    due,         \* scheduled rows whose time has come
    queue,       \* rows of the enqueued table, oldest EnqueuedAt first
    processing,  \* retry count of each processing row, None without a row
    stale,       \* processing rows whose heartbeat is too old
    processed,   \* rows of the processed table
    failed,      \* retry count of each failed row, None without a row
    retryDue,    \* failed rows whose backoff has elapsed
    discarded    \* jobs dropped after their last try (history: no table)

storeVars == <<scheduled, due, queue, processing, stale, processed, failed,
               retryDue, discarded>>

RetryCounts == 0 .. MaxRetry
QueueRow    == [job : Jobs, rc : RetryCounts]

StoreTypeOK ==
    /\ scheduled \subseteq Jobs
    /\ due \subseteq scheduled
    /\ queue \in Seq(QueueRow)
    /\ processing \in [Jobs -> RetryCounts \cup {None}]
    /\ stale \subseteq Jobs
    /\ processed \subseteq Jobs
    /\ failed \in [Jobs -> RetryCounts \cup {None}]
    /\ retryDue \subseteq Jobs
    /\ discarded \subseteq Jobs

StoreInit ==
    /\ scheduled = {}
    /\ due = {}
    /\ queue = <<>>
    /\ processing = [j \in Jobs |-> None]
    /\ stale = {}
    /\ processed = {}
    /\ failed = [j \in Jobs |-> None]
    /\ retryDue = {}
    /\ discarded = {}

-----------------------------------------------------------------------------
(* Where a job is. *)

Queued(j)     == \E i \in DOMAIN queue : queue[i].job = j
Processing(j) == processing[j] # None
Failed(j)     == failed[j] # None

\* The row DeleteFromQueue(q) selects: the oldest one of queue q.
Oldest(q) == { i \in DOMAIN queue :
                 /\ QueueOf[queue[i].job] = q
                 /\ \A k \in 1 .. i - 1 : QueueOf[queue[k].job] # q }

\* Mutants: every row counts as stale; the comparison is turned round; the
\* backoff is not looked at.
StaleRowsAll   == { [job |-> j, rc |-> processing[j]] :
                      j \in { k \in Jobs : Processing(k) } }
StaleRowsFresh == { [job |-> j, rc |-> processing[j]] :
                      j \in { k \in Jobs \ stale : Processing(k) } }
RetryRowsAll   == { [job |-> j, rc |-> failed[j]] :
                      j \in { k \in Jobs : Failed(k) } }

\* GetByLastHeartbeatBefore and NextFromFailed (NextFromScheduled is `due'):
\* the snapshots the background loops work through.
StaleRows == { [job |-> j, rc |-> processing[j]] :
                  j \in { k \in stale : Processing(k) } }
RetryRows == { [job |-> j, rc |-> failed[j]] :
                  j \in { k \in retryDue : Failed(k) } }

-----------------------------------------------------------------------------
(* The writing methods.  A method that reports a duplicate aborts the      *)
(* transaction around it: the predicates of the callers say when.          *)

InsertToScheduled(j) ==
    /\ scheduled' = scheduled \cup {j}
    /\ UNCHANGED due

DeleteFromScheduled(j) ==
    /\ scheduled' = scheduled \ {j}
    /\ due' = due \ {j}

InsertToQueue(j, rc) == queue' = Append(queue, [job |-> j, rc |-> rc])

DeleteFromQueue(i) == queue' = RemoveAt(queue, i)

InsertToProcessing(j, rc) ==
    /\ processing' = [processing EXCEPT ![j] = rc]
    /\ stale' = stale \ {j}

EmitHeartbeat(j) == stale' = stale \ {j}

DeleteFromProcessing(j) ==
    /\ processing' = [processing EXCEPT ![j] = None]
    /\ stale' = stale \ {j}

InsertToProcessed(j) == processed' = processed \cup {j}

InsertToFailed(j, rc) ==
    /\ failed' = [failed EXCEPT ![j] = rc]
    /\ retryDue' = retryDue \ {j}

DeleteFromFailed(j) ==
    /\ failed' = [failed EXCEPT ![j] = None]
    /\ retryDue' = retryDue \ {j}

-----------------------------------------------------------------------------
(* Transact(f): f runs on the tables alone; an error from f discards its   *)
(* writes.  "rollback" is an error from the database before the commit,    *)
(* "lostAck" one from the commit itself after it took effect (sql.go       *)
(* returns tx.Commit()'s error).                                           *)

Transact(conflict) ==
    IF conflict
    THEN {"rollback"}
    ELSE {"commit"} \cup Faults

Applied(outcome)   == outcome # "rollback"
Erroneous(outcome) == outcome # "commit"

-----------------------------------------------------------------------------
(* The clock passes the timestamps the tables hold. *)

ScheduleArrives(j) ==
    /\ j \in scheduled \ due
    /\ due' = due \cup {j}
    /\ UNCHANGED <<scheduled, queue, processing, stale, processed, failed,
                   retryDue, discarded>>

BackoffElapses(j) ==
    /\ Failed(j)
    /\ j \notin retryDue
    /\ retryDue' = retryDue \cup {j}
    /\ UNCHANGED <<scheduled, due, queue, processing, stale, processed,
                   failed, discarded>>

HeartbeatExpires(j) ==
    /\ Processing(j)
    /\ j \notin stale
    /\ stale' = stale \cup {j}
    /\ UNCHANGED <<scheduled, due, queue, processing, processed, failed,
                   retryDue, discarded>>

=============================================================================
