---------------------------- MODULE AtomicStore ----------------------------
(***************************************************************************)
(* What the Processor may rely on (storage.go): the five job tables change *)
(* only by whole transactions.  Each action is one transaction of          *)
(* process.go or server.go, complete, or one call outside any transaction; *)
(* an aborted transaction is no step at all.                               *)
(*                                                                         *)
(* The tables hold at most one row for each job: the retry count where the *)
(* table has such a column.  The order of the queue is left out.           *)
(***************************************************************************)
EXTENDS Naturals

CONSTANTS
    Jobs,        \* job IDs
    MaxRetry,    \* DefaultMaxRetryCount
    HasClaimer,  \* the adapter implements FailedJobClaimer
    None         \* no row

VARIABLES scheduled, enqueued, processing, stale, processed, failed

storeVars == <<scheduled, enqueued, processing, stale, processed, failed>>

RetryCounts == 0 .. MaxRetry
NoRows      == [j \in Jobs |-> None]

AtomicInit ==
    /\ scheduled = {}
    /\ enqueued = NoRows
    /\ processing = NoRows
    /\ stale = {}
    /\ processed = {}
    /\ failed = NoRows

-----------------------------------------------------------------------------

Without(table, j) == [table EXCEPT ![j] = None]

EnqueueNow(j) ==
    /\ enqueued[j] = None
    /\ enqueued' = [enqueued EXCEPT ![j] = 0]
    /\ UNCHANGED <<scheduled, processing, stale, processed, failed>>

EnqueueLater(j) ==
    /\ scheduled' = scheduled \cup {j}
    /\ UNCHANGED <<enqueued, processing, stale, processed, failed>>

\* The scheduled row is deleted by ID, there or not.
EnqueueScheduled(j) ==
    /\ enqueued[j] = None
    /\ scheduled' = scheduled \ {j}
    /\ enqueued' = [enqueued EXCEPT ![j] = 0]
    /\ UNCHANGED <<processing, stale, processed, failed>>

Dequeue(j) ==
    /\ enqueued[j] # None
    /\ processing[j] = None
    /\ enqueued' = Without(enqueued, j)
    /\ processing' = [processing EXCEPT ![j] = enqueued[j]]
    /\ stale' = stale \ {j}
    /\ UNCHANGED <<scheduled, processed, failed>>

Complete(j) ==
    /\ j \notin processed
    /\ processed' = processed \cup {j}
    /\ processing' = Without(processing, j)
    /\ stale' = stale \ {j}
    /\ UNCHANGED <<scheduled, enqueued, failed>>

\* fail with the retry count its caller read; the last try leaves no row.
Fail(j, rc) ==
    /\ processing' = Without(processing, j)
    /\ stale' = stale \ {j}
    /\ IF rc = MaxRetry
       THEN UNCHANGED failed
       ELSE /\ failed[j] = None
            /\ failed' = [failed EXCEPT ![j] = rc + 1]
    /\ UNCHANGED <<scheduled, enqueued, processed>>

\* A claim takes the row there is; without claims the row is deleted by ID
\* and the count is the one its caller read.  A queued copy is kept.
Retry(j, rc) ==
    /\ HasClaimer => failed[j] # None /\ rc = failed[j]
    /\ failed' = Without(failed, j)
    /\ enqueued' = IF enqueued[j] = None
                   THEN [enqueued EXCEPT ![j] = rc]
                   ELSE enqueued
    /\ UNCHANGED <<scheduled, processing, stale, processed>>

\* A heartbeat, and nine seconds without one.
EmitHeartbeat(j) ==
    /\ stale' = stale \ {j}
    /\ UNCHANGED <<scheduled, enqueued, processing, processed, failed>>

HeartbeatExpires(j) ==
    /\ processing[j] # None
    /\ stale' = stale \cup {j}
    /\ UNCHANGED <<scheduled, enqueued, processing, processed, failed>>

AtomicNext ==
    \E j \in Jobs :
        \/ EnqueueNow(j)
        \/ EnqueueLater(j)
        \/ EnqueueScheduled(j)
        \/ Dequeue(j)
        \/ Complete(j)
        \/ \E rc \in RetryCounts : Fail(j, rc) \/ Retry(j, rc)
        \/ EmitHeartbeat(j)
        \/ HeartbeatExpires(j)

AtomicSpec == AtomicInit /\ [][AtomicNext]_storeVars

=============================================================================
