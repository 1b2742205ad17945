---------------------------- MODULE MemoryStore ----------------------------
(***************************************************************************)
(* The in-memory adapter (storage/memory.go): the methods on memoryState   *)
(* the Processor writes with, the mutex, and Transact, which works on a    *)
(* clone of the state and swaps it in when its function returned nil.      *)
(*                                                                         *)
(* A state has a map of rows for each table, `beats' the keys of           *)
(* processingHeartbeat, and `old' those with a time nine seconds ago.      *)
(***************************************************************************)
EXTENDS Naturals

CONSTANT None  \* no row, no job, nobody, no clone

VARIABLES
    db,      \* Memory.state
    holder,  \* the goroutine inside Memory.mu, or None
    work     \* the clone its transaction works on, or None

-----------------------------------------------------------------------------
(* The methods: the state they leave and what they return. *)

Ok(s)        == [state |-> s, result |-> "ok", rc |-> None]
Found(s, rc) == [state |-> s, result |-> "ok", rc |-> rc]
Nothing(s)   == [state |-> s, result |-> "none", rc |-> None]
Duplicate(s) == [state |-> s, result |-> "exists", rc |-> None]

InsertToScheduled(s, j) ==
    IF j \in s.scheduled THEN Duplicate(s)
                         ELSE Ok([s EXCEPT !.scheduled = @ \cup {j}])

DeleteFromScheduled(s, j) == Ok([s EXCEPT !.scheduled = @ \ {j}])

InsertToQueue(s, j, rc) ==
    IF s.enqueued[j] # None THEN Duplicate(s)
                            ELSE Ok([s EXCEPT !.enqueued[j] = rc])

\* j is None when the queue is empty, otherwise one of its oldest.
DeleteFromQueue(s, j) ==
    IF j = None THEN Nothing(s)
                ELSE Found([s EXCEPT !.enqueued[j] = None], s.enqueued[j])

\* Mutants: a heartbeat of an earlier try is kept; none is written.
InsertToProcessingKeepsBeat(s, j, rc) ==
    IF s.processing[j] # None
    THEN Duplicate(s)
    ELSE Ok([s EXCEPT !.processing[j] = rc, !.beats = @ \cup {j}])
InsertToProcessingNoBeat(s, j, rc) ==
    IF s.processing[j] # None
    THEN Duplicate(s)
    ELSE Ok([s EXCEPT !.processing[j] = rc])

InsertToProcessing(s, j, rc) ==
    IF s.processing[j] # None
    THEN Duplicate(s)
    ELSE Ok([s EXCEPT !.processing[j] = rc,
                      !.beats = @ \cup {j}, !.old = @ \ {j}])

\* The entry is written whether or not the job still has a row.
EmitHeartbeat(s, j) == Ok([s EXCEPT !.beats = @ \cup {j}, !.old = @ \ {j}])

GetByLastHeartbeatBefore(s) == { j \in s.old : s.processing[j] # None }

DeleteFromProcessing(s, j) ==
    Ok([s EXCEPT !.processing[j] = None,
                 !.beats = @ \ {j}, !.old = @ \ {j}])

InsertToProcessed(s, j) ==
    IF j \in s.processed THEN Duplicate(s)
                         ELSE Ok([s EXCEPT !.processed = @ \cup {j}])

InsertToFailed(s, j, rc) ==
    IF s.failed[j] # None THEN Duplicate(s)
                          ELSE Ok([s EXCEPT !.failed[j] = rc])

ClaimFailed(s, j) ==
    IF s.failed[j] = None
    THEN Nothing(s)
    ELSE Found([s EXCEPT !.failed[j] = None], s.failed[j])

Call(method, s, j, rc) ==
    CASE method = "InsertToScheduled"    -> InsertToScheduled(s, j)
      [] method = "DeleteFromScheduled"  -> DeleteFromScheduled(s, j)
      [] method = "InsertToQueue"        -> InsertToQueue(s, j, rc)
      [] method = "DeleteFromQueue"      -> DeleteFromQueue(s, j)
      [] method = "InsertToProcessing"   -> InsertToProcessing(s, j, rc)
      [] method = "EmitHeartbeat"        -> EmitHeartbeat(s, j)
      [] method = "DeleteFromProcessing" -> DeleteFromProcessing(s, j)
      [] method = "InsertToProcessed"    -> InsertToProcessed(s, j)
      [] method = "InsertToFailed"       -> InsertToFailed(s, j, rc)
      [] method = "ClaimFailed"          -> ClaimFailed(s, j)

-----------------------------------------------------------------------------
(* The mutex and Transact. *)

\* read and write outside a transaction.
Locked(answer) ==
    /\ holder = None
    /\ db' = answer.state
    /\ UNCHANGED <<holder, work>>

Begin(c) ==
    /\ holder = None
    /\ holder' = c
    /\ work' = db
    /\ UNCHANGED db

Statement(c, answer) ==
    /\ holder = c
    /\ work' = answer.state
    /\ UNCHANGED <<db, holder>>

Commit(c) ==
    /\ holder = c
    /\ db' = work
    /\ holder' = None
    /\ work' = None

\* Mutant: an error returns without unlocking.
AbortLocked(c) == holder = c /\ UNCHANGED <<db, holder, work>>

Abort(c) ==
    /\ holder = c
    /\ holder' = None
    /\ work' = None
    /\ UNCHANGED db

=============================================================================
