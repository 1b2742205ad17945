------------------------------ MODULE SqlStore ------------------------------
(***************************************************************************)
(* The SQL adapter (storage/sql.go) over SQLite, the database its tests    *)
(* and the README use: the statements the Processor writes with, Transact, *)
(* and the connections of sql.DB.                                          *)
(*                                                                         *)
(* SQLite has one writer.  A transaction begins without a lock, its first  *)
(* statement (always a write) takes the write lock, waiting at most the    *)
(* busy timeout, and other connections see its writes when it commits.     *)
(*                                                                         *)
(* A state has a map of rows for each table, `beats' the rows that have a  *)
(* last_heartbeat_at, and `old' those where it is nine seconds ago.        *)
(***************************************************************************)
EXTENDS Naturals, FiniteSets

CONSTANTS
    MaxConns,  \* sql.DB.SetMaxOpenConns
    Faults,    \* "rollback": any statement or commit may fail; "lostAck":
               \* a commit takes effect and reports an error
    None       \* no row, no job, nobody, no transaction

VARIABLES
    db,      \* what is committed
    holder,  \* the transaction with the write lock, or None
    work,    \* what it has written
    open,    \* transactions begun, each on a connection of its own
    lost     \* connections that were never given back

-----------------------------------------------------------------------------
(* The statements: the rows they leave and what their methods return. *)

Done(s)      == [state |-> s, result |-> "ok", rc |-> None]
Row(s, rc)   == [state |-> s, result |-> "ok", rc |-> rc]
NoRow(s)     == [state |-> s, result |-> "none", rc |-> None]
Conflict(s)  == [state |-> s, result |-> "exists", rc |-> None]

InsertToScheduled(s, j) ==
    IF j \in s.scheduled THEN Conflict(s)
                         ELSE Done([s EXCEPT !.scheduled = @ \cup {j}])

DeleteFromScheduled(s, j) == Done([s EXCEPT !.scheduled = @ \ {j}])

\* ON CONFLICT DO NOTHING, and no row affected.
InsertToQueue(s, j, rc) ==
    IF s.enqueued[j] # None THEN Conflict(s)
                            ELSE Done([s EXCEPT !.enqueued[j] = rc])

\* j is None when the queue has no row, otherwise its oldest.
DeleteFromQueue(s, j) ==
    IF j = None THEN NoRow(s)
                ELSE Row([s EXCEPT !.enqueued[j] = None], s.enqueued[j])

InsertToProcessing(s, j, rc) ==
    IF s.processing[j] # None
    THEN Conflict(s)
    ELSE Done([s EXCEPT !.processing[j] = rc, !.beats = @ \cup {j}])

\* An UPDATE: no row, no effect.
EmitHeartbeat(s, j) == Done([s EXCEPT !.old = @ \ {j}])

GetByLastHeartbeatBefore(s) == s.old

DeleteFromProcessing(s, j) ==
    Done([s EXCEPT !.processing[j] = None,
                   !.beats = @ \ {j}, !.old = @ \ {j}])

InsertToProcessed(s, j) ==
    IF j \in s.processed THEN Conflict(s)
                         ELSE Done([s EXCEPT !.processed = @ \cup {j}])

InsertToFailed(s, j, rc) ==
    IF s.failed[j] # None THEN Conflict(s)
                          ELSE Done([s EXCEPT !.failed[j] = rc])

\* DELETE ... RETURNING.
ClaimFailed(s, j) ==
    IF s.failed[j] = None
    THEN NoRow(s)
    ELSE Row([s EXCEPT !.failed[j] = None], s.failed[j])

Call(method, s, j, rc) ==
    CASE method = "InsertToScheduled"    -> InsertToScheduled(s, j)
      [] method = "DeleteFromScheduled"  -> DeleteFromScheduled(s, j)
      [] method = "InsertToQueue"        -> InsertToQueue(s, j, rc)
      [] method = "DeleteFromQueue"      -> DeleteFromQueue(s, j)
      [] method = "InsertToProcessing"   -> InsertToProcessing(s, j, rc)
      [] method = "EmitHeartbeat"        -> EmitHeartbeat(s, j)
      [] method = "DeleteFromProcessing" -> DeleteFromProcessing(s, j)
      [] method = "InsertToProcessed"    -> InsertToProcessed(s, j)
      [] method = "InsertToFailed"       -> InsertToFailed(s, j, rc)
      [] method = "ClaimFailed"          -> ClaimFailed(s, j)

-----------------------------------------------------------------------------
(* Connections, the write lock and Transact. *)

Available == Cardinality(open) + lost < MaxConns

\* Exec outside a transaction, answered, or given up after the busy timeout.
Exec(answer) ==
    /\ Available
    /\ \/ holder = None /\ db' = answer.state
       \/ holder # None /\ UNCHANGED db
    /\ UNCHANGED <<holder, work, open, lost>>

\* Query outside a transaction; its rows are closed before it returns.
Query ==
    /\ Available
    /\ UNCHANGED <<db, holder, work, open, lost>>

\* getByLastHeartbeatBefore when a row does not scan: it returns without
\* closing its rows, and their connection stays in use.
ScanFails ==
    /\ Available
    /\ lost' = lost + 1
    /\ UNCHANGED <<db, holder, work, open>>

Begin(c) ==
    /\ Available
    /\ c \notin open
    /\ open' = open \cup {c}
    /\ UNCHANGED <<db, holder, work, lost>>

\* What a statement of c's transaction works on.
Seen(c) == IF holder = c THEN work ELSE db

Statement(c, answer) ==
    /\ c \in open
    /\ holder \in {None, c}
    /\ holder' = c
    /\ work' = answer.state
    /\ UNCHANGED <<db, open, lost>>

\* SQLITE_BUSY for a first statement, or any error of the database.
StatementFails(c) ==
    /\ c \in open
    /\ holder \notin {None, c} \/ "rollback" \in Faults
    /\ UNCHANGED <<db, holder, work, open, lost>>

Release(c) ==
    /\ holder' = IF holder = c THEN None ELSE holder
    /\ work' = IF holder = c THEN None ELSE work
    /\ open' = open \ {c}
    /\ UNCHANGED lost

Commit(c, outcome) ==
    /\ c \in open /\ holder = c
    /\ outcome \in {"commit"} \cup Faults
    /\ db' = IF outcome = "rollback" THEN db ELSE work
    /\ Release(c)

\* Mutant: a failed transaction is left open.
RollbackForgotten(c) ==
    /\ c \in open
    /\ UNCHANGED <<db, holder, work, open, lost>>

Rollback(c) ==
    /\ c \in open
    /\ UNCHANGED db
    /\ Release(c)

=============================================================================
