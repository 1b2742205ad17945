------------------------------ MODULE Adapters ------------------------------
(***************************************************************************)
(* The goroutines of one process calling its storage adapter, statement by *)
(* statement: pool slots that dequeue and run jobs, sweepers (the batches  *)
(* of process.go and the retry handler of server.go, one transaction at a  *)
(* time), the heartbeat emitter inside AtomicMap.Each, and Enqueue.  The   *)
(* adapter is the one the program chose, the in-memory or the SQL one.     *)
(***************************************************************************)
EXTENDS Naturals, FiniteSets

CONSTANTS
    Jobs,      \* job IDs
    Slots,     \* slots of the worker pool
    Sweepers,  \* other callers of Transact
    MaxRetry,  \* DefaultMaxRetryCount
    MaxConns,  \* sql.DB.SetMaxOpenConns
    Faults,    \* how a transaction on the SQL adapter may go wrong
    None       \* nothing

ASSUME ClientAssumption == Slots \cap Sweepers = {}
ASSUME RetryAssumption  == MaxRetry \in Nat
ASSUME ConnAssumption   == MaxConns \in Nat \ {0}
ASSUME FaultAssumption  == Faults \subseteq {"rollback", "lostAck"}
ASSUME NoneAssumption   == None \notin Jobs \cup Slots \cup Sweepers \cup Nat

VARIABLES
    kind,     \* the adapter: "memory" or "sql"
    db,       \* what a reader of the storage sees
    holder,   \* who holds the mutex, or the write lock of the database
    work,     \* what its transaction has written
    open,     \* SQL transactions begun
    lost,     \* SQL connections never given back
    fresh,    \* job IDs not yet handed out
    client,   \* what each goroutine is doing
    known,    \* Processor.processingJobs
    beating   \* the jobs Each has still to call back for

vars == <<kind, db, holder, work, open, lost, fresh, client, known, beating>>

Memory == INSTANCE MemoryStore
Sql    == INSTANCE SqlStore

Clients     == Slots \cup Sweepers
RetryCounts == 0 .. MaxRetry
Rows        == [Jobs -> RetryCounts \cup {None}]
State       == [scheduled : SUBSET Jobs, enqueued : Rows, processing : Rows,
                beats : SUBSET Jobs, old : SUBSET Jobs,
                processed : SUBSET Jobs, failed : Rows]

ASSUME NoStateAssumption == None \notin State

Operations    == {"dequeue", "complete", "fail", "orphan", "retry",
                  "webRetry", "move"}
InTransaction == {"open", "half", "full", "broken"}

Idle   == [pc |-> "idle", op |-> None, job |-> None, rc |-> None]
Client == [pc : {"call", "taken", "running", "leaving"} \cup InTransaction,
           op : Operations \cup {None}, job : Jobs \cup {None},
           rc : RetryCounts \cup {None}]

NoRow      == [j \in Jobs |-> None]
EmptyState == [scheduled |-> {}, enqueued |-> NoRow, processing |-> NoRow,
               beats |-> {}, old |-> {}, processed |-> {}, failed |-> NoRow]

Init ==
    /\ kind \in {"memory", "sql"}
    /\ db = EmptyState
    /\ holder = None
    /\ work = None
    /\ open = {}
    /\ lost = 0
    /\ fresh = Jobs
    /\ client = [c \in Clients |-> Idle]
    /\ known = {}
    /\ beating = {}

-----------------------------------------------------------------------------
(* The adapter: one of two implementations of each call. *)

Call(method, s, j, rc) ==
    IF kind = "memory" THEN Memory!Call(method, s, j, rc)
                       ELSE Sql!Call(method, s, j, rc)

\* A write and a read outside any transaction.
Write(method, j, rc) ==
    LET answer == Call(method, db, j, rc)
    IN IF kind = "memory"
       THEN Memory!Locked(answer) /\ UNCHANGED <<open, lost>>
       ELSE Sql!Exec(answer)

Read ==
    IF kind = "memory"
    THEN holder = None /\ UNCHANGED <<db, holder, work, open, lost>>
    ELSE Sql!Query

Begin(c) ==
    IF kind = "memory" THEN Memory!Begin(c) /\ UNCHANGED <<open, lost>>
                       ELSE Sql!Begin(c)

Seen(c) == IF kind = "memory" THEN work ELSE Sql!Seen(c)

Statement(c, answer) ==
    IF kind = "memory"
    THEN Memory!Statement(c, answer) /\ UNCHANGED <<open, lost>>
    ELSE Sql!Statement(c, answer)

Commit(c, outcome) ==
    IF kind = "memory"
    THEN outcome = "commit" /\ Memory!Commit(c) /\ UNCHANGED <<open, lost>>
    ELSE Sql!Commit(c, outcome)

Abort(c) ==
    IF kind = "memory" THEN Memory!Abort(c) /\ UNCHANGED <<open, lost>>
                       ELSE Sql!Rollback(c)

Orphans == IF kind = "memory" THEN Memory!GetByLastHeartbeatBefore(db)
                              ELSE Sql!GetByLastHeartbeatBefore(db)

-----------------------------------------------------------------------------
(* What the functions given to Transact do: at most two statements. *)

FirstMethod(op) ==
    CASE op = "dequeue"              -> "DeleteFromQueue"
      [] op = "complete"             -> "InsertToProcessed"
      [] op \in {"fail", "orphan"}   -> "DeleteFromProcessing"
      [] op \in {"retry", "webRetry"} -> "ClaimFailed"
      [] op = "move"                 -> "DeleteFromScheduled"

SecondMethod(op) ==
    CASE op = "dequeue"              -> "InsertToProcessing"
      [] op = "complete"             -> "DeleteFromProcessing"
      [] op \in {"fail", "orphan"}   -> "InsertToFailed"
      [] op \in {"retry", "webRetry", "move"} -> "InsertToQueue"

\* The retry count the second statement writes.
SecondCount(op, rc) ==
    CASE op \in {"fail", "orphan"} -> rc + 1
      [] op = "move"               -> 0
      [] OTHER                     -> rc

\* f returns nil, an error, or goes on.
AfterFirst(op, rc, result) ==
    CASE result = "exists" -> "broken"
      [] result = "none"   -> IF op = "webRetry" THEN "broken" ELSE "full"
      [] result = "ok"     -> IF op \in {"fail", "orphan"} /\ rc + 1 > MaxRetry
                              THEN "full"
                              ELSE "half"

\* The retrier commits its claim beside a copy already queued.
AfterSecond(op, result) ==
    IF result = "exists" /\ op # "retry" THEN "broken" ELSE "full"

\* The job a first statement is about; dequeue learns it from the queue.
Candidates(c) ==
    LET queued == { j \in Jobs : Seen(c).enqueued[j] # None }
    IN IF client[c].op # "dequeue" THEN {client[c].job}
       ELSE IF queued = {} THEN {None}
       ELSE queued

-----------------------------------------------------------------------------
(* A call of Transact. *)

BeginTx(c) ==
    /\ client[c].pc = "call"
    /\ Begin(c)
    /\ client' = [client EXCEPT ![c].pc = "open"]
    /\ UNCHANGED <<kind, fresh, known, beating>>

First(c) ==
    /\ client[c].pc = "open"
    /\ \E j \in Candidates(c) :
          LET me     == client[c]
              answer == Call(FirstMethod(me.op), Seen(c), j, me.rc)
              rc     == IF answer.rc = None THEN me.rc ELSE answer.rc
          IN /\ Statement(c, answer)
             /\ client' = [client EXCEPT ![c] =
                             [me EXCEPT !.pc = AfterFirst(me.op, rc,
                                                          answer.result),
                                        !.job = j, !.rc = rc]]
    /\ UNCHANGED <<kind, fresh, known, beating>>

Second(c) ==
    /\ client[c].pc = "half"
    /\ LET me     == client[c]
           answer == Call(SecondMethod(me.op), Seen(c), me.job,
                          SecondCount(me.op, me.rc))
       IN /\ Statement(c, answer)
          /\ client' = [client EXCEPT ![c].pc = AfterSecond(me.op,
                                                            answer.result)]
    /\ UNCHANGED <<kind, fresh, known, beating>>

StatementFails(c) ==
    /\ kind = "sql"
    /\ client[c].pc \in {"open", "half"}
    /\ Sql!StatementFails(c)
    /\ client' = [client EXCEPT ![c].pc = "broken"]
    /\ UNCHANGED <<kind, fresh, known, beating>>

\* Where a caller goes on when Transact returned: a slot whose dequeue found
\* a job runs it, one whose complete failed calls fail, whose error it logs.
Returned(me, ok) ==
    LET goesOn == [me EXCEPT !.op = None,
                             !.pc = IF me.op = "dequeue" THEN "taken"
                                                         ELSE "leaving",
                             !.rc = IF me.op = "dequeue" THEN @ ELSE None]
    IN CASE me.op = "dequeue" -> IF ok /\ me.job # None THEN goesOn ELSE Idle
         [] me.op = "complete" ->
               IF ok THEN goesOn ELSE [me EXCEPT !.pc = "call", !.op = "fail"]
         [] me.op = "fail" -> goesOn
         [] OTHER -> Idle

CommitTx(c) ==
    /\ client[c].pc = "full"
    /\ \E outcome \in {"commit"} \cup Faults :
          /\ Commit(c, outcome)
          /\ client' = [client EXCEPT ![c] = Returned(@, outcome = "commit")]
    /\ UNCHANGED <<kind, fresh, known, beating>>

AbortTx(c) ==
    /\ client[c].pc = "broken"
    /\ Abort(c)
    /\ client' = [client EXCEPT ![c] = Returned(@, FALSE)]
    /\ UNCHANGED <<kind, fresh, known, beating>>

TxStep(c) ==
    BeginTx(c) \/ First(c) \/ Second(c) \/ StatementFails(c)
    \/ CommitTx(c) \/ AbortTx(c)

-----------------------------------------------------------------------------
(* Slots.  Set and Delete need processingJobs for themselves. *)

Poll(w) ==
    /\ client[w].pc = "idle"
    /\ client' = [client EXCEPT ![w].pc = "call", ![w].op = "dequeue"]
    /\ UNCHANGED <<kind, db, holder, work, open, lost, fresh, known, beating>>

Set(w) ==
    /\ client[w].pc = "taken"
    /\ beating = {}
    /\ known' = known \cup {client[w].job}
    /\ client' = [client EXCEPT ![w].pc = "running"]
    /\ UNCHANGED <<kind, db, holder, work, open, lost, fresh, beating>>

HandlerReturns(w) ==
    /\ client[w].pc = "running"
    /\ \E op \in {"complete", "fail"} :
          client' = [client EXCEPT ![w].pc = "call", ![w].op = op]
    /\ UNCHANGED <<kind, db, holder, work, open, lost, fresh, known, beating>>

Delete(w) ==
    /\ client[w].pc = "leaving"
    /\ beating = {}
    /\ known' = known \ {client[w].job}
    /\ client' = [client EXCEPT ![w] = Idle]
    /\ UNCHANGED <<kind, db, holder, work, open, lost, fresh, beating>>

SlotStep(w) == Set(w) \/ HandlerReturns(w) \/ Delete(w)

-----------------------------------------------------------------------------
(* Sweepers, the emitter, Enqueue and the clock. *)

\* A row of a batch's snapshot, or the ID of a request.
Sweep(c, op, j, rc) ==
    /\ client[c].pc = "idle"
    /\ client' = [client EXCEPT ![c] = [pc |-> "call", op |-> op, job |-> j,
                                        rc |-> rc]]
    /\ UNCHANGED <<kind, fresh, known, beating>>

SweepOrphan(c, j) == j \in Orphans /\ Sweep(c, "orphan", j, db.processing[j])
                                   /\ Read
SweepFailed(c, j) == db.failed[j] # None /\ Sweep(c, "retry", j, db.failed[j])
                                         /\ Read
SweepDue(c, j)    == j \in db.scheduled /\ Sweep(c, "move", j, None) /\ Read

\* webRetryMu lets one request in at a time.
WebRetry(c, j) == /\ \A d \in Sweepers : client[d].op # "webRetry"
                  /\ Sweep(c, "webRetry", j, None)
                  /\ UNCHANGED <<db, holder, work, open, lost>>

\* A row the orphan checker cannot scan: the error is logged, the
\* connection of its unclosed rows stays in use.
ScanFails ==
    /\ kind = "sql"
    /\ Orphans # {}
    /\ Sql!ScanFails
    /\ UNCHANGED <<kind, fresh, client, known, beating>>

\* Each takes the read lock and calls back for every job in the map.
EachBegins ==
    /\ beating = {}
    /\ known # {}
    /\ beating' = known
    /\ UNCHANGED <<kind, db, holder, work, open, lost, fresh, client, known>>

EmitHeartbeat(j) ==
    /\ j \in beating
    /\ Write("EmitHeartbeat", j, None)
    /\ beating' = beating \ {j}
    /\ UNCHANGED <<kind, fresh, client, known>>

Enqueue(j) ==
    /\ j \in fresh
    /\ \E method \in {"InsertToQueue", "InsertToScheduled"} :
          Write(method, j, 0)
    /\ fresh' = fresh \ {j}
    /\ UNCHANGED <<kind, client, known, beating>>

\* Nine seconds without a heartbeat; no transaction lasts that long.
TimePasses(j) ==
    /\ holder = None
    /\ j \in db.beats \ db.old
    /\ db' = [db EXCEPT !.old = @ \cup {j}]
    /\ UNCHANGED <<kind, holder, work, open, lost, fresh, client, known,
                   beating>>

SweepStep(c, j) == SweepOrphan(c, j) \/ SweepFailed(c, j) \/ SweepDue(c, j)
                   \/ WebRetry(c, j)

Next ==
    \/ \E c \in Clients : TxStep(c)
    \/ \E w \in Slots : Poll(w) \/ SlotStep(w)
    \/ \E c \in Sweepers, j \in Jobs : SweepStep(c, j)
    \/ ScanFails
    \/ EachBegins
    \/ \E j \in Jobs : EmitHeartbeat(j) \/ Enqueue(j) \/ TimePasses(j)

Spec == Init /\ [][Next]_vars

\* Go's mutexes, the read-write lock of AtomicMap and the queue of sql.DB
\* serve those who wait in turn, so a goroutine that waits in a call goes on
\* when it may again and again; a statement that finds the database locked is
\* answered or gives up after its busy timeout; handlers return.
Fairness ==
    /\ \A w \in Slots : SF_vars(TxStep(w) \/ SlotStep(w))
    /\ \A c \in Sweepers : SF_vars(TxStep(c))
    /\ SF_vars(\E j \in Jobs : EmitHeartbeat(j))

FairSpec == Spec /\ Fairness

-----------------------------------------------------------------------------

TypeOK ==
    /\ kind \in {"memory", "sql"}
    /\ db \in State
    /\ holder \in Clients \cup {None}
    /\ work \in State \cup {None}
    /\ work = None <=> holder = None
    /\ open \subseteq { c \in Clients : client[c].pc \in InTransaction }
    /\ lost \in 0 .. MaxConns
    /\ fresh \subseteq Jobs
    /\ client \in [Clients -> {Idle} \cup Client]
    /\ known \subseteq Jobs
    /\ beating \subseteq known

\* Whatever the adapter, and however the statements of the callers mix, the
\* tables change only as whole transactions would change them: a failed
\* function leaves no trace (memory.go:83, sql.go:728), and a new try starts
\* with its own heartbeat, also where an earlier one left an entry behind
\* (memory.go:219).
Atomic == INSTANCE AtomicStore WITH
              HasClaimer <- TRUE,
              scheduled  <- db.scheduled,
              enqueued   <- db.enqueued,
              processing <- db.processing,
              stale      <- Orphans,
              processed  <- db.processed,
              failed     <- db.failed

FollowsAtomicStore == Atomic!AtomicSpec

\* A job in processing always has a heartbeat the orphan checker will find
\* too old one day: without an entry nobody would ever recover it.
RowsHaveBeats == \A j \in Jobs : db.processing[j] # None => j \in db.beats

\* While a connection is left, every call comes back: the mutex is released
\* and a transaction ended on every path (memory.go:76, sql.go:720), and the
\* emitter, which keeps processingJobs locked while it calls the storage
\* (process.go:244), never waits for a slot that waits for processingJobs.
CallsReturn ==
    [](lost < MaxConns) =>
        \A c \in Clients : client[c].pc # "idle" ~> client[c].pc = "idle"

=============================================================================
