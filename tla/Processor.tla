----------------------------- MODULE Processor -----------------------------
(***************************************************************************)
(* Operating-system processes that each run one xwork Processor            *)
(* (process.go) over the same storage: the pool that dequeues and runs     *)
(* jobs, the loops that move due scheduled jobs, retry failed jobs, emit   *)
(* heartbeats and recover orphans, graceful shutdown, crashes and          *)
(* restarts, and the retry button of the dashboard (server.go).            *)
(*                                                                         *)
(* A step ends where the code calls the storage or touches state another   *)
(* goroutine sees; a storage transaction is one step.                      *)
(***************************************************************************)
EXTENDS JobStore, FiniteSets

CONSTANTS
    Procs,     \* processes
    Slots,     \* slots of each process's worker pool (Concurrency)
    Listens,   \* the queues each process listens to
    Timely,    \* TRUE: clock events respect the margins named below
    Features   \* which of "schedule", "web" and "signal" there are: jobs
               \* that go through the scheduled table, a dashboard, a shutdown

ASSUME ListenAssumption == Listens \in [Procs -> SUBSET Queues]
ASSUME TimelyAssumption == Timely \in BOOLEAN

Loops == {"scheduled", "failed", "orphans", "heartbeats"}

ASSUME LoopAssumption == Loops \cap Queues = {}

VARIABLES
    call,      \* what Enqueue returned to the caller of each job
    attempts,  \* dequeues of each job (history), saturating at AttemptCap
    proc,      \* phase of each process
    loops,     \* the loops (and pollers, by queue) of each process alive
    worker,    \* what each pool slot of each process is doing
    inMemory,  \* Processor.processingJobs: job IDs with a heartbeat
    mover,     \* enqueueReadyScheduledJobs: rest of the batch
    retrier,   \* enqueueReadyFailedJobs: rest of the batch
    checker    \* checkForOrphanedJobs: rest of the batch

procVars == <<call, attempts, proc, loops, worker, inMemory, mover, retrier,
              checker>>
vars     == <<storeVars, procVars>>

AttemptCap == MaxRetry + 2
Phases     == {"down", "up", "quitting", "draining", "stopped"}

\* The steps of a slot between its dequeue and the outcome of its job.
Executing == {"taken", "running", "completing", "failing"}

\* A slot is free, about to dequeue from a queue, or holds a job and the
\* retry count it dequeued it with.
Idle    == [pc |-> "idle", queue |-> None, job |-> None, rc |-> None]
Polling == [pc : {"polling"}, queue : Queues, job : {None}, rc : {None}]
Holding == [pc : Executing \cup {"leaving"}, queue : {None}, job : Jobs,
            rc : RetryCounts]

TypeOK ==
    /\ StoreTypeOK
    /\ call \in [Jobs -> {"none", "ok", "error"}]
    /\ attempts \in [Jobs -> 0 .. AttemptCap]
    /\ proc \in [Procs -> Phases]
    /\ loops \in [Procs -> SUBSET (Loops \cup Queues)]
    /\ worker \in [Procs -> [Slots -> {Idle} \cup Polling \cup Holding]]
    /\ inMemory \in [Procs -> SUBSET Jobs]
    /\ mover \in [Procs -> SUBSET Jobs]
    /\ retrier \in [Procs -> SUBSET QueueRow]
    /\ checker \in [Procs -> SUBSET QueueRow]

Init ==
    /\ StoreInit
    /\ call = [j \in Jobs |-> "none"]
    /\ attempts = [j \in Jobs |-> 0]
    /\ proc = [p \in Procs |-> "down"]
    /\ loops = [p \in Procs |-> {}]
    /\ worker = [p \in Procs |-> [w \in Slots |-> Idle]]
    /\ inMemory = [p \in Procs |-> {}]
    /\ mover = [p \in Procs |-> {}]
    /\ retrier = [p \in Procs |-> {}]
    /\ checker = [p \in Procs |-> {}]

-----------------------------------------------------------------------------
(* Enqueueing: EnqueueAt takes a fresh ID; a time already past goes        *)
(* straight to the queue, any other to the scheduled table.                *)

EnqueueNow(j) ==
    /\ call[j] = "none"
    /\ \E outcome \in Transact(FALSE) :
          /\ IF Applied(outcome) THEN InsertToQueue(j, 0) ELSE UNCHANGED queue
          /\ call' = [call EXCEPT ![j] =
                         IF Erroneous(outcome) THEN "error" ELSE "ok"]
    /\ UNCHANGED <<scheduled, due, processing, stale, processed, failed,
                   retryDue, discarded, attempts, proc, loops, worker,
                   inMemory, mover, retrier, checker>>

\* The time has not passed when enqueue looks, by EnqueueIn or EnqueueAt; also
\* Enqueue's own, when the clock has not moved since (Before is strict).
EnqueueLater(j) ==
    /\ "schedule" \in Features
    /\ call[j] = "none"
    /\ \E outcome \in Transact(FALSE) :
          /\ IF Applied(outcome) THEN InsertToScheduled(j)
                                 ELSE UNCHANGED <<scheduled, due>>
          /\ call' = [call EXCEPT ![j] =
                         IF Erroneous(outcome) THEN "error" ELSE "ok"]
    /\ UNCHANGED <<queue, processing, stale, processed, failed, retryDue,
                   discarded, attempts, proc, loops, worker, inMemory, mover,
                   retrier, checker>>

-----------------------------------------------------------------------------
(* The worker pool.  A tick of the poller of queue q submits a closure if  *)
(* the pool is open and a slot is free; the closure dequeues and runs.     *)

PoolOpen(p) == proc[p] \in {"up", "quitting"}

Submit(p, w, q) ==
    /\ q \in loops[p] \cap Queues
    /\ PoolOpen(p)
    /\ worker[p][w].pc = "idle"
    /\ worker' = [worker EXCEPT ![p][w] = [Idle EXCEPT !.pc = "polling",
                                                       !.queue = q]]
    /\ UNCHANGED <<storeVars, call, attempts, proc, loops, inMemory, mover,
                   retrier, checker>>

PollEmpty(p, w) ==
    /\ worker[p][w].pc = "polling"
    /\ Oldest(worker[p][w].queue) = {}
    /\ worker' = [worker EXCEPT ![p][w] = Idle]
    /\ UNCHANGED <<storeVars, call, attempts, proc, loops, inMemory, mover,
                   retrier, checker>>

Dequeue(p, w) ==
    /\ worker[p][w].pc = "polling"
    /\ \E i \in Oldest(worker[p][w].queue) :
          LET j  == queue[i].job
              rc == queue[i].rc
          IN \E outcome \in Transact(Processing(j)) :
                /\ IF Applied(outcome)
                   THEN /\ DeleteFromQueue(i)
                        /\ InsertToProcessing(j, rc)
                        /\ attempts' = [attempts EXCEPT ![j] =
                                          IF @ = AttemptCap THEN @ ELSE @ + 1]
                   ELSE UNCHANGED <<queue, processing, stale, attempts>>
                /\ worker' = [worker EXCEPT ![p][w] =
                                IF Erroneous(outcome)
                                THEN Idle
                                ELSE [Idle EXCEPT !.pc = "taken", !.job = j,
                                                  !.rc = rc]]
    /\ UNCHANGED <<scheduled, due, processed, failed, retryDue, discarded,
                   call, proc, loops, inMemory, mover, retrier, checker>>

\* Mutant: without the entry in processingJobs.
StartJobUnlisted(p, w) ==
    /\ worker[p][w].pc = "taken"
    /\ worker' = [worker EXCEPT ![p][w].pc = "running"]
    /\ UNCHANGED <<storeVars, call, attempts, proc, loops, inMemory, mover,
                   retrier, checker>>

\* processJob enters the job into processingJobs and calls its handler.
StartJob(p, w) ==
    /\ worker[p][w].pc = "taken"
    /\ inMemory' = [inMemory EXCEPT ![p] = @ \cup {worker[p][w].job}]
    /\ worker' = [worker EXCEPT ![p][w].pc = "running"]
    /\ UNCHANGED <<storeVars, call, attempts, proc, loops, mover, retrier,
                   checker>>

\* The handler returns nil ("completing"), or an error or a panic
\* ("failing"; a job without a definition panics).
HandlerReturns(p, w) ==
    /\ worker[p][w].pc = "running"
    /\ \E pc \in {"completing", "failing"} :
          worker' = [worker EXCEPT ![p][w].pc = pc]
    /\ UNCHANGED <<storeVars, call, attempts, proc, loops, inMemory, mover,
                   retrier, checker>>

\* complete: a processed row with this ID already there aborts it, and any
\* error sends the job on to fail.
Complete(p, w) ==
    /\ worker[p][w].pc = "completing"
    /\ LET j == worker[p][w].job
       IN \E outcome \in Transact(j \in processed) :
             /\ IF Applied(outcome)
                THEN InsertToProcessed(j) /\ DeleteFromProcessing(j)
                ELSE UNCHANGED <<processed, processing, stale>>
             /\ worker' = [worker EXCEPT ![p][w].pc =
                             IF Erroneous(outcome) THEN "failing"
                                                   ELSE "leaving"]
    /\ UNCHANGED <<scheduled, due, queue, failed, retryDue, discarded, call,
                   attempts, proc, loops, inMemory, mover, retrier, checker>>

\* Mutants: one try too many, one too few.
LastTryLate(rc)  == rc > MaxRetry
LastTryEarly(rc) == rc + 1 >= MaxRetry

LastTry(rc) == rc + 1 > MaxRetry

\* Mutant: the processing row stays.
FailTxKeepsRow(j, rc) ==
    /\ IF LastTry(rc)
       THEN discarded' = discarded \cup {j} /\ UNCHANGED <<failed, retryDue>>
       ELSE InsertToFailed(j, rc + 1) /\ UNCHANGED discarded
    /\ UNCHANGED <<processing, stale>>

\* failWithStack: the transaction on a job the caller holds with retry
\* count rc, and when a failed row with this ID aborts it.
FailTx(j, rc) ==
    /\ DeleteFromProcessing(j)
    /\ IF LastTry(rc)
       THEN discarded' = discarded \cup {j} /\ UNCHANGED <<failed, retryDue>>
       ELSE InsertToFailed(j, rc + 1) /\ UNCHANGED discarded

FailConflict(j, rc) == ~LastTry(rc) /\ Failed(j)

\* An error of fail is only logged: the slot is done with the job.
Fail(p, w) ==
    /\ worker[p][w].pc = "failing"
    /\ LET j  == worker[p][w].job
           rc == worker[p][w].rc
       IN \E outcome \in Transact(FailConflict(j, rc)) :
             IF Applied(outcome)
             THEN FailTx(j, rc)
             ELSE UNCHANGED <<processing, stale, failed, retryDue, discarded>>
    /\ worker' = [worker EXCEPT ![p][w].pc = "leaving"]
    /\ UNCHANGED <<scheduled, due, queue, processed, call, attempts, proc,
                   loops, inMemory, mover, retrier, checker>>

\* The deferred processingJobs.Delete, by ID.
Leave(p, w) ==
    /\ worker[p][w].pc = "leaving"
    /\ inMemory' = [inMemory EXCEPT ![p] = @ \ {worker[p][w].job}]
    /\ worker' = [worker EXCEPT ![p][w] = Idle]
    /\ UNCHANGED <<storeVars, call, attempts, proc, loops, mover, retrier,
                   checker>>

-----------------------------------------------------------------------------
(* Due scheduled jobs.  A tick reads the due rows; each is moved by a      *)
(* transaction of its own, and the first error ends the batch.             *)

NextFromScheduled(p) ==
    /\ "scheduled" \in loops[p]
    /\ mover[p] = {}
    /\ due # {}
    /\ mover' = [mover EXCEPT ![p] = due]
    /\ UNCHANGED <<storeVars, call, attempts, proc, loops, worker, inMemory,
                   retrier, checker>>

EnqueueScheduled(p, j) ==
    /\ j \in mover[p]
    /\ \E outcome \in Transact(Queued(j)) :
          /\ IF Applied(outcome)
             THEN DeleteFromScheduled(j) /\ InsertToQueue(j, 0)
             ELSE UNCHANGED <<scheduled, due, queue>>
          /\ mover' = [mover EXCEPT ![p] =
                         IF Erroneous(outcome) THEN {} ELSE @ \ {j}]
    /\ UNCHANGED <<processing, stale, processed, failed, retryDue, discarded,
                   call, attempts, proc, loops, worker, inMemory, retrier,
                   checker>>

-----------------------------------------------------------------------------
(* Failed jobs whose backoff has elapsed. *)

NextFromFailed(p) ==
    /\ "failed" \in loops[p]
    /\ retrier[p] = {}
    /\ RetryRows # {}
    /\ retrier' = [retrier EXCEPT ![p] = RetryRows]
    /\ UNCHANGED <<storeVars, call, attempts, proc, loops, worker, inMemory,
                   mover, checker>>

\* Mutants: the test for a queued copy is inverted, is missing, or the retry
\* count is not carried over.
RetryTxInverted(row) ==
    IF HasClaimer /\ ~Failed(row.job)
    THEN UNCHANGED <<failed, retryDue, queue>>
    ELSE /\ DeleteFromFailed(row.job)
         /\ IF Queued(row.job)
            THEN InsertToQueue(row.job, row.rc)
            ELSE UNCHANGED queue

RetryTxUntested(row) ==
    IF HasClaimer /\ ~Failed(row.job)
    THEN UNCHANGED <<failed, retryDue, queue>>
    ELSE DeleteFromFailed(row.job) /\ InsertToQueue(row.job, row.rc)

RetryTxForgetsCount(row) ==
    IF HasClaimer /\ ~Failed(row.job)
    THEN UNCHANGED <<failed, retryDue, queue>>
    ELSE /\ DeleteFromFailed(row.job)
         /\ IF Queued(row.job) THEN UNCHANGED queue
                               ELSE InsertToQueue(row.job, 0)

\* retry: with a FailedJobClaimer the row is claimed and its own content
\* enqueued; a legacy adapter deletes by ID and enqueues the snapshot.  A
\* copy already queued is kept and the claim committed.
RetryTx(row) ==
    IF HasClaimer /\ ~Failed(row.job)
    THEN UNCHANGED <<failed, retryDue, queue>>
    ELSE /\ DeleteFromFailed(row.job)
         /\ IF Queued(row.job)
            THEN UNCHANGED queue
            ELSE InsertToQueue(row.job,
                               IF HasClaimer THEN failed[row.job] ELSE row.rc)

Retry(p, row) ==
    /\ row \in retrier[p]
    /\ \E outcome \in Transact(FALSE) :
          /\ IF Applied(outcome) THEN RetryTx(row)
                                 ELSE UNCHANGED <<failed, retryDue, queue>>
          /\ retrier' = [retrier EXCEPT ![p] =
                           IF Erroneous(outcome) THEN {} ELSE @ \ {row}]
    /\ UNCHANGED <<scheduled, due, processing, stale, processed, discarded,
                   call, attempts, proc, loops, worker, inMemory, mover,
                   checker>>

\* The dashboard's POST /api/jobs/failed/{id}/retry (server.go
\* retryFailedJob): no backoff, and a queued copy aborts it.
WebRetry(j) ==
    /\ "web" \in Features /\ HasClaimer
    /\ Failed(j)
    /\ \E outcome \in Transact(Queued(j)) :
          IF Applied(outcome)
          THEN DeleteFromFailed(j) /\ InsertToQueue(j, failed[j])
          ELSE UNCHANGED <<failed, retryDue, queue>>
    /\ UNCHANGED <<scheduled, due, processing, stale, processed, discarded,
                   procVars>>

-----------------------------------------------------------------------------
(* Heartbeats and orphans. *)

Heartbeat(p, j) ==
    /\ "heartbeats" \in loops[p]
    /\ j \in inMemory[p] \cap stale
    /\ EmitHeartbeat(j)
    /\ UNCHANGED <<scheduled, due, queue, processing, processed, failed,
                   retryDue, discarded, procVars>>

GetOrphans(p) ==
    /\ "orphans" \in loops[p]
    /\ checker[p] = {}
    /\ StaleRows # {}
    /\ checker' = [checker EXCEPT ![p] = StaleRows]
    /\ UNCHANGED <<storeVars, call, attempts, proc, loops, worker, inMemory,
                   mover, retrier>>

\* The first error of fail returns from the loop's goroutine.
FailOrphan(p, row) ==
    /\ row \in checker[p]
    /\ \E outcome \in Transact(FailConflict(row.job, row.rc)) :
          /\ IF Applied(outcome)
             THEN FailTx(row.job, row.rc)
             ELSE UNCHANGED <<processing, stale, failed, retryDue, discarded>>
          /\ checker' = [checker EXCEPT ![p] =
                           IF Erroneous(outcome) THEN {} ELSE @ \ {row}]
          /\ loops' = [loops EXCEPT ![p] =
                         IF Erroneous(outcome) THEN @ \ {"orphans"} ELSE @]
    /\ UNCHANGED <<scheduled, due, queue, processed, call, attempts, proc,
                   worker, inMemory, mover, retrier>>

-----------------------------------------------------------------------------
(* The life of a process. *)

\* Process starts the pool and every loop.
Start(p) ==
    /\ proc[p] = "down"
    /\ proc' = [proc EXCEPT ![p] = "up"]
    /\ loops' = [loops EXCEPT ![p] = Loops \cup Listens[p]]
    /\ UNCHANGED <<storeVars, call, attempts, worker, inMemory, mover,
                   retrier, checker>>

\* Shutdown, once: close(quit); then the pool stops accepting and waits;
\* then the wait ends, all slots idle or the kill timeout over.
Advance(p, from, to) ==
    /\ proc[p] = from
    /\ proc' = [proc EXCEPT ![p] = to]
    /\ UNCHANGED <<storeVars, call, attempts, loops, worker, inMemory, mover,
                   retrier, checker>>

CloseQuit(p)    == "signal" \in Features /\ Advance(p, "up", "quitting")
StopPool(p)     == Advance(p, "quitting", "draining")
WaitReturns(p)  == Advance(p, "draining", "stopped")

\* Mutant: one goroutine too few hears of the shutdown.
BatchDoneButBeats(p, l) == l # "heartbeats"

\* A loop sees the closed channel only between two batches; a poller has none.
BatchDone(p, l) ==
    /\ l = "scheduled" => mover[p] = {}
    /\ l = "failed"    => retrier[p] = {}
    /\ l = "orphans"   => checker[p] = {}

LoopExits(p, l) ==
    /\ l \in loops[p]
    /\ proc[p] \in {"quitting", "draining", "stopped"}
    /\ BatchDone(p, l)
    /\ loops' = [loops EXCEPT ![p] = @ \ {l}]
    /\ UNCHANGED <<storeVars, call, attempts, proc, worker, inMemory, mover,
                   retrier, checker>>

\* A crash, or main returning after Process: all that is in memory is gone.
Exit(p) ==
    /\ proc[p] # "down"
    /\ proc' = [proc EXCEPT ![p] = "down"]
    /\ loops' = [loops EXCEPT ![p] = {}]
    /\ worker' = [worker EXCEPT ![p] = [w \in Slots |-> Idle]]
    /\ inMemory' = [inMemory EXCEPT ![p] = {}]
    /\ mover' = [mover EXCEPT ![p] = {}]
    /\ retrier' = [retrier EXCEPT ![p] = {}]
    /\ checker' = [checker EXCEPT ![p] = {}]
    /\ UNCHANGED <<storeVars, call, attempts>>

-----------------------------------------------------------------------------
(* The clock.  With Timely, neither nine seconds without a heartbeat nor   *)
(* a backoff, one minute at the least, passes                              *)
(*  - for a job some process beats for, or did until a shutdown whose      *)
(*    loops have not ended yet, which takes them 10 ms;                    *)
(*  - for a job in hand: its slot is between fail and the deferred Delete, *)
(*    or a retry or orphan batch that names it is not worked off.          *)

Holds(p, j) == \/ j \in inMemory[p]
               \/ \E w \in Slots : /\ worker[p][w].pc = "taken"
                                   /\ worker[p][w].job = j

Beating(j) == \E p \in Procs : /\ Holds(p, j)
                               /\ loops[p] \cap {"heartbeats", "orphans"} # {}

InHand(j) == \E p \in Procs :
                \/ \E w \in Slots : /\ worker[p][w].pc = "leaving"
                                    /\ worker[p][w].job = j
                \/ \E row \in checker[p] \cup retrier[p] : row.job = j

NineSecondsPass(j) ==
    /\ Timely => ~Beating(j) /\ ~InHand(j)
    /\ HeartbeatExpires(j)
    /\ UNCHANGED procVars

RetryTimePasses(j) ==
    /\ Timely => ~InHand(j)
    /\ BackoffElapses(j)
    /\ UNCHANGED procVars

EnqueueTimePasses(j) == ScheduleArrives(j) /\ UNCHANGED procVars

-----------------------------------------------------------------------------

JobStep(j) ==
    \/ EnqueueNow(j)
    \/ EnqueueLater(j)
    \/ WebRetry(j)
    \/ NineSecondsPass(j)
    \/ RetryTimePasses(j)
    \/ EnqueueTimePasses(j)

SlotStep(p, w) ==
    \/ \E q \in Queues : Submit(p, w, q)
    \/ PollEmpty(p, w)
    \/ Dequeue(p, w)
    \/ StartJob(p, w)
    \/ HandlerReturns(p, w)
    \/ Complete(p, w)
    \/ Fail(p, w)
    \/ Leave(p, w)

LoopStep(p) ==
    \/ NextFromScheduled(p)
    \/ \E j \in mover[p] : EnqueueScheduled(p, j)
    \/ NextFromFailed(p)
    \/ \E row \in retrier[p] : Retry(p, row)
    \/ \E j \in inMemory[p] : Heartbeat(p, j)
    \/ GetOrphans(p)
    \/ \E row \in checker[p] : FailOrphan(p, row)

ProcessStep(p) ==
    \/ Start(p)
    \/ CloseQuit(p)
    \/ StopPool(p)
    \/ WaitReturns(p)
    \/ \E l \in loops[p] : LoopExits(p, l)
    \/ Exit(p)

Next ==
    \/ \E j \in Jobs : JobStep(j)
    \/ \E p \in Procs, w \in Slots : SlotStep(p, w)
    \/ \E p \in Procs : LoopStep(p) \/ ProcessStep(p)

Spec == Init /\ [][Next]_vars

-----------------------------------------------------------------------------
(* Safety that no fault, delay, crash or interleaving breaks. *)

Stored(j) ==
    \/ j \in scheduled
    \/ Queued(j)
    \/ Processing(j)
    \/ j \in processed
    \/ Failed(j)
    \/ j \in discarded

\* A job whose Enqueue returned nil is in some table, or was dropped after
\* its last try (process.go:488): no move between tables loses it.
NoJobLost == \A j \in Jobs : call[j] = "ok" => Stored(j)

\* No job has two copies in the queue, whoever puts it there: the scheduled
\* mover, the retrier and the dashboard race for it (process.go:611).
QueuedOnce == \A i, k \in DOMAIN queue : queue[i].job = queue[k].job => i = k

\* The queue as a table: the count of its copy of a job, None without one.
QueuedCount == [j \in Jobs |-> IF Queued(j)
                               THEN queue[CHOOSE i \in DOMAIN queue :
                                             queue[i].job = j].rc
                               ELSE None]

Atomic == INSTANCE AtomicStore WITH enqueued <- QueuedCount

\* The processors do nothing to the tables that AtomicStore does not allow:
\* what they rely on is what the adapters provide (storage.go:23), whole
\* transactions, by ID, whoever else has moved the row in between.
FollowsAtomicStore == Atomic!AtomicSpec

-----------------------------------------------------------------------------
(* Safety of restricted deployments: timely clocks, commits whose answers  *)
(* arrive, and either one process, without dashboard retries if it has     *)
(* more than one slot, or several of one slot each in which no job goes    *)
(* through the scheduled table, that are not signalled and have no         *)
(* dashboard.  The documentation describes larger ones too (several        *)
(* processes of five slots, schedules and shutdowns), where they fail.     *)

Tables == {"scheduled", "enqueued", "processing", "processed", "failed",
           "discarded"}

In(j, table) ==
    CASE table = "scheduled"  -> j \in scheduled
      [] table = "enqueued"   -> Queued(j)
      [] table = "processing" -> Processing(j)
      [] table = "processed"  -> j \in processed
      [] table = "failed"     -> Failed(j)
      [] table = "discarded"  -> j \in discarded

\* A job is in at most one table: every move deletes where it inserts, also
\* when the row it deletes by ID was read in an earlier step.
OneTable == \A j \in Jobs : \A s, t \in Tables : In(j, s) /\ In(j, t) => s = t

Slot == Procs \X Slots

Executes(s, j) == /\ worker[s[1]][s[2]].pc \in Executing
                  /\ worker[s[1]][s[2]].job = j

\* No two slots, of one process or of two, execute one job at a time: orphan
\* recovery never fails a job that still runs (process.go:207).
SingleExecution ==
    \A j \in Jobs : \A s, t \in Slot : Executes(s, j) /\ Executes(t, j) => s = t

\* The slot that executes a job owns the job's processing row, with the
\* retry count it dequeued: complete and fail delete the row by ID only
\* (process.go:455, 483).
ExecutionOwnsRow ==
    \A s \in Slot, j \in Jobs :
        Executes(s, j) => processing[j] = worker[s[1]][s[2]].rc

\* The retry counts in the tables count the tries the job has had, through
\* every crash, orphan recovery and retry; so a job is discarded after
\* exactly MaxRetry + 1 tries (process.go:486-500, "a total of 20 tries").
RetryCountCountsTries ==
    \A j \in Jobs :
        /\ Processing(j) => processing[j] = attempts[j] - 1
        /\ Failed(j) => failed[j] = attempts[j]
        /\ j \in discarded => attempts[j] = MaxRetry + 1

\* A running job is in the map the heartbeat emitter walks, although the
\* deferred Delete of an earlier try of the same job goes by ID
\* (process.go:336): "Processing jobs emit heartbeats." (README.md).
RunningJobBeats ==
    \A s \in Slot, j \in Jobs :
        /\ Executes(s, j) /\ worker[s[1]][s[2]].pc # "taken"
        /\ "heartbeats" \in loops[s[1]]
        => j \in inMemory[s[1]]

\* A failed job goes back to its queue only after its backoff, although the
\* batch claims by ID what it read in an earlier step (process.go:586).
RetriesBackOff ==
    [][\A j \in Jobs : Failed(j) /\ ~Failed(j)' => j \in retryDue]_vars

State(j) ==
    IF \E t \in Tables : In(j, t)
    THEN CHOOSE t \in Tables : In(j, t)
    ELSE IF call[j] = "none" THEN "new" ELSE "refused"

Lifecycle == INSTANCE JobLifecycle WITH
                 state <- [j \in Jobs |-> State(j)],
                 tries <- attempts

\* The tables show every job following the life JobLifecycle specifies.
FollowsLifecycle == Lifecycle!LifecycleSpec

-----------------------------------------------------------------------------
(* Promises of the documentation that the code breaks: checked by runs     *)
(* that expect a violation.                                                *)

\* "On shutdown, xwork lets running jobs finish for the configured kill
\* timeout and requeues interrupted jobs." (README.md:63): a job that the
\* end of the process interrupts is in its queue.  requeue has no caller.
InterruptedJobsRequeued ==
    [][\A s \in Slot, j \in Jobs :
          Executes(s, j) /\ proc[s[1]] = "stopped" /\ proc'[s[1]] = "down"
          => Queued(j)']_vars

\* The same sentence's first half: while Shutdown waits, a running job stays
\* the process's own.  Heartbeats have stopped by then (process.go:251), and
\* the kill timeout is longer than nine seconds.
GracePeriodRespected ==
    \A s \in Slot, j \in Jobs :
        Executes(s, j) /\ proc[s[1]] \in {"quitting", "draining"}
        => Processing(j)

\* "Return nil when the job succeeds. Return an error to fail the attempt
\* and schedule a retry." (README.md:106): a job that succeeded is not among
\* the failed ones.
SucceededNotFailed == \A j \in processed : ~Failed(j)

-----------------------------------------------------------------------------
(* Liveness.  Go runs every goroutine and its tickers fire again and       *)
(* again; handlers return; time passes; somebody restarts a process that   *)
(* is down.  A poller's tick needs a free slot at that very moment, and a  *)
(* loop's select chooses at random between its ticker and quit, so both    *)
(* are only strongly fair; and so are the commits of what is tried again   *)
(* at every tick: a storage that fails now and then does not fail one of   *)
(* them for ever.  Nobody owes a signal, a crash, an exit, a click, or a   *)
(* commit to what is tried once.                                           *)

SlotProceeds(p, w) == SlotStep(p, w) /\ worker[p][w].pc # "idle"

\* The transactions the code tries again at the next tick, when they commit.
Dequeues(p, w, q) == worker[p][w].queue = q /\ Dequeue(p, w) /\ queue' # queue
Moves(p, j)       == EnqueueScheduled(p, j) /\ due' # due
Retries(p, j)     == \E row \in retrier[p] :
                        row.job = j /\ Retry(p, row) /\ failed' # failed

Fairness ==
    /\ \A p \in Procs :
          /\ \A w \in Slots : WF_vars(SlotProceeds(p, w))
          /\ \A q \in Queues : SF_vars(\E w \in Slots : Submit(p, w, q))
          /\ WF_vars(NextFromScheduled(p))
          /\ WF_vars(\E j \in mover[p] : EnqueueScheduled(p, j))
          /\ WF_vars(NextFromFailed(p))
          /\ WF_vars(\E row \in retrier[p] : Retry(p, row))
          /\ WF_vars(GetOrphans(p))
          /\ WF_vars(\E row \in checker[p] : FailOrphan(p, row))
          /\ \A j \in Jobs : WF_vars(Heartbeat(p, j))
          /\ \A q \in Queues : SF_vars(\E w \in Slots : Dequeues(p, w, q))
          /\ \A j \in Jobs : SF_vars(Moves(p, j)) /\ SF_vars(Retries(p, j))
          /\ \A l \in Loops \cup Queues : SF_vars(LoopExits(p, l))
          /\ WF_vars(Start(p) \/ StopPool(p) \/ WaitReturns(p))
    /\ \A j \in Jobs :
          /\ WF_vars(NineSecondsPass(j))
          /\ WF_vars(RetryTimePasses(j))
          /\ WF_vars(EnqueueTimePasses(j))

FairSpec == Spec /\ Fairness

StaysUp == <>[](\A p \in Procs : proc[p] = "up")

CheckersStay == <>[](\A p \in Procs : "orphans" \in loops[p])

\* Once the processes stay up, every job a caller was told is accepted is
\* processed or discarded in the end, whatever crashes, shutdowns and failed
\* tries came before, and whatever transactions fail on its way: a job whose
\* batch an error ended (process.go:630, 661), or whose row complete or fail
\* left in processing, does not stay behind while an orphan checker is left.
EveryJobSettles ==
    StaysUp /\ CheckersStay =>
        \A j \in Jobs : call[j] = "ok" ~> j \in processed \cup discarded

\* Closing quit ends every loop of the process, also when the process lives
\* on ("Closing broadcasts shutdown to every managed goroutine without
\* depending on an exact receiver count", process.go:180).
LoopsEnd == \A p \in Procs : proc[p] = "quitting" ~> loops[p] = {}

\* "If a worker disappears, stale processing jobs are treated as orphaned
\* failures and enter the retry flow." (README.md): broken once one
\* transaction of the orphan checker has failed.
OrphansRecovered == StaysUp => \A j \in Jobs : j \in stale ~> j \notin stale

=============================================================================
