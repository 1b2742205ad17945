# xwork in TLA+

A verification project for [xwork](../src/README.md), a Go library for
background jobs: a program defines jobs, enqueues them (now, later, at a time),
and a `Processor` runs them on a worker pool, retries the failed ones and
recovers the ones whose process died. The state that matters is in five tables
behind a `StorageAdapter`, shared by every process that runs a processor.

The modules below are translated from the source. Line numbers refer to it.

## The system

### Processor (`process.go`)

*State.* Per process: the pond worker pool, `processingJobs` (jobs in memory,
by ID), the `quit` channel, one goroutine per loop and per queue, and inside
each loop the batch it is working off.

*Operations.* `Enqueue`/`EnqueueIn`/`EnqueueAt` write one row. A poller per
queue offers a closure to the pool every 10 ms (`TrySubmit`); the closure
dequeues (queue to processing, one transaction) and `processJob` runs the
handler, then `complete` (processing to processed) or `fail` (processing to
failed, or dropped after the last try). Four loops: `enqueueScheduledJobs`
moves due scheduled jobs, `requeueFailedJobs` retries failed jobs whose backoff
has elapsed, `emitHeartbeats` refreshes the rows of jobs in memory, and
`checkForOrphanedJobs` fails processing jobs without a heartbeat for nine
seconds. `Shutdown` closes `quit`, stops the pool and waits at most the kill
timeout.

*Hard.* All moves between tables go by job ID, after a snapshot taken in an
earlier step; slots, loops and processes interleave between the two. Processes
crash with rows in processing. A commit may succeed and its answer be lost. The
orphan checker decides by a clock whether a job is dead.

*Correct when* an accepted job is never lost and never queued twice; in the
restricted deployments named below a job is in one table, runs in one slot, which owns its
processing row, beats while it runs, is retried after its backoff and exactly
`DefaultMaxRetryCount` times; every accepted job is settled in the end, and a
shutdown ends every goroutine.

### Storage contract (`storage.go`, `storage/errors.go`)

*State.* The tables scheduled, enqueued, processing, processed, failed.
*Operations.* `InsertTo...`, `DeleteFrom...`, `NextFrom...`, `EmitHeartbeat`,
`GetByLastHeartbeatBefore`, `ClaimFailed`, listing and counting, and
`Transact(f)`. *Hard.* `FailedJobClaimer` is optional: without it a retry
deletes by ID whether or not the row is there. *Correct when* a transaction is
all or nothing and an ID occurs once per table.

### Memory adapter (`storage/memory.go`)

*State.* Maps of rows and of heartbeats behind one mutex. *Operations.* Each
method locks; `Transact` clones the state, runs `f` on the clone and swaps it in
when `f` returns nil. *Hard.* The mutex is not reentrant; a heartbeat may be
written for a job whose row is gone; ties are resolved by map order. *Correct
when* transactions are atomic and a failed one leaves no trace.

### SQL adapter (`storage/sql.go`)

*State.* Five tables with primary keys, behind the pooled connections of
`sql.DB`. *Operations.* One statement each (`DeleteFromQueue` and `ClaimFailed`
are one `DELETE ... RETURNING`), and `Transact`, which begins, calls `f` with an
adapter on the transaction, and commits or rolls back. *Hard.* A commit whose
answer is lost, result sets that must be closed, connections that run out, a
database with one writer. *Correct when* it behaves as the memory adapter and
gives its connections back.

### Web API and dashboard server (`server.go`)

*Operations.* Lists jobs of a table by page, through the adapter's own query
(`JobQueryAdapter`) or by asking its plain lists for one row more, counts them,
and retries a failed job by hand.
*Hard.* Pages are read by offset while jobs move; a retry by hand races with
the retrier and with the running try. *Correct when* a retry moves exactly one
row and a page says truthfully whether more follow.

### Dashboard client (`static/index.js`)

*State.* Tab, filter, page, the number of the latest request, a queued refresh,
the retry dialogue. *Hard.* Answers out of order, answers for a view already
left, a panel that shows another job by the time an answer arrives. *Correct
when* what is shown answers what is selected, the job retried is the one
confirmed, and every action refreshes the list.

### Smaller parts

`AtomicMap` (a map behind a read-write lock; `Each` calls back, and so calls the
storage, under the read lock), job definitions and payload conversion (`job.go`),
signals and the environment (`util.go`), an example program (`web-test/main.go`),
markup, styles and vendored bootstrap.

### How the parts interact

The processor calls the adapter, inside `Transact` wherever it moves a job, and
the pool calls the processor back. The web server calls the same adapter of the
same process. Processes meet only in the tables. The dashboard reaches the
server by HTTP.

## Modules

| module | what it is |
|---|---|
| `JobStore` | the five tables, one operator per adapter method, the outcomes of a transaction, the clock as the tables see it |
| `Processor` | any number of processes over one `JobStore`: enqueueing, pool slots, loops, shutdown, crash and restart, dashboard retry; its properties and its fairness |
| `AtomicStore` | the abstract storage: five tables with at most one row for each job, changed only by whole transactions |
| `JobLifecycle` | the abstract life of a job: new, scheduled, enqueued, processing, failed, processed, discarded |
| `MCProcessor` | the constants of the runs |
| `ProcessorProofs` | theorems about `Processor`, with their proofs |
| `ProcessorRefinement` | the proof that `Processor` implements `AtomicStore` |
| `DeploymentProofs` | theorems about `Processor` in restricted deployments: one process, or several of one slot that neither schedule nor are signalled |
| `LifecycleProofs` | the proof that `Processor`, so restricted, implements `JobLifecycle`, and what follows from it |
| `MemoryStore` | the in-memory adapter: its methods on a state, the mutex, `Transact` on a clone |
| `SqlStore` | the SQL adapter over SQLite: its statements, connections, the write lock, `Transact` |
| `Adapters` | the goroutines of a process calling either adapter, statement by statement |
| `AdaptersProofs` | the proof that both adapters implement `AtomicStore`, and the theorems it rests on |
| `Listing` | `listJobs`: pages of a table from the memory adapter, the SQL adapter and the plain lists; a client that walks through them while rows move |
| `MCListing` | the constants of its run |
| `ListingProofs` | theorems about `Listing` |
| `Dashboard` | the page's state and every task of its event loop: views, list requests, the refresh, the details panel, the retry dialogue |
| `MCDashboard` | the constants of the runs |
| `DashboardProofs` | theorems about the types and the retry dialogue of `Dashboard` |
| `DashboardListProofs` | theorems about its list and its panel |

### Correspondence

A step ends where the code calls the storage or touches what another goroutine
sees. A storage transaction is one step: the memory adapter holds its mutex
throughout, and SQL transactions are assumed serialisable.

| code | model |
|---|---|
| tables of the adapter | `scheduled`, `queue` (a sequence, oldest first), `processing`, `processed`, `failed` |
| `retry_count` of a row | the value of `processing[j]`, `failed[j]`, the `rc` of a queue row |
| `EnqueueAt`, `NextRetryAt`, last heartbeat, against now | membership in `due`, `retryDue`, `stale` |
| `processingJobs` | `inMemory` |
| a pool worker and the closure it runs | `worker[p][w]`: idle, polling, taken, running, completing, failing, leaving |
| `for _, job := range jobs` in a loop | `mover`, `retrier`, `checker`: what is left of the snapshot |
| goroutines and their `select` | `loops`; `LoopExits` between two batches |
| `quit`, `shutdownOnce`, `StopAndWaitFor` | `proc`: up, quitting, draining, stopped; down outside `Process` |
| `Enqueue`'s result | `call` |
| number of dequeues of a job, jobs dropped | histories `attempts`, `discarded`; no code reads them |

`Transact` yields "commit", "rollback" (an error before the commit) or
"lostAck" (the commit took effect and its error is what the caller sees, since
`SQL.Transact` returns `tx.Commit()`'s error). A conflict on a primary key is
always a rollback. What each caller does with an error is part of its action:
`dequeue` gives the slot back, `complete` sends the job to `fail`, `fail` in a
slot only logs, a batch drops its rest, and the orphan checker ends.

The pool (pond) is external: a free slot takes a submitted closure at once
(capacity 0, `TrySubmit` does not wait), and a stopped pool takes none.

The queue is a sequence in `JobStore` and a map in `AtomicStore`, which leaves its
order out: `QueuedCount` maps one to the other.

Abstracted: payloads, names, error texts, logging; the order inside a batch (any
order); the order of jobs with the same timestamp; the instants themselves.

### The adapters' correspondence

In `Adapters` a step is one statement, or what a goroutine does between two.

| code | model |
|---|---|
| `Memory.state`, the committed tables | `db`; `beats` and `old` are the heartbeats there are and those nine seconds old |
| `Memory.mu`; the write lock of SQLite | `holder` |
| the clone in `Transact`; uncommitted writes | `work` |
| transactions begun on `sql.DB` | `open`, each with a connection of its own |
| connections that unclosed rows keep | `lost` |
| `f` of `Transact` | `FirstMethod`, `SecondMethod` and what `AfterFirst`, `AfterSecond` make of their results |
| a goroutine | `client[c]`: idle, call (before `Transact` has the mutex or a connection), open, half, full or broken inside it (no, one, all statements done, or an error), taken, running, leaving |
| `processingJobs`, and `Each` under its read lock | `known`, and `beating`: the jobs it has still to call back for |

A slot dequeues, runs, completes or fails. A sweeper is the orphan checker, the
retrier, the scheduled mover or a retry by hand, one job of a batch at a time,
from rows read in an earlier step. SQLite has one writer, a transaction reads and
writes only after its first write has taken the lock (all of the code's start
with a write), and a statement that waits longer than the busy timeout fails.
Both modules follow the same interface, so the difference between the adapters is in
their definitions only: `Memory.EmitHeartbeat` writes an entry for a job without
a row, the SQL one is an `UPDATE`; `Memory` aborts by dropping the clone, SQL by
`tx.Rollback`.

### The listing's correspondence

`table` is the time in the column a table is ordered by, for each job with a row;
`ListJobs` is what the endpoint answers to a request, and `walk` a client that
reads on with the offset the dashboard's next button sends. A search text is the
set of jobs it finds: how the two adapters compare texts (`strings.ToLower`
against SQL's `LOWER`, which differ beyond ASCII) is left out.

### The dashboard's correspondence

A step is one task of the browser's event loop: a click, a timer, or an answer
with everything that runs before the next task. The server is arbitrary: it
may answer any request with any jobs, in any order, or with an error. The user
may do anything a control allows, and back or forward may lead to any view.

| code | model |
|---|---|
| `jobType`, `queue`, `offset` of `appState` | `view`; search text and page size are left out |
| `jobs`, `jobsLoaded`, `jobsLoading`, `hasMore` | `list`, with the history `list.of`: the view the jobs answer |
| `requestID`, requests in flight | `requests`; `newest` marks the one whose number is `requestID` |
| `refreshing`, `refreshQueued`, the promises of `refreshAll` | `refresh` |
| `lastUpdatedAt`, `lastRefreshFailed` | `status` |
| `selectedJob`, `selectedJobType`, retry prompt, bootstrap's `_isShown` and its pending hidden events | `details` |
| the disabled confirm button and what `retrySelectedJob` awaits | `retrying` |

`requests` is a set, so two superseded requests for one view are one element:
their answers do the same. The panel is external (bootstrap's Offcanvas):
`hide` takes effect at once and its hidden event comes later.

### The clock

`EnqueueTimePasses`, `RetryTimePasses` and `NineSecondsPass` may happen at any
time, so a clock may jump. With `Timely` two margins hold that a healthy
deployment has: nine seconds do not pass for a job some process still beats for
(the emitter ticks every three), and neither nine seconds nor a backoff (a
minute or more) passes between two neighbouring steps on a job in hand, such
as `fail` and the deferred `Delete`. `Timely` says nothing of handlers, of
crashes or of a process that is shutting down: its heartbeats end with its
loops, whatever still runs.

## Runs

| run | instance | shows |
|---|---|---|
| `hostile` | 2 processes of 1 slot, 1 job, `MaxRetry` 1, rollback and lost answers, untimely clock, dashboard | types; an accepted job is in some table or was discarded; never two copies in the queue; every step is a step of `AtomicStore` or changes no table (refinement) |
| `cluster` | 2 processes of 1 slot, 2 jobs, `MaxRetry` 2, rollback, timely | one table per job, one execution at a time, the execution owns its row, retry counts count tries |
| `single` | 1 process of 2 slots, 2 jobs, `MaxRetry` 1, no claimer, rollback, timely, schedules, signals | running jobs beat, retries wait for their backoff, the tables follow `JobLifecycle` (refinement) |
| `live` | 1 process, 1 slot, 1 job, `MaxRetry` 1, rollback, timely, schedules, signals, fair | every accepted job is processed or discarded, whatever transactions fail, unless that ended the orphan checker; a shutdown ends every loop |
| `dashboard` | 2 tabs of 2 pages, 1 filter, 2 jobs | types; what is shown answers what is selected, the open panel's job is in the list, the job retried is the one confirmed |
| `dashboard_live` | 2 tabs of 1 page, 1 filter, 1 job, fair | a queued refresh runs; every retry gives its button back |
| `adapters` | 1 slot, 1 sweeper, 1 job, `MaxRetry` 1, 2 connections, rollback and lost answers, either adapter, fair | types, with a lock and a connection only in the hands of who is inside `Transact`; both adapters implement `AtomicStore` (refinement); a row in processing always has a heartbeat that can grow old; every call returns while a connection is left |
| `pages` | every table of 3 jobs in 2 queues with 2 times, every request up to a limit of 3, 3 kinds of adapter, 2 moves in a walk | a page promises more exactly when there is more and has each row in its place, and only rows of the same time may be on two pages or on none; both adapters answer every query alike; a walk misses at most one row for each that left, and repeats at most one for each that entered |

Four runs expect a violation: a promise of the documentation or of a comment that
the code does not keep, each with the shortest trace TLC finds.

| run | promise | what happens |
|---|---|---|
| `requeue` | `InterruptedJobsRequeued` | a job the kill timeout interrupts stays in processing: `requeue` has no caller |
| `orphans` | `OrphansRecovered` | one failed transaction ends the orphan checker's goroutine |
| `grace` | `GracePeriodRespected` | heartbeats end when shutdown begins, so within a kill timeout above nine seconds another process fails a running job |
| `double_move` | `SucceededNotFailed` | two processes move one due job; the second copy runs, cannot be completed, and is failed |

### Why the properties are split as they are

The safety of `hostile` holds under everything the model can do; schedules, which
its run leaves out for its size, are in its theorems. The
properties of `cluster` and `single` do not, and the four violations, with the
hazards in `PROJECT.json`, say what breaks them: several processes that schedule
jobs (`double_move`), a shutdown beside another process (`grace`), a clock without
margins, a lost answer (a completed job is failed and run again). Two more appear in
larger deployments than these runs have:

- two processes read one failed row in their batches; one retries it, the try
  fails again, and the other claims the new row by ID (`process.go:590`) although
  its backoff has not elapsed: `RetriesBackOff` fails in `cluster`'s instance with
  one job, against "retry `1` waits `1m`" (`src/README.md:214`);
- with two slots in each of two processes, that next try can start in the second
  slot of a process whose first slot has not left the job yet; the deferred `Delete`
  (`process.go:336`) goes by ID and takes the new try's entry in `processingJobs`:
  `RunningJobBeats` fails.

So `cluster` has several processes of one slot without schedules and signals, and
checks neither of the two, and `single` has schedules and signals with one process.
What the two have in common is the assumption `Deployment` of the proofs, under which
`RetriesBackOff` is claimed for one process only. The documentation describes more than
`Deployment`: several processes, of five slots each, that schedule and shut down. There
these properties fail, as said above. Even a program that schedules nothing goes through
the scheduled table when the clock has not moved between `Enqueue`'s two readings of it
(`process.go:392` asks for strictly before), so `Features` without "schedule" also says
that the clock moves.

### Bounds

Jobs never interact except in the order of the queue and for slots, so two jobs
reach the interesting cases and one is enough where the property is about a job's
copies. Two slots, of one process or of two, are two concurrent
executions; two processes are two concurrent batches of each loop. `MaxRetry` is
19 in the code and appears only in the comparison of `LastTry`; 1 and 2 have a
first, a last and (2) a middle retry. `attempts` saturates at `AttemptCap`,
`MaxRetry + 2`, one above the highest value `RetryCountCountsTries` allows.
`hostile` uses a view without `attempts`, which none of its properties reads.
Symmetry is used in safety runs only, over processes, slots and, all of them
being in one queue, jobs.

In `Adapters`, transactions exclude each other at their first write on either
adapter, so one slot and one sweeper, with the emitter and `Enqueue` outside any
transaction, are all the pairs that meet; two connections let a transaction begin
while another holds the lock, and one of them be lost. No transaction lasts nine
seconds (`TimePasses` waits for the lock). The order of the queue is left out:
with more than one job, `DeleteFromQueue` takes any.

In `Listing`, three jobs and pages of one or two rows have a first, a middle and a
last page, a full and a partial one, an offset past the end; `MaxMoves`
bounds the rows that enter and leave during a walk. The real bounds of 25 and 100
rows are constants. `ListingProofs` has none of these bounds but `MaxMoves`, as any
number.

In `Dashboard`, `MaxLoads` is 1: one list request of the user besides the
refresh's own, enough for either to supersede the other. `MaxHides` is 2: the
panel can be closed, opened on another job and closed again before the first
hidden event. Two pages and two jobs give a next and a previous page and a panel
that shows another job than the one being retried. `dashboard` uses symmetry over
jobs, which are only compared with each other.

### Fairness

`live` and `orphans` assume `Fairness`. Weak fairness of a slot that is not idle, of
the loops' snapshots and of each batch: Go runs every goroutine, tickers tick, and a
handler is assumed to return. Weak fairness of heartbeats and of the clock. Strong
fairness of `Submit` (a tick must meet a free slot, and ticks come again and again)
and of `LoopExits` (`select` chooses at random among ready cases, so `quit` cannot
lose for ever). Strong fairness of the commits of what is tried again at every tick,
`dequeue`, the mover's and the retrier's: a storage that fails now and then does not
fail one of them for ever. Nothing of the kind is assumed of `complete`, `fail` and
the orphan checker's `fail`, which are tried once. Weak fairness of `Start`: a
supervisor starts a process that is down. No fairness of signals, crashes, new jobs
or the dashboard. `EveryJobSettles` needs that crashes and shutdowns end (`StaysUp`),
which a system that dies for ever cannot be asked to do without, and that the orphan
checkers stay (`CheckersStay`): run `orphans` shows what happens when a failed
transaction has ended one. That a queue which shares a busy pool gets its turn is
assumed with `Submit`, not shown.

`dashboard_live` assumes weak fairness of answers: every request the page waits
for is answered or fails, since the server gives up after its five seconds of
`WriteTimeout` (`server.go`). Nothing is assumed of the user.

`adapters` assumes strong fairness of a slot in and after a call, of a sweeper in a call and
of the emitter: Go's mutex and read-write lock and the queue of `sql.DB` serve
those who wait in turn, so who could go on again and again does; a statement
answers or gives up after its busy timeout, and a handler returns. Nothing makes
a slot poll or a sweeper begin. `CallsReturn` asks this only while fewer than
`MaxConns` connections are lost: the orphan checker loses one whenever a row does not
scan, and with the last one every call waits for ever (`CHECK_DEADLOCK` is off
in `adapters` for this state, and in `pages` because a walk ends).

## Proofs

`ProcessorProofs` proves, for every number of processes, slots, jobs and
queues, every `MaxRetry`, with and without claimers, under every fault and with
or without timely clocks (assumptions: the `ASSUME`s of `JobStore` and
`Processor`, which only type the constants):

- `TypeCorrect`: `Spec => []TypeOK`. `TypeOK` is inductive: it ties a slot's
  program counter to what it holds, so that `LastTry` bounds every retry count.
- `AcceptedJobsKept`: `Spec => []NoJobLost`. Relative to types, a step
  that takes a job out of one table puts it into another, or discards it, or
  finds it there already; and `call` becomes "ok" only with the row written.
- `JobsQueuedOnce`: `Spec => []QueuedOnce`. Not inductive alone: `EnqueueNow`
  inserts without looking. The strengthening `FreshUntouched` says that a job
  whose ID has not been handed out is in no table, no batch and no slot;
  `QueueInv` joins it with `TypeOK` and `QueuedOnce`, and is inductive. The lemmas
  on `Append` and `RemoveAt` carry the queue's part.

Each invariant is shown step group by step group (`JobStep`, `SlotStep`,
`LoopStep`, `ProcessStep`), with one step per action below that, and assembled
by temporal reasoning at the end.

`ProcessorRefinement` proves, from the same assumptions,
`ImplementsAtomicStore`: `Spec => FollowsAtomicStore`. By `QueuedOnce` the
sequence `queue` holds at most one row for each job, so `QueuedCount` loses
nothing but the order (`CountsInserted`, `CountsRemoved`), and every step is one
transaction of `AtomicStore` or none (`StepMaps`).

`DeploymentProofs` assumes `Deployment` besides: `Timely`, no lost answers, and
either one process (with a dashboard that retries by hand only beside a single
slot) or several of one slot that neither schedule, nor are signalled, nor have a
dashboard, with a claimer. It proves `OneTable`, `SingleExecution`,
`ExecutionOwnsRow`, `RetryCountCountsTries` and `RunningJobBeats` always, and
`RetriesBackOff` for one process without retries by hand, for every number of
jobs, slots, queues and processes and every `MaxRetry`. None of them is inductive:
a move by ID deletes what a snapshot said earlier. `DeploymentInv` says why the
snapshot is still right when it is used:

- `RowsOK`: a job has one row, and its count agrees with the tries it has had;
- `SlotsOK`: who runs a job owns its row and has its entry in `processingJobs`
  (which a slot that is leaving the job cannot take, since the job is `Settled`
  until then), and a job that runs or is being left is stale only if the process
  neither beats nor looks for orphans any more;
- `BatchesOK`: what the mover holds is due, what a lone retrier holds is still
  failed and due, what an orphan checker holds runs nowhere, and is as it was or
  has been failed by another checker;
- `PhasesOK`: a process that is down holds nothing.

`LifecycleProofs` proves `ImplementsLifecycle` from the same assumption:
`Spec => FollowsLifecycle`. With one row for each job the table is the state
(`StatesKnown`), and every step moves one job along one arrow (`OnlyMoves`) or
none (`NobodyMoves`).

Two promises that the `grace` and `double_move` runs see broken hold under `Deployment`:
`GraceForRunningJobs` (`GracePeriodRespected`, from the row a running job owns) and
`SuccessIsFinal` (`SucceededNotFailed`, from the one table a job is in). From
`ImplementsLifecycle` follow two theorems about whole lives that no run checks as a
property: `TriesAreBounded`, no job is started more than `MaxRetry + 1` times, by
the invariant `TriesLeft` along the arrows; and `SettledForGood`, a job that was
processed or discarded stays so and is not started again.

`AdaptersProofs` proves, for every number of goroutines, jobs and
connections and both adapters, `AdaptersTypeCorrect`, `RowsAlwaysBeat`, and
`AdaptersFollowAtomicStore`. The invariant says of each goroutine where it can be
(`ClientOK`), that who is past a first write holds the lock (`LockOK`), and that what a
transaction has done so far is nothing, its first method's work on the committed
tables, or all of its work (`WorkOK`, by `HalfDone` and `FullyDone`): so the tables do
not change under it, and its commit is one step of `AtomicStore`.

`DashboardProofs` proves, for every set of jobs, tabs and filters and every
bound:

- `DashboardTypeCorrect`: `Spec => []TypeOK`. Not inductive alone: that the page
  number stays in range needs that only a list that is not on the last page says
  more follow (`MorePages`), that the newest request asks for no page before the
  selected one (`NewestPages`), and how the panel's parts hang together (`PanelOK`).
- `ConfirmedJobRetried`: `Spec => RetriesConfirmedJob`, from `PanelOK`: an open prompt
  names the selected job whenever one is selected.

`DashboardListProofs` proves `ShownJobsSelected` (`Spec => []ShownIsSelected`) and
`PanelFollowsList` (`Spec => []DetailsInList`) for any number of requests in
flight. `ListInv` says that the newest request is about the selected view or a
refresh is queued that will send one, and that a refresh waits for one list request;
so an answer that is shown is about the selected view, and a list of another view is
one that is being replaced or whose replacement failed, as the status says.

`ListingProofs` proves, for every number of jobs, times, queues and moves, every
page limit and all three adapters (assumptions: the `ASSUME`s of `Listing`, of which
`LimitAssumption` says that the default limit is at least 1 and at most the largest):

- `PagesAlwaysFit` (`PagesFitTogether`) and `AdaptersAlwaysAgree` (`AdaptersAgree`),
  for every table a walk can begin with. `PagesFitTogether` reads a request as
  `storage.go:55-60` says (`Asked`) and gives the next page an order of its own; it
  leaves out the one request that the server reads otherwise (`Refiltered`, below),
  and says of rows which share their time only that nothing else changes place
  (`ServedAsked`, `AlonePlace`). The order of a table is strict and total
  (`RowsOrdered`), whichever way a legacy adapter breaks ties, so the place of a row,
  the number of rows before it, numbers the rows from zero without gaps
  (`PlacesFollowOrder`, `PlacesTaken`), and a sorted list has each row in its place
  (`SortedRows`). Slicing, `LIMIT` and `OFFSET` with one row more, and trimming it
  are then the same set of places (`CutRows`, `PartRows`, `CutAlike`).
- `WalksFollowMoves` (`Spec => []WalkFollowsMoves`). Not inductive alone: it speaks
  of a finished walk. `WalkAccounted` says while it goes on that the standing rows
  behind the offset which it has not shown are at most the rows that left, and that
  those shown twice, with those shown but ahead of the offset, are at most the rows
  that entered; one row more or less moves one row across the offset
  (`EntryAccounted`, `DepartureAccounted`), and a page takes all that it passes
  (`PageAccounted`).
- `ListingTypeCorrect` (`Spec => []TypeOK`). The attempt to prove it showed that a
  row may be shown on as many pages as there are jobs, with no move at all: a legacy
  adapter may order equal times anew for each page. What bounds a walk is its offset
  (`WalkBounded`): no row is shown on more pages than it has passed, and it stops
  after the last row.

Only model-checked: the liveness properties (`EveryJobSettles`, `LoopsEnd`,
`QueuedRefreshRuns`, `RetryEnds`, `CallsReturn`), which the prover does not treat, and
the four violations. Every invariant, action property and refinement that a passing
run checks is also stated by a theorem.

## Not modelled

Counting and `GetFailed`, which only read; the checks on the request before a retry
by hand (origin, content type, body, the switch), sequential and without state;
limits, offsets and flags of a list request that do not parse, negative numbers among
them, each answered with 400; how a search text is compared; databases other than
SQLite below the transaction; `Transact` inside `Transact` and `GetFromQueue`, which
nothing calls; the dashboard's focus, clipboard, toasts and rendering; configuration;
stack traces and payload conversion; the example program and static assets. `requeue`
has no caller, hence no action.

Met while modelling, and no run: `storage.go:59` says that `AllQueues` prevents the
default-queue filter, but `listLegacyJobs` (`server.go:250`) applies it again when
the adapter has no `ListJobs`, as `LegacyList` does: `Refiltered` names the request,
which `PagesFitTogether` excepts and without which exception it fails; `rows.Err` is
asked only in `collectJobRows`, so elsewhere an error while iterating looks like the
last row.
