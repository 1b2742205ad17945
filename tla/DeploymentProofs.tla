-------------------------- MODULE DeploymentProofs --------------------------
(***************************************************************************)
(* What holds of Processor in a restricted deployment: timely clocks,      *)
(* commits whose answers arrive, and either one process (whose dashboard   *)
(* retries by hand only beside a single slot) or several of one slot each  *)
(* in which no job goes through the scheduled table, that are not          *)
(* signalled and have no dashboard.                                        *)
(***************************************************************************)
EXTENDS ProcessorRefinement

Solo     == \A p, q \in Procs : p = q
OneSlot  == \A v, w \in Slots : v = w
NoClicks == "web" \notin Features \/ ~HasClaimer

Deployment ==
    /\ Timely
    /\ "lostAck" \notin Faults
    /\ \/ Solo /\ (NoClicks \/ OneSlot)
       \/ Features = {} /\ HasClaimer /\ OneSlot

-----------------------------------------------------------------------------
(* The inductive invariant: tables, slots, batches, processes.             *)

\* A job has a row in one table only; QueuedCount has the queue's rows.
OneRow(j) ==
    /\ j \in scheduled => QueuedCount[j] = None
    /\ j \in scheduled \/ QueuedCount[j] # None => processing[j] = None
    /\ j \in scheduled \/ QueuedCount[j] # None \/ processing[j] # None
       => failed[j] = None
    /\ \/ j \in scheduled \/ QueuedCount[j] # None
       \/ processing[j] # None \/ failed[j] # None
       => j \notin processed /\ j \notin discarded
    /\ j \in processed => j \notin discarded

TriesOK(j) ==
    /\ call[j] = "none" \/ j \in scheduled => attempts[j] = 0
    /\ QueuedCount[j] # None => attempts[j] = QueuedCount[j]
    /\ processing[j] # None => attempts[j] = processing[j] + 1
    /\ failed[j] # None => attempts[j] = failed[j]
    /\ j \in processed => attempts[j] # 0
    /\ j \in discarded => attempts[j] = MaxRetry + 1

RowsOK == \A j \in Jobs : /\ OneRow(j)
                          /\ TriesOK(j)
                          /\ j \in stale => processing[j] # None

Runs(p, w, j) == worker[p][w].pc \in Executing /\ worker[p][w].job = j

Leaves(p, w, j) == worker[p][w].pc = "leaving" /\ worker[p][w].job = j

Idling(j) == \A p \in Procs, w \in Slots : ~Runs(p, w, j)

\* Where the only process leaves a job it has run, until it is out of hand.
Settled(j) ==
    \/ processing[j] # None /\ Idling(j)
    \/ failed[j] # None /\ j \notin retryDue
    \/ j \in processed
    \/ j \in discarded

Unwatched(p) == loops[p] \cap {"heartbeats", "orphans"} = {}

SlotOK(p, w, j) ==
    /\ Runs(p, w, j) => processing[j] = worker[p][w].rc
    /\ Runs(p, w, j) /\ worker[p][w].pc # "taken" => j \in inMemory[p]
    /\ (Runs(p, w, j) \/ Leaves(p, w, j)) /\ j \in stale => Unwatched(p)
    /\ Solo /\ NoClicks /\ Leaves(p, w, j) => Settled(j)

SlotsOK ==
    /\ \A p \in Procs, w \in Slots, j \in Jobs : SlotOK(p, w, j)
    /\ \A p, q \in Procs, v, w \in Slots, j \in Jobs :
          Runs(p, v, j) /\ Runs(q, w, j) => p = q /\ v = w

\* An orphan in a batch is still there, or another process has failed it.
Orphan(row) ==
    \/ processing[row.job] = row.rc /\ Idling(row.job)
    \/ ~Solo /\ failed[row.job] = row.rc + 1
    \/ ~Solo /\ row.job \in discarded /\ row.rc = MaxRetry

MoverOK == \A p \in Procs : mover[p] \subseteq due

RetrierOK ==
    \A p \in Procs : \A row \in retrier[p] :
        /\ row.job \notin stale
        /\ Solo /\ NoClicks =>
              failed[row.job] = row.rc /\ row.job \in retryDue

CheckerOK ==
    \A p \in Procs : \A row \in checker[p] :
        /\ Orphan(row)
        /\ failed[row.job] # None => row.job \notin retryDue
        /\ \A q \in Procs : \A other \in retrier[q] : other.job # row.job

BatchesOK == MoverOK /\ RetrierOK /\ CheckerOK

PhasesOK ==
    /\ \A p \in Procs : proc[p] = "down" => \A w \in Slots : worker[p][w] = Idle
    /\ Features = {} =>
          /\ scheduled = {}
          /\ \A p \in Procs : /\ proc[p] \in {"down", "up"}
                              /\ proc[p] = "up" => "heartbeats" \in loops[p]

DeploymentInv == QueueInv /\ RowsOK /\ SlotsOK /\ BatchesOK /\ PhasesOK

-----------------------------------------------------------------------------
(* What the invariant says of a job and of a step's surroundings.          *)

LEMMA RowTypes ==
    ASSUME QueueInv, NEW j \in Jobs
    PROVE  /\ QueuedCount[j] \in RetryCounts \cup {None}
           /\ QueuedCount[j] # None <=> Queued(j)
           /\ processing[j] \in RetryCounts \cup {None}
           /\ failed[j] \in RetryCounts \cup {None}
           /\ attempts[j] \in 0 .. AttemptCap
<1>0. TypeOK /\ queue \in Seq(QueueRow) /\ QueuedOnce
  BY DEF QueueInv, TypeOK, StoreTypeOK
<1>1. QueuedCount[j] # None <=> Queued(j)
  BY <1>0, CountWithRow, CountWithoutRow
<1>2. CASE Queued(j)
  <2>1. PICK i \in DOMAIN queue : queue[i].job = j
    BY <1>2 DEF Queued
  <2>2. QueuedCount[j] = queue[i].rc /\ queue[i] \in QueueRow
    BY <1>0, <2>1, CountOfRow, ElementOfSeq
  <2>. QED BY <1>0, <1>1, <2>2 DEF QueueRow, TypeOK, StoreTypeOK
<1>. QED BY <1>0, <1>1, <1>2 DEF TypeOK, StoreTypeOK

\* A slot runs a job with a count that can be stored, and keeps it idle or
\* beating; nothing runs or leaves in a process that is down.
LEMMA InSlot ==
    ASSUME TypeOK, NEW p \in Procs, NEW w \in Slots, NEW j,
           Runs(p, w, j) \/ Leaves(p, w, j)
    PROVE  j \in Jobs /\ worker[p][w].rc \in RetryCounts
BY SlotStateAt DEF Runs, Leaves, Holding

\* A job that runs is in no batch of orphans, is not failed and not settled.
LEMMA RunningIsProcessing ==
    ASSUME DeploymentInv, NEW p \in Procs, NEW w \in Slots, NEW j \in Jobs,
           Runs(p, w, j)
    PROVE  /\ processing[j] = worker[p][w].rc
           /\ processing[j] \in RetryCounts
           /\ j \notin scheduled /\ QueuedCount[j] = None /\ failed[j] = None
           /\ j \notin processed /\ j \notin discarded
           /\ ~Idling(j)
           /\ \A q \in Procs : \A row \in checker[q] : row.job # j
<1>1. /\ processing[j] = worker[p][w].rc
      /\ worker[p][w].rc \in RetryCounts
  BY InSlot DEF DeploymentInv, QueueInv, SlotsOK, SlotOK
<1>2. processing[j] # None
  BY <1>1, NoneAssumption DEF RetryCounts
<1>3. OneRow(j) /\ ~Idling(j)
  BY DEF DeploymentInv, RowsOK, Idling
<1>4. /\ j \notin scheduled /\ QueuedCount[j] = None /\ failed[j] = None
      /\ j \notin processed /\ j \notin discarded
  BY <1>2, <1>3 DEF OneRow
<1>5. ASSUME NEW q \in Procs, NEW row \in checker[q], row.job = j
      PROVE  FALSE
  <2>1. row.rc \in RetryCounts /\ Orphan(row)
    BY DEF DeploymentInv, QueueInv, TypeOK, QueueRow, BatchesOK, CheckerOK
  <2>2. row.rc + 1 # None
    BY <2>1, NoneAssumption, RetryAssumption DEF RetryCounts
  <2>. QED BY <1>3, <1>4, <1>5, <2>1, <2>2 DEF Orphan
<1>. QED BY <1>1, <1>3, <1>4, <1>5

-----------------------------------------------------------------------------
(* Steps that leave a part of the state alone.                             *)

LEMMA SameRows ==
    ASSUME RowsOK, stale' \subseteq stale,
           UNCHANGED <<scheduled, queue, processing, processed, failed,
                       discarded, call, attempts>>
    PROVE  RowsOK'
<1>1. UNCHANGED QueuedCount
  BY CountsStay
<1>. QED BY <1>1 DEF RowsOK, OneRow, TriesOK

LEMMA SameSlots ==
    ASSUME SlotsOK, stale' \subseteq stale, retryDue' \subseteq retryDue,
           UNCHANGED <<worker, inMemory, processing, processed, failed,
                       discarded>>,
           \A p \in Procs : loops'[p] \subseteq loops[p]
    PROVE  SlotsOK'
BY DEF SlotsOK, SlotOK, Runs, Leaves, Settled, Idling, Unwatched

LEMMA SameBatches ==
    ASSUME BatchesOK, stale' \subseteq stale,
           UNCHANGED <<due, worker, processing, failed, retryDue, discarded>>,
           \A p \in Procs : /\ mover'[p] \subseteq mover[p]
                            /\ retrier'[p] \subseteq retrier[p]
                            /\ checker'[p] \subseteq checker[p]
    PROVE  BatchesOK'
BY DEF BatchesOK, MoverOK, RetrierOK, CheckerOK, Orphan, Idling, Runs

LEMMA SamePhases ==
    ASSUME PhasesOK, UNCHANGED <<scheduled, proc, loops, worker>>
    PROVE  PhasesOK'
BY DEF PhasesOK

-----------------------------------------------------------------------------
(* Callers, the dashboard and the clock.                                   *)

DeploymentStepOK == RowsOK' /\ SlotsOK' /\ BatchesOK' /\ PhasesOK'

LEMMA EnqueueKeeps ==
    ASSUME Deployment, DeploymentInv, NEW j \in Jobs,
           EnqueueNow(j) \/ EnqueueLater(j)
    PROVE  DeploymentStepOK
<1>0. /\ QueueInv /\ RowsOK /\ SlotsOK /\ BatchesOK /\ PhasesOK
      /\ QueuedOnce /\ queue \in Seq(QueueRow)
      /\ 0 \in RetryCounts /\ None \notin RetryCounts
  BY RetryAssumption, NoneAssumption
     DEF DeploymentInv, QueueInv, TypeOK, StoreTypeOK, RetryCounts
<1>1. /\ call[j] = "none"
      /\ \/ InsertToQueue(j, 0) /\ UNCHANGED scheduled
         \/ UNCHANGED queue /\ scheduled' \in {scheduled, scheduled \cup {j}}
      /\ call'[j] # "none" /\ \A k \in Jobs : k # j => call'[k] = call[k]
      /\ UNCHANGED <<due, processing, stale, processed, failed, retryDue,
                     discarded, attempts, proc, loops, worker, inMemory,
                     mover, retrier, checker>>
  BY <1>0 DEF EnqueueNow, EnqueueLater, InsertToScheduled, QueueInv, TypeOK
<1>2. /\ j \notin scheduled /\ ~Queued(j)
      /\ processing[j] = None /\ failed[j] = None
  BY <1>0, <1>1 DEF QueueInv, FreshUntouched, TableFree, Processing, Failed
<1>3. SlotsOK' /\ BatchesOK'
  BY <1>0, <1>1, SameSlots, SameBatches
<1>4. PhasesOK'
  BY <1>0 DEF EnqueueNow, EnqueueLater, InsertToScheduled, PhasesOK
<1>5. attempts[j] = 0 /\ j \notin processed /\ j \notin discarded
  BY <1>0, <1>1, RetryAssumption DEF RowsOK, TriesOK
<1>6. CASE InsertToQueue(j, 0) /\ UNCHANGED scheduled
  <2>1. /\ QueuedCount[j] = None
        /\ QueuedCount'[j] = 0
        /\ \A k \in Jobs : k # j => QueuedCount'[k] = QueuedCount[k]
    BY <1>0, <1>2, <1>6, CountsInserted, CountIsFunction
  <2>2. RowsOK'
    BY <1>0, <1>1, <1>2, <1>5, <1>6, <2>1 DEF RowsOK, OneRow, TriesOK
  <2>. QED BY <1>3, <1>4, <2>2 DEF DeploymentStepOK
<1>7. CASE UNCHANGED queue /\ scheduled' \in {scheduled, scheduled \cup {j}}
  <2>1. UNCHANGED QueuedCount /\ QueuedCount[j] = None
    BY <1>0, <1>2, <1>7, CountsStay, RowTypes
  <2>2. RowsOK'
    BY <1>0, <1>1, <1>2, <1>5, <1>7, <2>1 DEF RowsOK, OneRow, TriesOK
  <2>. QED BY <1>3, <1>4, <2>2 DEF DeploymentStepOK
<1>. QED BY <1>1, <1>6, <1>7

\* A failed job goes back to the queue, with its count.
LEMMA FailedRequeued ==
    ASSUME DeploymentInv, NEW j \in Jobs, failed[j] # None,
           DeleteFromFailed(j), InsertToQueue(j, failed[j]),
           UNCHANGED <<scheduled, processing, stale, processed, discarded,
                       call, attempts>>
    PROVE  /\ RowsOK'
           /\ failed'[j] = None
           /\ \A k \in Jobs : k # j => failed'[k] = failed[k]
           /\ retryDue' = retryDue \ {j}
           /\ processing[j] = None /\ j \notin processed /\ j \notin discarded
<1>0. /\ QueueInv /\ RowsOK /\ TypeOK
      /\ QueuedOnce /\ queue \in Seq(QueueRow)
      /\ failed[j] \in RetryCounts
  BY DEF DeploymentInv, QueueInv, TypeOK, StoreTypeOK
<1>1. /\ j \notin scheduled /\ QueuedCount[j] = None /\ ~Queued(j)
      /\ processing[j] = None /\ j \notin processed /\ j \notin discarded
  BY <1>0, RowTypes DEF RowsOK, OneRow
<1>2. /\ QueuedCount'[j] = failed[j]
      /\ \A k \in Jobs : k # j => QueuedCount'[k] = QueuedCount[k]
  BY <1>0, <1>1, CountsInserted, CountIsFunction
<1>3. /\ failed'[j] = None
      /\ \A k \in Jobs : k # j => failed'[k] = failed[k]
      /\ retryDue' = retryDue \ {j}
  BY <1>0 DEF DeleteFromFailed, TypeOK, StoreTypeOK
<1>4. RowsOK'
  BY <1>0, <1>1, <1>2, <1>3 DEF RowsOK, OneRow, TriesOK
<1>. QED BY <1>1, <1>3, <1>4

LEMMA WebRetryKeeps ==
    ASSUME Deployment, DeploymentInv, NEW j \in Jobs, WebRetry(j)
    PROVE  DeploymentStepOK
<1>0. TypeOK /\ RowsOK /\ SlotsOK /\ BatchesOK /\ PhasesOK
  BY DEF DeploymentInv, QueueInv
<1>1. Solo /\ ~NoClicks
  BY DEF WebRetry, Deployment, NoClicks
<1>2. failed[j] # None
  BY DEF WebRetry, Failed
<1>3. PhasesOK'
  BY <1>0, SamePhases DEF WebRetry, procVars
<1>4. CASE UNCHANGED <<failed, retryDue, queue>>
  BY <1>0, <1>3, <1>4, SameRows, SameSlots, SameBatches
     DEF WebRetry, procVars, DeploymentStepOK
<1>5. CASE DeleteFromFailed(j) /\ InsertToQueue(j, failed[j])
  <2>1. /\ RowsOK'
        /\ failed'[j] = None
        /\ \A k \in Jobs : k # j => failed'[k] = failed[k]
        /\ retryDue' = retryDue \ {j}
        /\ processing[j] = None
    BY <1>2, <1>5, FailedRequeued DEF WebRetry, procVars
  <2>2. SlotsOK'
    BY <1>0, <1>1
       DEF WebRetry, procVars, SlotsOK, SlotOK, Runs, Leaves, Idling, Unwatched
  <2>3. BatchesOK'
    <3>1. \A p \in Procs : \A row \in checker[p] : row.job \in Jobs
      BY <1>0 DEF TypeOK, QueueRow
    <3>. QED BY <1>0, <1>1, <2>1, <3>1
             DEF WebRetry, procVars, BatchesOK, MoverOK, RetrierOK, CheckerOK,
                 Orphan, Idling, Runs
  <2>. QED BY <1>3, <2>1, <2>2, <2>3 DEF DeploymentStepOK
<1>. QED BY <1>4, <1>5 DEF WebRetry

\* The margins of the clock: nine seconds pass for no job that runs with
\* heartbeats, that a slot leaves or that is in a batch.
LEMMA NineSecondsKeeps ==
    ASSUME Deployment, DeploymentInv, NEW j \in Jobs, NineSecondsPass(j)
    PROVE  DeploymentStepOK
<1>0. RowsOK /\ SlotsOK /\ BatchesOK /\ PhasesOK /\ TypeOK
  BY DEF DeploymentInv, QueueInv
<1>1. ~Beating(j) /\ ~InHand(j) /\ processing[j] # None
  BY DEF NineSecondsPass, HeartbeatExpires, Deployment, Processing
<1>2. /\ UNCHANGED <<scheduled, due, queue, processing, processed, failed,
                     retryDue, discarded, call, attempts, proc, loops,
                     worker, inMemory, mover, retrier, checker>>
      /\ stale' = stale \cup {j}
  BY DEF NineSecondsPass, HeartbeatExpires, procVars
<1>3. RowsOK'
  <2>1. UNCHANGED QueuedCount
    BY <1>2, CountsStay
  <2>. QED BY <1>0, <1>1, <1>2, <2>1 DEF RowsOK, OneRow, TriesOK
<1>4. SlotsOK'
  <2>1. ASSUME NEW p \in Procs, NEW w \in Slots,
               Runs(p, w, j) \/ Leaves(p, w, j)
        PROVE  Unwatched(p)
    <3>1. ~Leaves(p, w, j)
      BY <1>1 DEF InHand, Leaves
    <3>2. Holds(p, j)
      BY <1>0, <2>1, <3>1 DEF SlotsOK, SlotOK, Holds, Runs
    <3>. QED BY <1>1, <3>2 DEF Beating, Unwatched
  <2>. QED BY <1>0, <1>2, <2>1
           DEF SlotsOK, SlotOK, Runs, Leaves, Settled, Idling, Unwatched
<1>5. BatchesOK'
  <2>1. \A p \in Procs : \A row \in retrier[p] : row.job # j
    BY <1>1 DEF InHand
  <2>. QED BY <1>0, <1>2, <2>1
           DEF BatchesOK, MoverOK, RetrierOK, CheckerOK, Orphan, Idling, Runs
<1>. QED BY <1>0, <1>2, <1>3, <1>4, <1>5, SamePhases DEF DeploymentStepOK

LEMMA RetryTimeKeeps ==
    ASSUME Deployment, DeploymentInv, NEW j \in Jobs, RetryTimePasses(j)
    PROVE  DeploymentStepOK
<1>0. RowsOK /\ SlotsOK /\ BatchesOK /\ PhasesOK
  BY DEF DeploymentInv
<1>1. ~InHand(j)
  BY DEF RetryTimePasses, Deployment
<1>2. /\ UNCHANGED <<scheduled, due, queue, processing, stale, processed,
                     failed, discarded, call, attempts, proc, loops,
                     worker, inMemory, mover, retrier, checker>>
      /\ retryDue' = retryDue \cup {j}
  BY DEF RetryTimePasses, BackoffElapses, procVars
<1>3. SlotsOK'
  <2>1. \A p \in Procs, w \in Slots : ~Leaves(p, w, j)
    BY <1>1 DEF InHand, Leaves
  <2>. QED BY <1>0, <1>2, <2>1
           DEF SlotsOK, SlotOK, Runs, Leaves, Settled, Idling, Unwatched
<1>4. BatchesOK'
  <2>1. \A p \in Procs : \A row \in checker[p] : row.job # j
    BY <1>1 DEF InHand
  <2>. QED BY <1>0, <1>2, <2>1
           DEF BatchesOK, MoverOK, RetrierOK, CheckerOK, Orphan, Idling, Runs
<1>. QED BY <1>0, <1>2, <1>3, <1>4, SameRows, SamePhases DEF DeploymentStepOK

LEMMA JobStepKeeps ==
    ASSUME Deployment, DeploymentInv, NEW j \in Jobs, JobStep(j)
    PROVE  DeploymentStepOK
<1>1. CASE EnqueueTimePasses(j)
  <2>0. RowsOK /\ SlotsOK /\ BatchesOK /\ PhasesOK
    BY DEF DeploymentInv
  <2>1. BatchesOK'
    BY <1>1, <2>0
       DEF EnqueueTimePasses, ScheduleArrives, procVars, BatchesOK, MoverOK,
           RetrierOK, CheckerOK, Orphan, Idling, Runs
  <2>. QED BY <1>1, <2>0, <2>1, SameRows, SameSlots, SamePhases
           DEF EnqueueTimePasses, ScheduleArrives, procVars, DeploymentStepOK
<1>. QED BY <1>1, EnqueueKeeps, WebRetryKeeps, NineSecondsKeeps,
            RetryTimeKeeps DEF JobStep

-----------------------------------------------------------------------------
(* The slots.                                                              *)

StepsTo(p, w, pc) == worker' = [worker EXCEPT ![p][w].pc = pc]

LEMMA PcUpdate ==
    ASSUME TypeOK, NEW p \in Procs, NEW w \in Slots, NEW pc,
           StepsTo(p, w, pc)
    PROVE  /\ worker'[p][w].pc = pc
           /\ worker'[p][w].job = worker[p][w].job
           /\ worker'[p][w].rc = worker[p][w].rc
           /\ \A q \in Procs, v \in Slots :
                 q # p \/ v # w => worker'[q][v] = worker[q][v]
<1> DEFINE state == [worker[p][w] EXCEPT !.pc = pc]
<1>1. worker[p][w] \in {Idle} \cup Polling \cup Holding
  BY DEF TypeOK
<1>2. /\ state.pc = pc
      /\ state.job = worker[p][w].job
      /\ state.rc = worker[p][w].rc
  BY <1>1 DEF Idle, Polling, Holding
<1>3. worker' = [worker EXCEPT ![p][w] = state]
  BY DEF StepsTo
<1> HIDE DEF state
<1>4. /\ worker'[p][w] = state
      /\ \A q \in Procs, v \in Slots :
            q # p \/ v # w => worker'[q][v] = worker[q][v]
  BY <1>3 DEF TypeOK
<1>. QED BY <1>2, <1>4

\* A slot that is not idle belongs to a process that is not down.
LEMMA SlotPhases ==
    ASSUME PhasesOK, NEW p \in Procs, NEW w \in Slots,
           worker[p][w].pc # "idle" \/ proc[p] # "down",
           UNCHANGED <<scheduled, proc, loops>>,
           \A q \in Procs, v \in Slots :
              q # p \/ v # w => worker'[q][v] = worker[q][v]
    PROVE  PhasesOK'
BY DEF PhasesOK, Idle

\* The batches do not mind slots that stop running jobs.
LEMMA SlotBatches ==
    ASSUME TypeOK, BatchesOK, stale' \subseteq stale,
           UNCHANGED <<mover, retrier, checker, due, processing, failed,
                       retryDue, discarded>>,
           \A j \in Jobs : Idling(j) => Idling(j)'
    PROVE  BatchesOK'
<1>1. \A p \in Procs : \A row \in checker[p] : row.job \in Jobs
  BY DEF TypeOK, QueueRow
<1>. QED BY <1>1 DEF BatchesOK, MoverOK, RetrierOK, CheckerOK, Orphan

LEMMA SlotFreed ==
    ASSUME DeploymentInv, NEW p \in Procs, NEW w \in Slots,
           worker[p][w].pc # "idle" \/ proc[p] # "down",
           worker'[p][w].pc \notin Executing \cup {"leaving"},
           \A q \in Procs, v \in Slots :
              q # p \/ v # w => worker'[q][v] = worker[q][v],
           UNCHANGED <<storeVars, call, attempts, proc, loops, mover,
                       retrier, checker>>,
           \A q \in Procs, v \in Slots, j \in Jobs :
              Runs(q, v, j) /\ j \in inMemory[q] => j \in inMemory'[q]
    PROVE  DeploymentStepOK
<1>0. TypeOK /\ RowsOK /\ SlotsOK /\ BatchesOK /\ PhasesOK
  BY DEF DeploymentInv, QueueInv
<1>1. \A q \in Procs, v \in Slots, j \in Jobs :
         /\ Runs(q, v, j)' => Runs(q, v, j) /\ worker'[q][v] = worker[q][v]
         /\ Leaves(q, v, j)' => Leaves(q, v, j)
  BY DEF Runs, Leaves
<1>2. \A j \in Jobs : Idling(j) => Idling(j)'
  BY <1>1 DEF Idling
<1>3. SlotsOK'
  BY <1>0, <1>1, <1>2 DEF storeVars, SlotsOK, SlotOK, Settled, Unwatched
<1>4. BatchesOK'
  BY <1>0, <1>2, SlotBatches DEF storeVars
<1>5. RowsOK'
  BY <1>0, SameRows DEF storeVars
<1>. QED BY <1>0, <1>3, <1>4, <1>5, SlotPhases
         DEF storeVars, DeploymentStepOK

\* A slot goes on with its job.
LEMMA SlotContinues ==
    ASSUME DeploymentInv, NEW p \in Procs, NEW w \in Slots,
           worker[p][w].pc \in Executing, NEW pc \in Executing \ {"taken"},
           StepsTo(p, w, pc),
           UNCHANGED <<storeVars, call, attempts, proc, loops, mover,
                       retrier, checker>>,
           \/ inMemory' = inMemory /\ worker[p][w].pc # "taken"
           \/ inMemory' = [inMemory EXCEPT ![p] = @ \cup {worker[p][w].job}]
    PROVE  DeploymentStepOK
<1>0. TypeOK /\ RowsOK /\ SlotsOK /\ BatchesOK /\ PhasesOK
  BY DEF DeploymentInv, QueueInv
<1>1. /\ worker'[p][w].pc = pc
      /\ worker'[p][w].job = worker[p][w].job
      /\ worker'[p][w].rc = worker[p][w].rc
      /\ \A q \in Procs, v \in Slots :
            q # p \/ v # w => worker'[q][v] = worker[q][v]
  BY <1>0, PcUpdate
<1>2. \A q \in Procs, v \in Slots, j \in Jobs :
         /\ Runs(q, v, j)' <=> Runs(q, v, j)
         /\ Leaves(q, v, j)' <=> Leaves(q, v, j)
         /\ worker'[q][v].rc = worker[q][v].rc
  BY <1>1 DEF Runs, Leaves, Executing
<1>3. \A j \in Jobs : Idling(j) => Idling(j)'
  BY <1>2 DEF Idling
<1>4. ASSUME NEW q \in Procs, NEW v \in Slots, NEW j \in Jobs,
             Runs(q, v, j), worker'[q][v].pc # "taken"
      PROVE  j \in inMemory'[q]
  <2>1. \A r \in Procs : inMemory[r] \subseteq inMemory'[r]
    BY <1>0 DEF TypeOK
  <2>2. CASE q = p /\ v = w /\ worker[p][w].pc = "taken"
    BY <1>0, <1>4, <2>2 DEF Runs, TypeOK
  <2>3. CASE ~(q = p /\ v = w /\ worker[p][w].pc = "taken")
    BY <1>0, <1>1, <1>4, <2>1, <2>3 DEF SlotsOK, SlotOK
  <2>. QED BY <2>2, <2>3
<1>5. SlotsOK'
  BY <1>0, <1>2, <1>3, <1>4
     DEF storeVars, SlotsOK, SlotOK, Settled, Unwatched
<1>6. BatchesOK'
  BY <1>0, <1>3, SlotBatches DEF storeVars
<1>7. RowsOK'
  BY <1>0, SameRows DEF storeVars
<1>8. worker[p][w].pc # "idle"
  BY DEF Executing
<1>. QED BY <1>0, <1>1, <1>5, <1>6, <1>7, <1>8, SlotPhases
         DEF storeVars, DeploymentStepOK

\* A slot does not leave a job that another slot of its process runs: its
\* deferred Delete takes away no entry a running job needs.
LEMMA LeaverApart ==
    ASSUME Deployment, DeploymentInv, NEW p \in Procs, NEW v \in Slots,
           NEW w \in Slots, NEW j \in Jobs, Leaves(p, w, j), Runs(p, v, j)
    PROVE  FALSE
<1>1. CASE Solo /\ NoClicks
  <2>1. Settled(j)
    BY <1>1 DEF DeploymentInv, SlotsOK, SlotOK
  <2>. QED BY <2>1, RunningIsProcessing DEF Settled
<1>2. CASE OneSlot
  <2>1. v = w
    BY <1>2 DEF OneSlot
  <2>. QED BY <2>1 DEF Leaves, Runs, Executing
<1>. QED BY <1>1, <1>2 DEF Deployment

LEMMA LeaveKeeps ==
    ASSUME Deployment, DeploymentInv, NEW p \in Procs, NEW w \in Slots,
           Leave(p, w)
    PROVE  DeploymentStepOK
<1>0. TypeOK
  BY DEF DeploymentInv, QueueInv
<1>1. ASSUME NEW q \in Procs, NEW v \in Slots, NEW j \in Jobs,
             Runs(q, v, j), j \in inMemory[q]
      PROVE  j \in inMemory'[q]
  <2>1. CASE q = p /\ j = worker[p][w].job
    BY <1>1, <2>1, LeaverApart DEF Leave, Leaves
  <2>2. CASE q # p \/ j # worker[p][w].job
    BY <1>0, <1>1, <2>2 DEF Leave, TypeOK
  <2>. QED BY <2>1, <2>2
<1>2. /\ worker'[p][w] = Idle
      /\ \A q \in Procs, v \in Slots :
            q # p \/ v # w => worker'[q][v] = worker[q][v]
  BY <1>0 DEF Leave, TypeOK
<1>3. worker'[p][w].pc \notin Executing \cup {"leaving"}
  BY <1>2 DEF Idle, Executing
<1>. QED BY <1>1, <1>2, <1>3, SlotFreed DEF Leave

\* Orphans in a batch are processing, failed or discarded.
LEMMA OrphanHasRow ==
    ASSUME DeploymentInv, NEW j \in Jobs,
           processing[j] = None, failed[j] = None, j \notin discarded
    PROVE  \A p \in Procs : \A row \in checker[p] : row.job # j
<1> SUFFICES ASSUME NEW p \in Procs, NEW row \in checker[p], row.job = j
             PROVE  FALSE
  OBVIOUS
<1>1. row.rc \in RetryCounts /\ Orphan(row)
  BY DEF DeploymentInv, QueueInv, TypeOK, QueueRow, BatchesOK, CheckerOK
<1>2. row.rc # None /\ row.rc + 1 # None
  BY <1>1, NoneAssumption, RetryAssumption DEF RetryCounts
<1>. QED BY <1>1, <1>2 DEF Orphan

\* A dequeue that commits, with the row it takes named.
Takes(p, w, j, rc) ==
    /\ QueuedCount[j] = rc
    /\ QueuedCount'[j] = None
    /\ \A k \in Jobs : k # j => QueuedCount'[k] = QueuedCount[k]
    /\ InsertToProcessing(j, rc)
    /\ attempts' = [attempts EXCEPT ![j] = IF @ = AttemptCap THEN @ ELSE @ + 1]
    /\ worker' = [worker EXCEPT ![p][w] =
                     [Idle EXCEPT !.pc = "taken", !.job = j, !.rc = rc]]

LEMMA DequeueTakes ==
    ASSUME Deployment, DeploymentInv, NEW p \in Procs, NEW w \in Slots,
           Dequeue(p, w)
    PROVE  \/ /\ UNCHANGED <<queue, processing, stale, attempts>>
              /\ worker' = [worker EXCEPT ![p][w] = Idle]
           \/ \E j \in Jobs, rc \in RetryCounts : Takes(p, w, j, rc)
<1>0. TypeOK /\ QueuedOnce /\ queue \in Seq(QueueRow)
  BY DEF DeploymentInv, QueueInv, TypeOK, StoreTypeOK
<1>1. PICK i \in Oldest(worker[p][w].queue) :
         \/ /\ UNCHANGED <<queue, processing, stale, attempts>>
            /\ worker' = [worker EXCEPT ![p][w] = Idle]
         \/ /\ DeleteFromQueue(i)
            /\ InsertToProcessing(queue[i].job, queue[i].rc)
            /\ attempts' = [attempts EXCEPT ![queue[i].job] =
                              IF @ = AttemptCap THEN @ ELSE @ + 1]
            /\ worker' = [worker EXCEPT ![p][w] =
                            [Idle EXCEPT !.pc = "taken",
                                         !.job = queue[i].job,
                                         !.rc = queue[i].rc]]
  BY FaultAssumption
     DEF Dequeue, Deployment, Transact, Applied, Erroneous
<1>2. i \in DOMAIN queue /\ queue[i] \in QueueRow
  <2>1. i \in 1 .. Len(queue)
    BY <1>0 DEF Oldest
  <2>. QED BY <1>0, <2>1, ElementOfSeq
<1>3. queue[i].job \in Jobs /\ queue[i].rc \in RetryCounts
  BY <1>2 DEF QueueRow
<1>4. QueuedCount[queue[i].job] = queue[i].rc
  BY <1>0, <1>2, <1>3, CountOfRow
<1>5. DeleteFromQueue(i) =>
         /\ QueuedCount'[queue[i].job] = None
         /\ \A k \in Jobs : k # queue[i].job =>
               QueuedCount'[k] = QueuedCount[k]
  BY <1>0, <1>2, <1>3, CountsRemoved, CountIsFunction
<1>. QED BY <1>1, <1>3, <1>4, <1>5 DEF Takes

LEMMA DequeueKeeps ==
    ASSUME Deployment, DeploymentInv, NEW p \in Procs, NEW w \in Slots,
           Dequeue(p, w)
    PROVE  DeploymentStepOK
<1>0. /\ TypeOK /\ RowsOK /\ SlotsOK /\ BatchesOK /\ PhasesOK /\ QueueInv
      /\ None \notin RetryCounts
      /\ RetryCounts \subseteq Nat /\ AttemptCap \notin RetryCounts
  BY NoneAssumption, RetryAssumption
     DEF DeploymentInv, QueueInv, RetryCounts, AttemptCap
<1>1. /\ UNCHANGED <<scheduled, due, processed, failed, retryDue, discarded,
                     call, proc, loops, inMemory, mover, retrier, checker>>
      /\ worker[p][w].pc = "polling"
  BY DEF Dequeue
<1>2. CASE /\ UNCHANGED <<queue, processing, stale, attempts>>
           /\ worker' = [worker EXCEPT ![p][w] = Idle]
  <2>1. /\ worker'[p][w] = Idle
        /\ \A q \in Procs, v \in Slots :
              q # p \/ v # w => worker'[q][v] = worker[q][v]
    BY <1>0, <1>2 DEF TypeOK
  <2>2. worker'[p][w].pc \notin Executing \cup {"leaving"}
    BY <2>1 DEF Idle, Executing
  <2>. QED BY <1>1, <1>2, <2>1, <2>2, SlotFreed DEF storeVars
<1>3. ASSUME NEW j \in Jobs, NEW rc \in RetryCounts, Takes(p, w, j, rc)
      PROVE  DeploymentStepOK
  <2>0. /\ QueuedCount[j] = rc /\ QueuedCount'[j] = None
        /\ \A k \in Jobs : k # j => QueuedCount'[k] = QueuedCount[k]
    BY <1>3 DEF Takes
  <2>1. /\ j \notin scheduled /\ processing[j] = None /\ failed[j] = None
        /\ j \notin processed /\ j \notin discarded /\ attempts[j] = rc
        /\ call[j] # "none"
    <3>1. Queued(j)
      BY <1>0, <2>0, RowTypes
    <3>. QED BY <1>0, <2>0, <3>1
             DEF RowsOK, OneRow, TriesOK, QueueInv, FreshUntouched, TableFree
  <2>2. /\ processing'[j] = rc
        /\ \A k \in Jobs : k # j => processing'[k] = processing[k]
        /\ stale' = stale \ {j}
        /\ attempts'[j] = rc + 1
        /\ \A k \in Jobs : k # j => attempts'[k] = attempts[k]
    BY <1>0, <1>3, <2>1 DEF Takes, InsertToProcessing, TypeOK, StoreTypeOK
  <2>3. /\ worker'[p][w].pc = "taken"
        /\ worker'[p][w].job = j
        /\ worker'[p][w].rc = rc
        /\ \A q \in Procs, v \in Slots :
              q # p \/ v # w => worker'[q][v] = worker[q][v]
    <3> DEFINE state == [Idle EXCEPT !.pc = "taken", !.job = j, !.rc = rc]
    <3>1. state.pc = "taken" /\ state.job = j /\ state.rc = rc
      BY DEF Idle
    <3>2. worker' = [worker EXCEPT ![p][w] = state]
      BY <1>3 DEF Takes
    <3> HIDE DEF state
    <3>3. /\ worker'[p][w] = state
          /\ \A q \in Procs, v \in Slots :
                q # p \/ v # w => worker'[q][v] = worker[q][v]
      BY <1>0, <3>2 DEF TypeOK
    <3>. QED BY <3>1, <3>3
  <2>4. /\ \A q \in Procs, v \in Slots : ~Runs(q, v, j)
        /\ Solo /\ NoClicks => \A q \in Procs, v \in Slots : ~Leaves(q, v, j)
    <3>1. ASSUME NEW q \in Procs, NEW v \in Slots, Runs(q, v, j)
          PROVE  FALSE
      BY <1>0, <2>1, <3>1, RunningIsProcessing
    <3>2. ASSUME Solo, NoClicks, NEW q \in Procs, NEW v \in Slots,
                 Leaves(q, v, j)
          PROVE  FALSE
      BY <1>0, <2>1, <3>2 DEF SlotsOK, SlotOK, Settled
    <3>. QED BY <3>1, <3>2
  <2>5. \A q \in Procs, v \in Slots, k \in Jobs :
           /\ Runs(q, v, k)' => \/ q = p /\ v = w /\ k = j
                                \/ /\ Runs(q, v, k) /\ k # j
                                   /\ worker'[q][v] = worker[q][v]
           /\ Leaves(q, v, k)' => Leaves(q, v, k)
    BY <2>3, <2>4 DEF Runs, Leaves
  <2>6. \A k \in Jobs : k # j => (Idling(k) => Idling(k)')
    BY <2>5 DEF Idling
  <2>7. RowsOK'
    BY <1>0, <1>1, <2>0, <2>1, <2>2 DEF RowsOK, OneRow, TriesOK
  <2>8. SlotsOK'
    <3>1. ASSUME NEW q \in Procs, NEW v \in Slots, NEW k \in Jobs
          PROVE  SlotOK(q, v, k)'
      <4>1. CASE k = j
        BY <1>0, <1>1, <2>2, <2>3, <2>4, <2>5, <4>1
           DEF SlotsOK, SlotOK, Unwatched
      <4>2. CASE k # j
        BY <1>0, <1>1, <2>2, <2>5, <2>6, <4>2
           DEF SlotsOK, SlotOK, Settled, Unwatched
      <4>. QED BY <4>1, <4>2
    <3>2. \A q, r \in Procs, u, v \in Slots, k \in Jobs :
             Runs(q, u, k)' /\ Runs(r, v, k)' => q = r /\ u = v
      BY <1>0, <2>5 DEF SlotsOK
    <3>. QED BY <3>1, <3>2 DEF SlotsOK
  <2>9. BatchesOK'
    <3>1. \A q \in Procs : \A row \in checker[q] :
             row.job \in Jobs /\ row.job # j
      BY <1>0, <2>1, OrphanHasRow DEF TypeOK, QueueRow
    <3>2. MoverOK' /\ RetrierOK'
      BY <1>0, <1>1, <2>2 DEF BatchesOK, MoverOK, RetrierOK
    <3>3. CheckerOK'
      BY <1>0, <1>1, <2>2, <2>6, <3>1 DEF BatchesOK, CheckerOK, Orphan
    <3>. QED BY <3>2, <3>3 DEF BatchesOK
  <2>10. PhasesOK'
    BY <1>0, <1>1, <2>3, SlotPhases
  <2>. QED BY <2>7, <2>8, <2>9, <2>10 DEF DeploymentStepOK
<1>. QED BY <1>2, <1>3, DequeueTakes

\* A slot that is done with its job leaves it, and nobody else has it.
LEMMA NowLeaving ==
    ASSUME DeploymentInv, NEW p \in Procs, NEW w \in Slots, NEW j \in Jobs,
           Runs(p, w, j), StepsTo(p, w, "leaving")
    PROVE  /\ \A q \in Procs, v \in Slots :
                 q # p \/ v # w => worker'[q][v] = worker[q][v]
           /\ \A q \in Procs, v \in Slots, k \in Jobs :
                 /\ Runs(q, v, k)' =>
                       /\ Runs(q, v, k) /\ k # j
                       /\ worker'[q][v] = worker[q][v]
                 /\ Leaves(q, v, k)' => \/ q = p /\ v = w /\ k = j
                                        \/ Leaves(q, v, k)
           /\ \A k \in Jobs : Idling(k) => Idling(k)'
           /\ Idling(j)'
<1>0. TypeOK /\ SlotsOK
  BY DEF DeploymentInv, QueueInv
<1>1. /\ worker'[p][w].pc = "leaving"
      /\ worker'[p][w].job = j
      /\ \A q \in Procs, v \in Slots :
            q # p \/ v # w => worker'[q][v] = worker[q][v]
  BY <1>0, PcUpdate DEF Runs
<1>2. \A q \in Procs, v \in Slots, k \in Jobs :
         /\ Runs(q, v, k)' =>
               /\ Runs(q, v, k) /\ (q # p \/ v # w)
               /\ worker'[q][v] = worker[q][v]
         /\ Leaves(q, v, k)' => \/ q = p /\ v = w /\ k = j
                                \/ Leaves(q, v, k)
  BY <1>1 DEF Runs, Leaves, Executing
<1>3. \A q \in Procs, v \in Slots : Runs(q, v, j) => q = p /\ v = w
  BY <1>0 DEF SlotsOK
<1>4. \A q \in Procs, v \in Slots, k \in Jobs : Runs(q, v, k)' => k # j
  BY <1>2, <1>3
<1>. QED BY <1>1, <1>2, <1>4 DEF Idling

LEMMA CompleteKeeps ==
    ASSUME Deployment, DeploymentInv, NEW p \in Procs, NEW w \in Slots,
           Complete(p, w)
    PROVE  DeploymentStepOK
<1>0. /\ TypeOK /\ RowsOK /\ SlotsOK /\ BatchesOK /\ PhasesOK
      /\ RetryCounts \subseteq Nat
  BY RetryAssumption DEF DeploymentInv, QueueInv, RetryCounts
<1>1. PICK j \in Jobs : /\ Runs(p, w, j) /\ worker[p][w].job = j
                        /\ worker[p][w].pc = "completing"
  BY <1>0, InSlot DEF Complete, Runs, Executing
<1>2. /\ UNCHANGED <<scheduled, due, queue, failed, retryDue, discarded,
                     call, attempts, proc, loops, inMemory, mover, retrier,
                     checker>>
      /\ \/ /\ UNCHANGED <<processed, processing, stale>>
            /\ StepsTo(p, w, "failing")
         \/ /\ InsertToProcessed(j) /\ DeleteFromProcessing(j)
            /\ StepsTo(p, w, "leaving")
  BY <1>1, FaultAssumption
     DEF Complete, Deployment, Transact, Applied, Erroneous, StepsTo
<1>3. CASE UNCHANGED <<processed, processing, stale>> /\ StepsTo(p, w, "failing")
  <2>1. "failing" \in Executing \ {"taken"} /\ worker[p][w].pc \in Executing
    BY <1>1 DEF Executing
  <2>. QED BY <1>1, <1>2, <1>3, <2>1, SlotContinues DEF storeVars
<1>4. CASE /\ InsertToProcessed(j) /\ DeleteFromProcessing(j)
           /\ StepsTo(p, w, "leaving")
  <2>1. /\ processing[j] # None /\ processing[j] \in RetryCounts
        /\ j \notin scheduled /\ QueuedCount[j] = None /\ failed[j] = None
        /\ j \notin discarded
        /\ \A q \in Procs : \A row \in checker[q] : row.job # j
    BY <1>1, RunningIsProcessing, NoneAssumption DEF RetryCounts
  <2>2. /\ processed' = processed \cup {j}
        /\ processing'[j] = None
        /\ \A k \in Jobs : k # j => processing'[k] = processing[k]
        /\ stale' = stale \ {j}
        /\ UNCHANGED QueuedCount
    BY <1>0, <1>1, <1>2, <1>4, CountsStay
       DEF InsertToProcessed, DeleteFromProcessing, TypeOK, StoreTypeOK
  <2>3. /\ \A q \in Procs, v \in Slots :
              q # p \/ v # w => worker'[q][v] = worker[q][v]
        /\ \A q \in Procs, v \in Slots, k \in Jobs :
              /\ Runs(q, v, k)' =>
                    /\ Runs(q, v, k) /\ k # j
                    /\ worker'[q][v] = worker[q][v]
              /\ Leaves(q, v, k)' => \/ q = p /\ v = w /\ k = j
                                     \/ Leaves(q, v, k)
        /\ \A k \in Jobs : Idling(k) => Idling(k)'
    BY <1>1, <1>4, NowLeaving
  <2>4. attempts[j] # 0
    <3>1. attempts[j] = processing[j] + 1
      BY <1>0, <2>1 DEF RowsOK, TriesOK
    <3>2. processing[j] \in Nat
      BY <1>0, <2>1
    <3>. QED BY <3>1, <3>2
  <2>5. RowsOK'
    BY <1>0, <1>2, <2>1, <2>2, <2>4 DEF RowsOK, OneRow, TriesOK
  <2>6. SlotsOK'
    BY <1>0, <1>2, <2>2, <2>3 DEF SlotsOK, SlotOK, Settled, Unwatched
  <2>7. BatchesOK'
    <3>1. \A q \in Procs : \A row \in checker[q] : row.job \in Jobs
      BY <1>0 DEF TypeOK, QueueRow
    <3>. QED BY <1>0, <1>2, <2>1, <2>2, <2>3, <3>1
             DEF BatchesOK, MoverOK, RetrierOK, CheckerOK, Orphan
  <2>8. PhasesOK'
    BY <1>0, <1>1, <1>2, <2>3, SlotPhases
  <2>. QED BY <2>5, <2>6, <2>7, <2>8 DEF DeploymentStepOK
<1>. QED BY <1>2, <1>3, <1>4

\* What failWithStack does to a job that is processing, in a slot or not.
LEMMA FailTxRows ==
    ASSUME DeploymentInv, NEW j \in Jobs, NEW rc \in RetryCounts,
           processing[j] = rc, FailTx(j, rc),
           UNCHANGED <<scheduled, queue, processed, call, attempts>>
    PROVE  /\ RowsOK'
           /\ processing'[j] = None
           /\ stale' = stale \ {j}
           /\ retryDue' \subseteq retryDue
           /\ \A k \in Jobs : k # j => /\ processing'[k] = processing[k]
                                       /\ failed'[k] = failed[k]
                                       /\ k \in retryDue <=> k \in retryDue'
           /\ discarded \subseteq discarded'
           /\ \/ j \in discarded' /\ rc = MaxRetry /\ failed'[j] = None
              \/ /\ failed'[j] = rc + 1 /\ failed'[j] # None
                 /\ j \notin retryDue'
<1>0. /\ TypeOK /\ RowsOK /\ RetryCounts \subseteq Nat
      /\ None \notin Nat /\ rc \in 0 .. MaxRetry
  BY RetryAssumption, NoneAssumption
     DEF DeploymentInv, QueueInv, RetryCounts
<1>1. /\ j \notin scheduled /\ QueuedCount[j] = None /\ failed[j] = None
      /\ j \notin processed /\ j \notin discarded /\ attempts[j] = rc + 1
  BY <1>0 DEF RowsOK, OneRow, TriesOK
<1>2. /\ processing'[j] = None
      /\ \A k \in Jobs : k # j => processing'[k] = processing[k]
      /\ stale' = stale \ {j}
      /\ UNCHANGED QueuedCount
  BY <1>0, CountsStay
     DEF FailTx, DeleteFromProcessing, TypeOK, StoreTypeOK
<1>3. CASE LastTry(rc)
  <2>1. discarded' = discarded \cup {j} /\ UNCHANGED <<failed, retryDue>>
    BY <1>3 DEF FailTx
  <2>2. rc = MaxRetry
    BY <1>0, <1>3, RetryAssumption DEF LastTry
  <2>3. RowsOK'
    BY <1>0, <1>1, <1>2, <2>1, <2>2 DEF RowsOK, OneRow, TriesOK
  <2>. QED BY <1>1, <1>2, <2>1, <2>2, <2>3
<1>4. CASE ~LastTry(rc)
  <2>1. /\ failed'[j] = rc + 1
        /\ \A k \in Jobs : k # j => failed'[k] = failed[k]
        /\ retryDue' = retryDue \ {j} /\ UNCHANGED discarded
    BY <1>0, <1>4 DEF FailTx, InsertToFailed, TypeOK, StoreTypeOK
  <2>2. RowsOK'
    BY <1>0, <1>1, <1>2, <2>1 DEF RowsOK, OneRow, TriesOK
  <2>3. failed'[j] # None
    BY <1>0, <2>1
  <2>. QED BY <1>0, <1>2, <2>1, <2>2, <2>3
<1>. QED BY <1>3, <1>4

\* While its job is processing, no retrier of a lone process has a row of it.
LEMMA NotRetried ==
    ASSUME DeploymentInv, Solo, NoClicks, NEW j \in Jobs, failed[j] = None
    PROVE  \A p \in Procs : \A row \in retrier[p] : row.job # j
BY NoneAssumption
   DEF DeploymentInv, QueueInv, TypeOK, QueueRow, RetryCounts, BatchesOK,
       RetrierOK

LEMMA FailKeeps ==
    ASSUME Deployment, DeploymentInv, NEW p \in Procs, NEW w \in Slots,
           Fail(p, w)
    PROVE  DeploymentStepOK
<1>0. TypeOK /\ RowsOK /\ SlotsOK /\ BatchesOK /\ PhasesOK
  BY DEF DeploymentInv, QueueInv
<1>1. PICK j \in Jobs, rc \in RetryCounts :
         /\ Runs(p, w, j) /\ worker[p][w].job = j /\ worker[p][w].rc = rc
         /\ worker[p][w].pc = "failing"
  BY <1>0, InSlot DEF Fail, Runs, Executing
<1>2. /\ UNCHANGED <<scheduled, due, queue, processed, call, attempts, proc,
                     loops, inMemory, mover, retrier, checker>>
      /\ \/ UNCHANGED <<processing, stale, failed, retryDue, discarded>>
         \/ FailTx(j, rc)
      /\ StepsTo(p, w, "leaving")
  BY <1>1 DEF Fail, StepsTo
<1>3. processing[j] = rc
  BY <1>0, <1>1 DEF SlotsOK, SlotOK
<1>4. /\ processing[j] # None /\ failed[j] = None
      /\ \A q \in Procs : \A row \in checker[q] : row.job # j
  BY <1>1, RunningIsProcessing, NoneAssumption DEF RetryCounts
<1>5. /\ \A q \in Procs, v \in Slots :
            q # p \/ v # w => worker'[q][v] = worker[q][v]
      /\ \A q \in Procs, v \in Slots, k \in Jobs :
            /\ Runs(q, v, k)' =>
                  /\ Runs(q, v, k) /\ k # j
                  /\ worker'[q][v] = worker[q][v]
            /\ Leaves(q, v, k)' => \/ q = p /\ v = w /\ k = j
                                   \/ Leaves(q, v, k)
      /\ \A k \in Jobs : Idling(k) => Idling(k)'
      /\ Idling(j)'
  BY <1>1, <1>2, NowLeaving
<1>6. PhasesOK'
  BY <1>0, <1>1, <1>2, <1>5, SlotPhases
<1>7. CASE UNCHANGED <<processing, stale, failed, retryDue, discarded>>
  <2>1. RowsOK' /\ BatchesOK'
    BY <1>0, <1>2, <1>5, <1>7, SameRows, SlotBatches
  <2>2. SlotsOK'
    BY <1>0, <1>1, <1>2, <1>4, <1>5, <1>7
       DEF SlotsOK, SlotOK, Settled, Unwatched
  <2>. QED BY <1>6, <2>1, <2>2 DEF DeploymentStepOK
<1>8. CASE FailTx(j, rc)
  <2>1. /\ RowsOK'
        /\ processing'[j] = None
        /\ stale' = stale \ {j}
        /\ retryDue' \subseteq retryDue
        /\ \A k \in Jobs : k # j => /\ processing'[k] = processing[k]
                                    /\ failed'[k] = failed[k]
                                    /\ k \in retryDue <=> k \in retryDue'
        /\ discarded \subseteq discarded'
        /\ \/ j \in discarded'
           \/ failed'[j] # None /\ j \notin retryDue'
    BY <1>1, <1>2, <1>3, <1>8, FailTxRows
  <2>2. SlotsOK'
    <3>1. ASSUME NEW q \in Procs, NEW v \in Slots, NEW k \in Jobs
          PROVE  SlotOK(q, v, k)'
      <4>1. CASE k = j
        BY <1>0, <1>2, <1>5, <2>1, <4>1 DEF SlotOK, Settled
      <4>2. CASE k # j
        BY <1>0, <1>2, <1>5, <2>1, <4>2
           DEF SlotsOK, SlotOK, Settled, Unwatched
      <4>. QED BY <4>1, <4>2
    <3>2. \A q, r \in Procs, u, v \in Slots, k \in Jobs :
             Runs(q, u, k)' /\ Runs(r, v, k)' => q = r /\ u = v
      BY <1>0, <1>5 DEF SlotsOK
    <3>. QED BY <3>1, <3>2 DEF SlotsOK
  <2>3. \A q \in Procs : /\ \A row \in checker[q] : row.job \in Jobs
                         /\ \A row \in retrier[q] : row.job \in Jobs
    BY <1>0 DEF TypeOK, QueueRow
  <2>4. MoverOK' /\ RetrierOK'
    BY <1>0, <1>1, <1>2, <1>4, <2>1, <2>3, NotRetried
       DEF BatchesOK, MoverOK, RetrierOK
  <2>5. CheckerOK'
    BY <1>0, <1>2, <1>4, <1>5, <2>1, <2>3 DEF BatchesOK, CheckerOK, Orphan
  <2>. QED BY <1>6, <2>1, <2>2, <2>4, <2>5 DEF BatchesOK, DeploymentStepOK
<1>. QED BY <1>2, <1>7, <1>8

LEMMA SlotStepKeeps ==
    ASSUME Deployment, DeploymentInv, NEW p \in Procs, NEW w \in Slots,
           SlotStep(p, w)
    PROVE  DeploymentStepOK
<1>0. TypeOK
  BY DEF DeploymentInv, QueueInv
<1>1. ASSUME NEW state, state.pc \notin Executing \cup {"leaving"},
             worker' = [worker EXCEPT ![p][w] = state],
             worker[p][w].pc # "idle" \/ proc[p] # "down",
             UNCHANGED <<storeVars, call, attempts, proc, loops, inMemory,
                         mover, retrier, checker>>
      PROVE  DeploymentStepOK
  <2>1. /\ worker'[p][w] = state
        /\ \A q \in Procs, v \in Slots :
              q # p \/ v # w => worker'[q][v] = worker[q][v]
    BY <1>0, <1>1 DEF TypeOK
  <2>. QED BY <1>1, <2>1, SlotFreed
<1>2. ASSUME NEW q \in Queues, Submit(p, w, q) PROVE DeploymentStepOK
  <2> DEFINE state == [Idle EXCEPT !.pc = "polling", !.queue = q]
  <2>1. state.pc \notin Executing \cup {"leaving"}
    BY DEF Idle, Executing
  <2>2. worker' = [worker EXCEPT ![p][w] = state] /\ proc[p] # "down"
    BY <1>2 DEF Submit, PoolOpen
  <2> HIDE DEF state
  <2>. QED BY <1>1, <1>2, <2>1, <2>2 DEF Submit
<1>3. CASE PollEmpty(p, w)
  <2>1. Idle.pc \notin Executing \cup {"leaving"}
    BY DEF Idle, Executing
  <2>. QED BY <1>1, <1>3, <2>1 DEF PollEmpty
<1>4. CASE StartJob(p, w)
  <2>1. "running" \in Executing \ {"taken"} /\ worker[p][w].pc \in Executing
    BY <1>4 DEF StartJob, Executing
  <2>. QED BY <1>4, <2>1, SlotContinues DEF StartJob, StepsTo
<1>5. CASE HandlerReturns(p, w)
  <2>1. PICK pc \in {"completing", "failing"} : StepsTo(p, w, pc)
    BY <1>5 DEF HandlerReturns, StepsTo
  <2>2. pc \in Executing \ {"taken"}
    BY <2>1 DEF Executing
  <2>3. worker[p][w].pc \in Executing /\ worker[p][w].pc # "taken"
    BY <1>5 DEF HandlerReturns, Executing
  <2>. QED BY <1>5, <2>1, <2>2, <2>3, SlotContinues DEF HandlerReturns
<1>. QED BY <1>2, <1>3, <1>4, <1>5, DequeueKeeps, CompleteKeeps, FailKeeps,
            LeaveKeeps DEF SlotStep

-----------------------------------------------------------------------------
(* The loops.                                                              *)

LEMMA MoverKeeps ==
    ASSUME Deployment, DeploymentInv, NEW p \in Procs, NEW j \in mover[p],
           EnqueueScheduled(p, j)
    PROVE  DeploymentStepOK
<1>0. /\ TypeOK /\ RowsOK /\ SlotsOK /\ BatchesOK /\ PhasesOK /\ QueueInv
      /\ QueuedOnce /\ queue \in Seq(QueueRow) /\ 0 \in RetryCounts
      /\ None \notin RetryCounts
  BY RetryAssumption, NoneAssumption
     DEF DeploymentInv, QueueInv, TypeOK, StoreTypeOK, RetryCounts
<1>1. /\ j \in Jobs /\ j \in due /\ j \in scheduled
      /\ UNCHANGED <<processing, stale, processed, failed, retryDue,
                     discarded, call, attempts, proc, loops, worker,
                     inMemory, retrier, checker>>
      /\ \A q \in Procs : mover'[q] \subseteq mover[q]
      /\ \/ UNCHANGED <<scheduled, due, queue>>
         \/ /\ ~Queued(j)
            /\ DeleteFromScheduled(j) /\ InsertToQueue(j, 0)
            /\ j \notin mover'[p]
  BY <1>0, FaultAssumption
     DEF EnqueueScheduled, Transact, Applied, Erroneous, Deployment,
         BatchesOK, MoverOK, TypeOK, StoreTypeOK
<1>2. CASE UNCHANGED <<scheduled, due, queue>>
  BY <1>0, <1>1, <1>2, SameRows, SameSlots, SameBatches, SamePhases
     DEF DeploymentStepOK
<1>3. CASE /\ ~Queued(j)
           /\ DeleteFromScheduled(j) /\ InsertToQueue(j, 0)
           /\ j \notin mover'[p]
  <2>1. Solo
    BY <1>0, <1>1 DEF Deployment, PhasesOK
  <2>2. scheduled' = scheduled \ {j} /\ due' = due \ {j}
    BY <1>3 DEF DeleteFromScheduled
  <2>3. /\ QueuedCount'[j] = 0
        /\ \A k \in Jobs : k # j => QueuedCount'[k] = QueuedCount[k]
    BY <1>0, <1>1, <1>3, CountsInserted, CountIsFunction
  <2>4. RowsOK'
    <3>1. /\ processing[j] = None /\ failed[j] = None
          /\ j \notin processed /\ j \notin discarded /\ attempts[j] = 0
      BY <1>0, <1>1 DEF RowsOK, OneRow, TriesOK
    <3>. QED BY <1>0, <1>1, <2>2, <2>3, <3>1 DEF RowsOK, OneRow, TriesOK
  <2>5. BatchesOK'
    BY <1>0, <1>1, <1>3, <2>1, <2>2
       DEF Solo, BatchesOK, MoverOK, RetrierOK, CheckerOK, Orphan, Idling, Runs
  <2>6. SlotsOK' /\ PhasesOK'
    BY <1>0, <1>1, <2>2, SameSlots DEF PhasesOK
  <2>. QED BY <2>4, <2>5, <2>6 DEF DeploymentStepOK
<1>. QED BY <1>1, <1>2, <1>3

\* A retry that does anything finds the job failed and not queued, and
\* enqueues it with the count of its row.
LEMMA RetryRequeues ==
    ASSUME Deployment, DeploymentInv, NEW p \in Procs,
           NEW row \in retrier[p], NEW j \in Jobs, NEW rc \in RetryCounts,
           row = [job |-> j, rc |-> rc], RetryTx(row)
    PROVE  \/ UNCHANGED <<failed, retryDue, queue>>
           \/ /\ failed[j] # None
              /\ DeleteFromFailed(j) /\ InsertToQueue(j, failed[j])
<1>1. CASE HasClaimer /\ failed[j] = None
  BY <1>1 DEF RetryTx, Failed
<1>2. CASE ~HasClaimer \/ failed[j] # None
  <2>1. /\ HasClaimer \/ failed[j] = rc
        /\ rc # None
    BY NoneAssumption
       DEF Deployment, NoClicks, DeploymentInv, BatchesOK, RetrierOK,
           RetryCounts
  <2>2. failed[j] # None /\ ~Queued(j)
    BY <1>2, <2>1, RowTypes DEF DeploymentInv, RowsOK, OneRow
  <2>. QED BY <2>1, <2>2 DEF RetryTx, Failed
<1>. QED BY <1>1, <1>2

LEMMA RetryKeeps ==
    ASSUME Deployment, DeploymentInv, NEW p \in Procs, NEW row \in retrier[p],
           Retry(p, row)
    PROVE  DeploymentStepOK
<1>0. /\ TypeOK /\ RowsOK /\ SlotsOK /\ BatchesOK /\ PhasesOK
      /\ None \notin RetryCounts
  BY NoneAssumption DEF DeploymentInv, QueueInv, RetryCounts
<1>1. PICK j \in Jobs, rc \in RetryCounts : row = [job |-> j, rc |-> rc]
  BY <1>0 DEF TypeOK, QueueRow
<1>2. Solo /\ NoClicks => failed[j] = rc /\ j \in retryDue
  BY <1>0, <1>1 DEF BatchesOK, RetrierOK
<1>3. /\ UNCHANGED <<scheduled, due, processing, stale, processed, discarded,
                     call, attempts, proc, loops, worker, inMemory, mover,
                     checker>>
      /\ \A q \in Procs : retrier'[q] \subseteq retrier[q]
      /\ \/ UNCHANGED <<failed, retryDue, queue>>
         \/ RetryTx(row) /\ row \notin retrier'[p]
  BY <1>0, FaultAssumption
     DEF Retry, Transact, Applied, Erroneous, Deployment, TypeOK
<1>4. PhasesOK'
  BY <1>0, <1>3, SamePhases
<1>5. CASE UNCHANGED <<failed, retryDue, queue>>
  BY <1>0, <1>3, <1>4, <1>5, SameRows, SameSlots, SameBatches
     DEF DeploymentStepOK
<1>6. CASE /\ RetryTx(row) /\ row \notin retrier'[p]
           /\ ~UNCHANGED <<failed, retryDue, queue>>
  <2>1. /\ failed[j] # None
        /\ DeleteFromFailed(j) /\ InsertToQueue(j, failed[j])
    BY <1>1, <1>6, RetryRequeues
  <2>2. /\ RowsOK'
        /\ failed'[j] = None
        /\ \A k \in Jobs : k # j => failed'[k] = failed[k]
        /\ retryDue' = retryDue \ {j}
        /\ processing[j] = None /\ j \notin processed /\ j \notin discarded
    BY <1>3, <2>1, FailedRequeued
  <2>3. SlotsOK'
    <3>1. ASSUME NEW q \in Procs, NEW v \in Slots, NEW k \in Jobs,
                 Solo, NoClicks, Leaves(q, v, k)
          PROVE  Settled(k)'
      <4>1. Settled(k)
        BY <1>0, <3>1 DEF SlotsOK, SlotOK
      <4>2. k # j
        BY <1>2, <2>2, <3>1, <4>1 DEF Settled
      <4>. QED BY <1>3, <2>2, <4>1, <4>2 DEF Settled, Idling, Runs
    <3>. QED BY <1>0, <1>3, <3>1
             DEF SlotsOK, SlotOK, Runs, Leaves, Unwatched
  <2>4. MoverOK' /\ RetrierOK'
    <3>1. ASSUME Solo, NoClicks, NEW q \in Procs, NEW other \in retrier'[q]
          PROVE  failed'[other.job] = other.rc /\ other.job \in retryDue'
      <4>1. q = p /\ other \in retrier[p] /\ other # row
        BY <1>3, <1>6, <3>1 DEF Solo
      <4>2. other \in QueueRow
        BY <1>0, <4>1 DEF TypeOK
      <4>3. failed[other.job] = other.rc /\ other.job \in retryDue
        BY <1>0, <3>1, <4>1 DEF BatchesOK, RetrierOK
      <4>4. other.job # j
        BY <1>1, <1>2, <3>1, <4>1, <4>2, <4>3 DEF QueueRow
      <4>. QED BY <2>2, <4>2, <4>3, <4>4 DEF QueueRow
    <3>. QED BY <1>0, <1>3, <3>1 DEF BatchesOK, MoverOK, RetrierOK
  <2>5. CheckerOK'
    <3>1. \A q \in Procs : \A orphan \in checker[q] :
             orphan.job \in Jobs /\ orphan.job # j
      BY <1>0, <1>1 DEF TypeOK, QueueRow, BatchesOK, CheckerOK
    <3>. QED BY <1>0, <1>3, <2>2, <3>1
             DEF BatchesOK, CheckerOK, Orphan, Idling, Runs
  <2>. QED BY <1>4, <2>2, <2>3, <2>4, <2>5 DEF BatchesOK, DeploymentStepOK
<1>. QED BY <1>3, <1>5, <1>6

\* A stale job whose heartbeats could be told is run by nobody.
LEMMA StaleIdling ==
    ASSUME Deployment, DeploymentInv, NEW p \in Procs,
           "orphans" \in loops[p], NEW j \in Jobs, j \in stale
    PROVE  Idling(j)
<1> SUFFICES ASSUME NEW q \in Procs, NEW v \in Slots, Runs(q, v, j)
             PROVE  FALSE
  BY DEF Idling
<1>1. Unwatched(q)
  BY DEF DeploymentInv, SlotsOK, SlotOK
<1>2. CASE Solo
  BY <1>1, <1>2 DEF Solo, Unwatched
<1>3. CASE Features = {}
  <2>1. proc[q] # "down"
    BY DEF DeploymentInv, PhasesOK, Runs, Executing, Idle
  <2>. QED BY <1>1, <1>3, <2>1 DEF DeploymentInv, PhasesOK, Unwatched
<1>. QED BY <1>2, <1>3 DEF Deployment

LEMMA SnapshotKeeps ==
    ASSUME Deployment, DeploymentInv, NEW p \in Procs,
           \/ NextFromScheduled(p)
           \/ NextFromFailed(p)
           \/ GetOrphans(p)
    PROVE  DeploymentStepOK
<1>0. TypeOK /\ RowsOK /\ SlotsOK /\ BatchesOK /\ PhasesOK
  BY DEF DeploymentInv, QueueInv
<1>1. UNCHANGED <<storeVars, call, attempts, proc, loops, worker, inMemory>>
  BY DEF NextFromScheduled, NextFromFailed, GetOrphans
<1>2. RowsOK' /\ SlotsOK' /\ PhasesOK'
  BY <1>0, <1>1, SameRows, SameSlots, SamePhases DEF storeVars
<1>3. CASE NextFromScheduled(p)
  <2>1. MoverOK'
    BY <1>0, <1>1, <1>3
       DEF NextFromScheduled, storeVars, BatchesOK, MoverOK, TypeOK
  <2>2. RetrierOK' /\ CheckerOK'
    BY <1>0, <1>1, <1>3
       DEF NextFromScheduled, storeVars, BatchesOK, RetrierOK, CheckerOK,
           Orphan, Idling, Runs
  <2>. QED BY <1>2, <2>1, <2>2 DEF BatchesOK, DeploymentStepOK
<1>4. CASE NextFromFailed(p)
  <2>1. \A row \in RetryRows :
           /\ row.job \in Jobs /\ row.job \in retryDue
           /\ failed[row.job] = row.rc /\ failed[row.job] # None
           /\ row.job \notin stale
    BY <1>0 DEF RetryRows, Failed, RowsOK, OneRow, TypeOK, StoreTypeOK
  <2>2. \A q \in Procs : retrier'[q] = IF q = p THEN RetryRows ELSE retrier[q]
    BY <1>0, <1>4 DEF NextFromFailed, TypeOK
  <2>3. UNCHANGED <<mover, checker>>
    BY <1>4 DEF NextFromFailed
  <2>4. BatchesOK'
    BY <1>0, <1>1, <2>1, <2>2, <2>3
       DEF storeVars, BatchesOK, MoverOK, RetrierOK, CheckerOK, Orphan,
           Idling, Runs
  <2>. QED BY <1>2, <2>4 DEF DeploymentStepOK
<1>5. CASE GetOrphans(p)
  <2>1. \A row \in StaleRows :
           /\ row.job \in Jobs /\ row.job \in stale
           /\ processing[row.job] = row.rc /\ failed[row.job] = None
    BY <1>0 DEF StaleRows, Processing, RowsOK, OneRow, TypeOK, StoreTypeOK
  <2>2. \A row \in StaleRows : Idling(row.job)
    BY <1>5, <2>1, StaleIdling DEF GetOrphans
  <2>3. \A q \in Procs : checker'[q] = IF q = p THEN StaleRows ELSE checker[q]
    BY <1>0, <1>5 DEF GetOrphans, TypeOK
  <2>4. UNCHANGED <<mover, retrier>>
    BY <1>5 DEF GetOrphans
  <2>5. BatchesOK'
    BY <1>0, <1>1, <2>1, <2>2, <2>3, <2>4
       DEF storeVars, BatchesOK, MoverOK, RetrierOK, CheckerOK, Orphan,
           Idling, Runs
  <2>. QED BY <1>2, <2>5 DEF DeploymentStepOK
<1>. QED BY <1>3, <1>4, <1>5

\* An orphan the checker works off: it fails the job, finds that another
\* process has, or gives up.
LEMMA OrphanWorkedOff ==
    ASSUME DeploymentInv, NEW p \in Procs, NEW row \in checker[p],
           NEW j \in Jobs, NEW rc \in RetryCounts,
           row = [job |-> j, rc |-> rc], FailOrphan(p, row),
           "lostAck" \notin Faults
    PROVE  \/ UNCHANGED <<processing, failed, retryDue, discarded>>
              /\ stale' \subseteq stale
           \/ /\ processing[j] = rc /\ Idling(j)
              /\ FailTx(j, rc) /\ checker'[p] = checker[p] \ {row}
<1>0. /\ TypeOK /\ RowsOK /\ Orphan(row) /\ rc \in 0 .. MaxRetry
      /\ None \notin Nat /\ MaxRetry \in Nat
  BY RetryAssumption, NoneAssumption
     DEF DeploymentInv, QueueInv, BatchesOK, CheckerOK, RetryCounts
<1>1. \/ UNCHANGED <<processing, stale, failed, retryDue, discarded>>
      \/ /\ FailTx(j, rc) /\ checker'[p] = checker[p] \ {row}
         /\ ~FailConflict(j, rc)
  BY <1>0, FaultAssumption
     DEF FailOrphan, Transact, Applied, Erroneous, TypeOK
<1>2. CASE FailTx(j, rc) /\ failed[j] = rc + 1 /\ ~FailConflict(j, rc)
  <2>1. failed[j] # None
    BY <1>0, <1>2
  <2>2. failed[j] \in 0 .. MaxRetry
    BY <1>0, <2>1 DEF TypeOK, StoreTypeOK, RetryCounts
  <2>. QED BY <1>0, <1>2, <2>1, <2>2 DEF FailConflict, LastTry, Failed
<1>3. CASE FailTx(j, rc) /\ j \in discarded /\ rc = MaxRetry
  <2>1. processing[j] = None
    BY <1>0, <1>3 DEF RowsOK, OneRow
  <2>2. LastTry(rc)
    BY <1>0, <1>3 DEF LastTry
  <2>3. processing' = processing /\ stale' \subseteq stale
    BY <1>0, <1>3, <2>1 DEF FailTx, DeleteFromProcessing, TypeOK, StoreTypeOK
  <2>. QED BY <1>3, <2>2, <2>3 DEF FailTx
<1>. QED BY <1>0, <1>1, <1>2, <1>3 DEF Orphan

LEMMA FailOrphanKeeps ==
    ASSUME Deployment, DeploymentInv, NEW p \in Procs,
           NEW row \in checker[p], FailOrphan(p, row)
    PROVE  DeploymentStepOK
<1>0. /\ TypeOK /\ RowsOK /\ SlotsOK /\ BatchesOK /\ PhasesOK
      /\ "lostAck" \notin Faults
  BY DEF Deployment, DeploymentInv, QueueInv
<1>1. PICK j \in Jobs, rc \in RetryCounts : row = [job |-> j, rc |-> rc]
  BY <1>0 DEF TypeOK, QueueRow
<1>2. /\ UNCHANGED <<scheduled, due, queue, processed, call, attempts, proc,
                     worker, inMemory, mover, retrier>>
      /\ \A q \in Procs : /\ checker'[q] \subseteq checker[q]
                          /\ loops'[q] \subseteq loops[q]
                          /\ loops[q] \subseteq loops'[q] \cup {"orphans"}
  BY <1>0 DEF FailOrphan, TypeOK
<1>3. PhasesOK'
  BY <1>0, <1>2 DEF PhasesOK
<1>4. CASE /\ UNCHANGED <<processing, failed, retryDue, discarded>>
           /\ stale' \subseteq stale
  BY <1>0, <1>2, <1>3, <1>4, SameRows, SameSlots, SameBatches
     DEF DeploymentStepOK
<1>5. CASE /\ processing[j] = rc /\ Idling(j)
           /\ FailTx(j, rc) /\ checker'[p] = checker[p] \ {row}
  <2>1. /\ RowsOK'
        /\ processing'[j] = None
        /\ stale' = stale \ {j}
        /\ retryDue' \subseteq retryDue
        /\ \A k \in Jobs : k # j => /\ processing'[k] = processing[k]
                                    /\ failed'[k] = failed[k]
                                    /\ k \in retryDue <=> k \in retryDue'
        /\ discarded \subseteq discarded'
        /\ \/ j \in discarded' /\ rc = MaxRetry /\ failed'[j] = None
           \/ /\ failed'[j] = rc + 1 /\ failed'[j] # None
              /\ j \notin retryDue'
    BY <1>2, <1>5, FailTxRows
  <2>2. SlotsOK'
    <3>1. ASSUME NEW q \in Procs, NEW v \in Slots, NEW k \in Jobs
          PROVE  SlotOK(q, v, k)'
      <4>1. CASE k = j
        <5>1. ~Runs(q, v, j)' /\ Settled(j)' /\ j \notin stale'
          BY <1>2, <1>5, <2>1 DEF Idling, Runs, Settled
        <5>. QED BY <4>1, <5>1 DEF SlotOK
      <4>2. CASE k # j
        BY <1>0, <1>2, <2>1, <4>2
           DEF SlotsOK, SlotOK, Settled, Unwatched, Runs, Leaves, Idling
      <4>. QED BY <4>1, <4>2
    <3>. QED BY <1>0, <1>2, <3>1 DEF SlotsOK, Runs
  <2>3. \A q \in Procs : \A other \in retrier[q] :
           other.job # j /\ other.job \in Jobs
    BY <1>0, <1>1 DEF BatchesOK, CheckerOK, TypeOK, QueueRow
  <2>4. MoverOK' /\ RetrierOK'
    BY <1>0, <1>2, <2>1, <2>3 DEF BatchesOK, MoverOK, RetrierOK
  <2>5. ASSUME NEW q \in Procs, NEW other \in checker'[q]
        PROVE  Orphan(other)' /\ (failed'[other.job] # None
                                  => other.job \notin retryDue')
    <3>1. /\ other \in checker[q] /\ other \in QueueRow /\ Orphan(other)
          /\ failed[other.job] # None => other.job \notin retryDue
      BY <1>0, <1>2 DEF TypeOK, BatchesOK, CheckerOK
    <3>2. CASE other.job = j
      <4>1. failed[j] = None /\ j \notin discarded /\ other.rc + 1 # None
        BY <1>0, <1>5, <3>1, RetryAssumption, NoneAssumption
           DEF RowsOK, OneRow, QueueRow, RetryCounts
      <4>2. other.rc = rc
        BY <1>5, <3>1, <3>2, <4>1 DEF Orphan
      <4>3. ~Solo
        BY <1>1, <1>5, <3>1, <3>2, <4>2 DEF Solo, QueueRow
      <4>. QED BY <2>1, <3>2, <4>2, <4>3 DEF Orphan
    <3>3. CASE other.job # j
      BY <1>2, <2>1, <3>1, <3>3 DEF Orphan, Idling, Runs, QueueRow
    <3>. QED BY <3>2, <3>3
  <2>6. CheckerOK'
    BY <1>0, <1>2, <2>5 DEF BatchesOK, CheckerOK
  <2>. QED BY <1>3, <2>1, <2>2, <2>4, <2>6 DEF BatchesOK, DeploymentStepOK
<1>. QED BY <1>0, <1>1, <1>4, <1>5, OrphanWorkedOff

LEMMA LoopStepKeeps ==
    ASSUME Deployment, DeploymentInv, NEW p \in Procs, LoopStep(p)
    PROVE  DeploymentStepOK
<1>1. ASSUME NEW j \in inMemory[p], Heartbeat(p, j) PROVE DeploymentStepOK
  <2>1. /\ stale' \subseteq stale
        /\ UNCHANGED <<scheduled, due, queue, processing, processed, failed,
                       retryDue, discarded, procVars>>
    BY <1>1 DEF Heartbeat, EmitHeartbeat
  <2>. QED BY <2>1, SameRows, SameSlots, SameBatches, SamePhases
           DEF DeploymentInv, procVars, DeploymentStepOK
<1>. QED BY <1>1, MoverKeeps, RetryKeeps, SnapshotKeeps, FailOrphanKeeps
         DEF LoopStep

-----------------------------------------------------------------------------
(* The life of a process, and every step.                                  *)

LEMMA ProcessStepKeeps ==
    ASSUME Deployment, DeploymentInv, NEW p \in Procs, ProcessStep(p)
    PROVE  DeploymentStepOK
<1>0. TypeOK /\ RowsOK /\ SlotsOK /\ BatchesOK /\ PhasesOK
  BY DEF DeploymentInv, QueueInv
<1>1. /\ UNCHANGED <<scheduled, due, queue, processing, stale, processed,
                     failed, retryDue, discarded, call, attempts>>
      /\ RowsOK'
  BY <1>0, SameRows
     DEF ProcessStep, Start, CloseQuit, StopPool, WaitReturns, Advance,
         LoopExits, Exit, storeVars
<1>2. CASE Start(p)
  <2>1. /\ UNCHANGED <<worker, inMemory, mover, retrier, checker>>
        /\ \A w \in Slots : worker[p][w].pc = "idle"
        /\ \A q \in Procs : q # p => loops'[q] = loops[q] /\ proc'[q] = proc[q]
        /\ proc'[p] = "up" /\ "heartbeats" \in loops'[p]
    BY <1>0, <1>2 DEF Start, PhasesOK, Idle, TypeOK, Loops
  <2>2. BatchesOK'
    BY <1>0, <1>1, <2>1, SameBatches
  <2>3. \A w \in Slots, j \in Jobs : ~Runs(p, w, j) /\ ~Leaves(p, w, j)
    BY <2>1 DEF Runs, Leaves, Executing
  <2>4. SlotsOK'
    BY <1>0, <1>1, <2>1, <2>3
       DEF SlotsOK, SlotOK, Settled, Unwatched, Runs, Leaves, Idling
  <2>5. PhasesOK'
    BY <1>0, <1>1, <2>1 DEF PhasesOK
  <2>. QED BY <1>1, <2>2, <2>4, <2>5 DEF DeploymentStepOK
<1>3. ASSUME UNCHANGED <<worker, inMemory, mover, retrier, checker>>,
             \A q \in Procs : /\ loops'[q] \subseteq loops[q]
                              /\ proc'[q] = "down" => proc[q] = "down",
             Features # {}
      PROVE  DeploymentStepOK
  <2>1. SlotsOK' /\ BatchesOK'
    BY <1>0, <1>1, <1>3, SameSlots, SameBatches
  <2>2. PhasesOK'
    BY <1>0, <1>3 DEF PhasesOK
  <2>. QED BY <1>1, <2>1, <2>2 DEF DeploymentStepOK
<1>4. CASE CloseQuit(p) \/ StopPool(p) \/ WaitReturns(p)
  <2>1. Features # {}
    BY <1>0, <1>4 DEF CloseQuit, StopPool, WaitReturns, Advance, PhasesOK
  <2>. QED BY <1>0, <1>3, <1>4, <2>1
           DEF CloseQuit, StopPool, WaitReturns, Advance, TypeOK
<1>5. ASSUME NEW l \in loops[p], LoopExits(p, l) PROVE DeploymentStepOK
  <2>1. Features # {}
    BY <1>0, <1>5 DEF LoopExits, PhasesOK
  <2>. QED BY <1>0, <1>3, <1>5, <2>1 DEF LoopExits, TypeOK
<1>6. CASE Exit(p)
  <2>1. /\ \A q \in Procs : q # p => /\ worker'[q] = worker[q]
                                     /\ inMemory'[q] = inMemory[q]
                                     /\ loops'[q] = loops[q]
                                     /\ proc'[q] = proc[q]
        /\ proc'[p] = "down"
        /\ \A w \in Slots : worker'[p][w] = Idle
        /\ \A q \in Procs : /\ mover'[q] \subseteq mover[q]
                            /\ retrier'[q] \subseteq retrier[q]
                            /\ checker'[q] \subseteq checker[q]
    BY <1>0, <1>6 DEF Exit, TypeOK
  <2>2. \A w \in Slots, j \in Jobs : ~Runs(p, w, j)' /\ ~Leaves(p, w, j)'
    BY <2>1 DEF Runs, Leaves, Executing, Idle
  <2>3. /\ \A q \in Procs, w \in Slots, j \in Jobs :
              /\ Runs(q, w, j)' => q # p /\ Runs(q, w, j)
              /\ Leaves(q, w, j)' => q # p /\ Leaves(q, w, j)
        /\ \A j \in Jobs : Idling(j) => Idling(j)'
    BY <2>1, <2>2 DEF Runs, Leaves, Idling
  <2>4. SlotsOK'
    BY <1>0, <1>1, <2>1, <2>3 DEF SlotsOK, SlotOK, Settled, Unwatched
  <2>5. BatchesOK'
    <3>1. \A q \in Procs : \A row \in checker[q] : row.job \in Jobs
      BY <1>0 DEF TypeOK, QueueRow
    <3>. QED BY <1>0, <1>1, <2>1, <2>3, <3>1
             DEF BatchesOK, MoverOK, RetrierOK, CheckerOK, Orphan
  <2>6. PhasesOK'
    BY <1>0, <1>1, <2>1 DEF PhasesOK
  <2>. QED BY <1>1, <2>4, <2>5, <2>6 DEF DeploymentStepOK
<1>. QED BY <1>2, <1>4, <1>5, <1>6 DEF ProcessStep

LEMMA DeploymentInit == Init => DeploymentInv
<1> SUFFICES ASSUME Init PROVE DeploymentInv
  OBVIOUS
<1>1. QueueInv
  BY QueueInvInit
<1>2. \A j \in Jobs : QueuedCount[j] = None
  BY DEF Init, StoreInit, QueuedCount, Queued
<1>3. RowsOK
  BY <1>2 DEF Init, StoreInit, RowsOK, OneRow, TriesOK
<1>4. SlotsOK /\ BatchesOK /\ PhasesOK
  BY DEF Init, StoreInit, SlotsOK, SlotOK, Runs, Leaves, Executing, Idle,
         BatchesOK, MoverOK, RetrierOK, CheckerOK, PhasesOK
<1>. QED BY <1>1, <1>3, <1>4 DEF DeploymentInv

LEMMA DeploymentStep ==
    ASSUME Deployment
    PROVE  DeploymentInv /\ [Next]_vars => DeploymentInv'
<1> SUFFICES ASSUME DeploymentInv, [Next]_vars PROVE DeploymentInv'
  OBVIOUS
<1>1. QueueInv'
  BY QueueInvStep DEF DeploymentInv
<1>2. DeploymentStepOK
  <2>1. CASE Next
    BY <2>1, JobStepKeeps, SlotStepKeeps, LoopStepKeeps, ProcessStepKeeps
       DEF Next
  <2>2. CASE UNCHANGED vars
    BY <2>2, SameRows, SameSlots, SameBatches, SamePhases
       DEF vars, storeVars, procVars, DeploymentInv, DeploymentStepOK
  <2>. QED BY <2>1, <2>2
<1>. QED BY <1>1, <1>2 DEF DeploymentInv, DeploymentStepOK

\* The deployment's invariant, for every number of jobs, slots and processes.
THEOREM DeploymentInvariant == ASSUME Deployment PROVE Spec => []DeploymentInv
BY DeploymentInit, DeploymentStep, PTL DEF Spec

-----------------------------------------------------------------------------
(* What the invariant says.                                                *)

LEMMA DeploymentHasOneTable == DeploymentInv => OneTable
<1> SUFFICES ASSUME DeploymentInv, NEW j \in Jobs,
                    NEW s \in Tables, NEW t \in Tables, In(j, s), In(j, t)
             PROVE  s = t
  BY DEF OneTable
<1>1. OneRow(j) /\ (QueuedCount[j] # None <=> Queued(j))
  BY RowTypes DEF DeploymentInv, RowsOK
<1>2. ASSUME NEW u \in Tables, In(j, u)
      PROVE  \/ u = "scheduled"  /\ j \in scheduled
             \/ u = "enqueued"   /\ Queued(j)
             \/ u = "processing" /\ processing[j] # None
             \/ u = "processed"  /\ j \in processed
             \/ u = "failed"     /\ failed[j] # None
             \/ u = "discarded"  /\ j \in discarded
  BY <1>2 DEF Tables, In, Processing, Failed
<1>. QED BY <1>1, <1>2 DEF OneRow

\* A job is in at most one table, whatever row by ID a step acts on.
THEOREM OneTableAlways == ASSUME Deployment PROVE Spec => []OneTable
BY DeploymentHasOneTable, DeploymentInvariant, PTL

\* No two slots execute one job at a time.
THEOREM OneExecutionAtATime ==
    ASSUME Deployment PROVE Spec => []SingleExecution
<1>1. DeploymentInv => SingleExecution
  BY DEF DeploymentInv, SlotsOK, SingleExecution, Slot, Executes, Runs
<1>. QED BY <1>1, DeploymentInvariant, PTL

\* The slot that executes a job owns its processing row.
THEOREM ExecutionsOwnTheirRows ==
    ASSUME Deployment PROVE Spec => []ExecutionOwnsRow
<1>1. DeploymentInv => ExecutionOwnsRow
  BY DEF DeploymentInv, SlotsOK, SlotOK, ExecutionOwnsRow, Slot, Executes,
         Runs
<1>. QED BY <1>1, DeploymentInvariant, PTL

\* The retry counts in the tables count the tries a job has had.
THEOREM TriesAreCounted ==
    ASSUME Deployment PROVE Spec => []RetryCountCountsTries
<1>1. DeploymentInv => RetryCountCountsTries
  <2> SUFFICES ASSUME DeploymentInv, NEW j \in Jobs
               PROVE  /\ Processing(j) => processing[j] = attempts[j] - 1
                      /\ Failed(j) => failed[j] = attempts[j]
                      /\ j \in discarded => attempts[j] = MaxRetry + 1
    BY DEF RetryCountCountsTries
  <2>1. /\ TriesOK(j)
        /\ Processing(j) => processing[j] \in Nat
    BY RowTypes, RetryAssumption
       DEF DeploymentInv, RowsOK, Processing, RetryCounts
  <2>. QED BY <2>1 DEF TriesOK, Processing, Failed
<1>. QED BY <1>1, DeploymentInvariant, PTL

\* A job that runs is in the map the heartbeat emitter walks.
THEOREM RunningJobsBeat == ASSUME Deployment PROVE Spec => []RunningJobBeats
<1>1. DeploymentInv => RunningJobBeats
  BY DEF DeploymentInv, SlotsOK, SlotOK, RunningJobBeats, Slot, Executes, Runs
<1>. QED BY <1>1, DeploymentInvariant, PTL

\* A job that succeeded is not among the failed ones: the promise that two
\* processes which move the same due job break (README.md:106) holds wherever
\* only one process schedules.
THEOREM SuccessIsFinal == ASSUME Deployment PROVE Spec => []SucceededNotFailed
<1>1. DeploymentInv => SucceededNotFailed
  <2> SUFFICES ASSUME DeploymentInv, NEW j \in processed
               PROVE  failed[j] = None
    BY DEF SucceededNotFailed, Failed
  <2>1. j \in Jobs
    BY DEF DeploymentInv, QueueInv, TypeOK, StoreTypeOK
  <2>. QED BY <2>1 DEF DeploymentInv, RowsOK, OneRow
<1>. QED BY <1>1, DeploymentInvariant, PTL

\* While a lone process waits for its running jobs they stay in processing,
\* however long the kill timeout (README.md:63): only another process fails
\* them when the heartbeats end.
THEOREM GraceForRunningJobs ==
    ASSUME Deployment PROVE Spec => []GracePeriodRespected
<1>1. DeploymentInv => GracePeriodRespected
  <2> SUFFICES ASSUME DeploymentInv, NEW s \in Slot, NEW j \in Jobs,
                      Executes(s, j)
               PROVE  Processing(j)
    BY DEF GracePeriodRespected
  <2>1. s[1] \in Procs /\ s[2] \in Slots /\ Runs(s[1], s[2], j)
    BY DEF Slot, Executes, Runs
  <2>2. processing[j] \in RetryCounts
    BY <2>1, RunningIsProcessing
  <2>. QED BY <2>2, NoneAssumption DEF Processing, RetryCounts
<1>. QED BY <1>1, DeploymentInvariant, PTL

\* A lone process whose dashboard does not retry puts no failed job back
\* before its backoff has elapsed: only Retry takes a failed row away.
THEOREM BackoffRespected ==
    ASSUME Deployment, Solo, NoClicks PROVE Spec => RetriesBackOff
<1>1. DeploymentInv /\ [Next]_vars =>
         [\A j \in Jobs : Failed(j) /\ ~Failed(j)' => j \in retryDue]_vars
  <2> SUFFICES ASSUME DeploymentInv, Next, NEW j \in Jobs,
                      Failed(j), ~Failed(j)', j \notin retryDue
               PROVE  FALSE
    OBVIOUS
  <2>0. TypeOK
    BY DEF DeploymentInv, QueueInv
  <2>1. ASSUME NEW p \in Procs, NEW row \in retrier[p], Retry(p, row)
        PROVE  FALSE
    <3>1. row.job \in retryDue /\ row \in QueueRow
      BY <2>0, <2>1 DEF DeploymentInv, BatchesOK, RetrierOK, TypeOK
    <3>2. failed'[j] = failed[j]
      BY <2>0, <2>1, <3>1
         DEF Retry, RetryTx, DeleteFromFailed, TypeOK, StoreTypeOK
    <3>. QED BY <3>2 DEF Failed
  <2>2. ASSUME NEW k \in Jobs, NEW rc \in RetryCounts, FailTx(k, rc)
        PROVE  FALSE
    <3>1. /\ rc + 1 # None
          /\ failed' = failed \/ failed' = [failed EXCEPT ![k] = rc + 1]
      BY <2>2, RetryAssumption, NoneAssumption
         DEF FailTx, InsertToFailed, RetryCounts
    <3>. QED BY <2>0, <3>1 DEF Failed, TypeOK, StoreTypeOK
  <2>3. ASSUME NEW p \in Procs, NEW w \in Slots, Fail(p, w) PROVE FALSE
    <3> DEFINE k == worker[p][w].job  rc == worker[p][w].rc
    <3>1. k \in Jobs /\ rc \in RetryCounts
      BY <2>0, <2>3, InSlot DEF Fail, Runs, Executing
    <3>2. UNCHANGED failed \/ FailTx(k, rc)
      BY <2>3 DEF Fail
    <3>. QED BY <2>2, <3>1, <3>2 DEF Failed
  <2>4. ASSUME NEW p \in Procs, NEW row \in checker[p], FailOrphan(p, row)
        PROVE  FALSE
    <3>1. row.job \in Jobs /\ row.rc \in RetryCounts
      BY <2>0 DEF TypeOK, QueueRow
    <3>2. UNCHANGED failed \/ FailTx(row.job, row.rc)
      BY <2>4 DEF FailOrphan
    <3>. QED BY <2>2, <3>1, <3>2 DEF Failed
  <2>5. ASSUME NEW k \in Jobs, JobStep(k) PROVE FALSE
    <3>1. UNCHANGED failed
      BY <2>5 DEF JobStep, EnqueueNow, EnqueueLater, WebRetry, NoClicks,
                  NineSecondsPass, HeartbeatExpires, RetryTimePasses,
                  BackoffElapses, EnqueueTimePasses, ScheduleArrives
    <3>. QED BY <3>1 DEF Failed
  <2>6. ASSUME NEW p \in Procs, NEW w \in Slots, SlotStep(p, w) PROVE FALSE
    <3>1. Fail(p, w) \/ UNCHANGED failed
      BY <2>6 DEF SlotStep, Submit, PollEmpty, Dequeue, StartJob,
                  HandlerReturns, Complete, Leave, storeVars
    <3>. QED BY <2>3, <3>1 DEF Failed
  <2>7. ASSUME NEW p \in Procs, LoopStep(p) PROVE FALSE
    <3>1. \/ \E row \in retrier[p] : Retry(p, row)
          \/ \E row \in checker[p] : FailOrphan(p, row)
          \/ UNCHANGED failed
      BY <2>7 DEF LoopStep, NextFromScheduled, EnqueueScheduled,
                  NextFromFailed, Heartbeat, GetOrphans, storeVars
    <3>. QED BY <2>1, <2>4, <3>1 DEF Failed
  <2>8. ASSUME NEW p \in Procs, ProcessStep(p) PROVE FALSE
    BY <2>8 DEF ProcessStep, Start, CloseQuit, StopPool, WaitReturns, Advance,
                LoopExits, Exit, storeVars, Failed
  <2>. QED BY <2>5, <2>6, <2>7, <2>8 DEF Next
<1>. QED BY <1>1, DeploymentInvariant, PTL DEF Spec, RetriesBackOff

=============================================================================
