--------------------------- MODULE ProcessorProofs ---------------------------
(***************************************************************************)
(* What holds of Processor for every set of jobs, processes, slots and     *)
(* queues, every MaxRetry, every fault and any clock.                      *)
(***************************************************************************)
EXTENDS Processor, SequenceTheorems, TLAPS

-----------------------------------------------------------------------------
(* The enqueued table. *)

LEMMA InsertedRow ==
    ASSUME queue \in Seq(QueueRow),
           NEW j \in Jobs, NEW rc \in RetryCounts,
           InsertToQueue(j, rc)
    PROVE  /\ queue' \in Seq(QueueRow)
           /\ Queued(j)'
           /\ \A k \in Jobs : Queued(k) => Queued(k)'
<1> DEFINE row == [job |-> j, rc |-> rc]
<1>1. queue' = Append(queue, row)
  BY DEF InsertToQueue
<1>2. row \in QueueRow
  BY DEF QueueRow
<1>3. queue' \in Seq(QueueRow)
  BY <1>1, <1>2
<1>4. /\ Len(queue') = Len(queue) + 1
      /\ queue'[Len(queue) + 1] = row
      /\ \A i \in 1 .. Len(queue) : queue'[i] = queue[i]
  BY <1>1, <1>2
<1>5. /\ DOMAIN queue = 1 .. Len(queue)
      /\ DOMAIN queue' = 1 .. Len(queue')
      /\ Len(queue) \in Nat
  BY <1>3
<1> HIDE DEF row
<1>6. Queued(j)'
  BY <1>4, <1>5 DEF Queued, row
<1>7. \A k \in Jobs : Queued(k) => Queued(k)'
  BY <1>4, <1>5 DEF Queued
<1>. QED BY <1>3, <1>6, <1>7

LEMMA RemovedRow ==
    ASSUME queue \in Seq(QueueRow),
           NEW i \in DOMAIN queue,
           DeleteFromQueue(i)
    PROVE  /\ queue' \in Seq(QueueRow)
           /\ Len(queue') = Len(queue) - 1
           /\ \A k \in 1 .. i - 1 : queue'[k] = queue[k]
           /\ \A k \in i .. Len(queue) - 1 : queue'[k] = queue[k + 1]
<1> DEFINE front == SubSeq(queue, 1, i - 1)
           back  == SubSeq(queue, i + 1, Len(queue))
<1>1. queue' = front \o back
  BY DEF DeleteFromQueue, RemoveAt
<1>2. i \in 1 .. Len(queue) /\ Len(queue) \in Nat
  OBVIOUS
<1>3. /\ front \in Seq(QueueRow)
      /\ Len(front) = i - 1
      /\ \A k \in 1 .. i - 1 : front[k] = queue[k]
  BY <1>2
<1>4. /\ back \in Seq(QueueRow)
      /\ Len(back) = Len(queue) - i
      /\ \A k \in 1 .. Len(queue) - i : back[k] = queue[i + k]
  BY <1>2
<1> HIDE DEF front, back
<1>5. front \o back \in Seq(QueueRow)
  BY <1>3, <1>4
<1>6. /\ Len(front \o back) = Len(front) + Len(back)
      /\ \A k \in 1 .. Len(front) + Len(back) :
            (front \o back)[k] =
               IF k <= Len(front) THEN front[k] ELSE back[k - Len(front)]
  BY <1>3, <1>4
<1>7. \A k \in 1 .. i - 1 : queue'[k] = queue[k]
  BY <1>1, <1>2, <1>3, <1>4, <1>6
<1>8. ASSUME NEW k \in i .. Len(queue) - 1 PROVE queue'[k] = queue[k + 1]
  <2>1. /\ k \in Int /\ ~(k <= Len(front)) /\ k \in 1 .. Len(front) + Len(back)
        /\ k - Len(front) \in 1 .. Len(queue) - i
        /\ i + (k - Len(front)) = k + 1
    BY <1>2, <1>3, <1>4
  <2>2. queue'[k] = back[k - Len(front)]
    BY <2>1, <1>1, <1>6
  <2>3. back[k - Len(front)] = queue[i + (k - Len(front))]
    BY <2>1, <1>4
  <2>. QED BY <2>1, <2>2, <2>3
<1>9. queue' \in Seq(QueueRow)
  BY <1>1, <1>5
<1>10. Len(queue') = Len(queue) - 1
  BY <1>1, <1>2, <1>3, <1>4, <1>6
<1>. QED BY <1>7, <1>8, <1>9, <1>10

LEMMA RemovedJob ==
    ASSUME queue \in Seq(QueueRow),
           NEW i \in DOMAIN queue,
           DeleteFromQueue(i)
    PROVE  /\ \A k \in Jobs :
                 Queued(k) /\ k # queue[i].job => Queued(k)'
           /\ \A k \in Jobs : Queued(k)' => Queued(k)
<1>1. /\ queue' \in Seq(QueueRow)
      /\ Len(queue') = Len(queue) - 1
      /\ \A k \in 1 .. i - 1 : queue'[k] = queue[k]
      /\ \A k \in i .. Len(queue) - 1 : queue'[k] = queue[k + 1]
  BY RemovedRow
<1>2. /\ DOMAIN queue = 1 .. Len(queue)
      /\ DOMAIN queue' = 1 .. Len(queue')
      /\ Len(queue) \in Nat
  BY <1>1
<1>3. ASSUME NEW k \in Jobs, Queued(k), k # queue[i].job PROVE Queued(k)'
  <2>1. PICK n \in DOMAIN queue : queue[n].job = k
    BY <1>3 DEF Queued
  <2>2. n # i
    BY <1>3, <2>1
  <2>3. CASE n < i
    <3>1. n \in 1 .. i - 1 /\ n \in DOMAIN queue'
      BY <1>1, <1>2, <2>3
    <3>. QED BY <1>1, <2>1, <3>1 DEF Queued
  <2>4. CASE n > i
    <3>1. n - 1 \in i .. Len(queue) - 1 /\ n - 1 \in DOMAIN queue'
      BY <1>1, <1>2, <2>4
    <3>2. queue'[n - 1] = queue[n]
      BY <1>1, <1>2, <3>1
    <3>. QED BY <2>1, <3>1, <3>2 DEF Queued
  <2>. QED BY <1>2, <2>2, <2>3, <2>4
<1>4. ASSUME NEW k \in Jobs, Queued(k)' PROVE Queued(k)
  <2>1. PICK n \in DOMAIN queue' : queue'[n].job = k
    BY <1>4 DEF Queued
  <2>2. CASE n < i
    <3>1. n \in 1 .. i - 1 /\ n \in DOMAIN queue
      BY <1>1, <1>2, <2>2
    <3>. QED BY <1>1, <2>1, <3>1 DEF Queued
  <2>3. CASE n >= i
    <3>1. n \in i .. Len(queue) - 1 /\ n + 1 \in DOMAIN queue
      BY <1>1, <1>2, <2>3
    <3>. QED BY <1>1, <2>1, <3>1 DEF Queued
  <2>. QED BY <1>2, <2>2, <2>3
<1>. QED BY <1>3, <1>4

-----------------------------------------------------------------------------
(* Type correctness. *)

SlotStates == {Idle} \cup Polling \cup Holding

\* A slot whose step is known is in the part of its type with that step.
LEMMA SlotStateAt ==
    ASSUME TypeOK, NEW p \in Procs, NEW w \in Slots
    PROVE  /\ worker[p][w].pc = "polling" => worker[p][w] \in Polling
           /\ worker[p][w].pc \in Executing \cup {"leaving"} =>
                 worker[p][w] \in Holding
<1>1. worker[p][w] \in {Idle} \cup Polling \cup Holding
  BY DEF TypeOK
<1>. QED BY <1>1 DEF Idle, Polling, Holding, Executing

LEMMA IdleUpdate ==
    ASSUME TypeOK, NEW p \in Procs, NEW w \in Slots,
           NEW state \in SlotStates,
           worker' = [worker EXCEPT ![p][w] = state]
    PROVE  worker' \in [Procs -> [Slots -> {Idle} \cup Polling \cup Holding]]
BY DEF TypeOK, SlotStates

LEMMA StepUpdate ==
    ASSUME TypeOK, NEW p \in Procs, NEW w \in Slots,
           worker[p][w].pc \in Executing \cup {"leaving"},
           NEW pc \in Executing \cup {"leaving"},
           worker' = [worker EXCEPT ![p][w].pc = pc]
    PROVE  worker' \in [Procs -> [Slots -> {Idle} \cup Polling \cup Holding]]
<1>1. worker[p][w] \in Holding
  BY SlotStateAt
<1>2. [worker[p][w] EXCEPT !.pc = pc] \in Holding
  BY <1>1 DEF Holding
<1>3. worker' = [worker EXCEPT ![p][w] = [worker[p][w] EXCEPT !.pc = pc]]
  OBVIOUS
<1>. QED BY <1>2, <1>3, IdleUpdate DEF SlotStates

LEMMA SnapshotRows ==
    ASSUME TypeOK
    PROVE  StaleRows \subseteq QueueRow /\ RetryRows \subseteq QueueRow
BY DEF TypeOK, StoreTypeOK, StaleRows, RetryRows, Processing, Failed, QueueRow

LEMMA TypeInit == Init => TypeOK
BY EmptySeq, RetryAssumption
   DEF Init, StoreInit, TypeOK, StoreTypeOK, AttemptCap, Phases

LEMMA TypeJobStep ==
    ASSUME TypeOK, NEW j \in Jobs, JobStep(j)
    PROVE  TypeOK'
<1>0. 0 \in RetryCounts
  BY RetryAssumption DEF RetryCounts
<1>1. CASE EnqueueNow(j)
  <2>1. queue' \in Seq(QueueRow)
    BY <1>0, <1>1, InsertedRow DEF EnqueueNow, TypeOK, StoreTypeOK
  <2>2. call' \in [Jobs -> {"none", "ok", "error"}]
    BY <1>1 DEF EnqueueNow, TypeOK
  <2>. QED BY <1>1, <2>1, <2>2 DEF EnqueueNow, TypeOK, StoreTypeOK
<1>2. CASE EnqueueLater(j)
  BY <1>2 DEF EnqueueLater, InsertToScheduled, TypeOK, StoreTypeOK
<1>3. CASE WebRetry(j)
  <2>1. failed[j] \in RetryCounts
    BY <1>3 DEF WebRetry, Failed, TypeOK, StoreTypeOK
  <2>2. queue' \in Seq(QueueRow)
    BY <1>3, <2>1, InsertedRow DEF WebRetry, TypeOK, StoreTypeOK
  <2>. QED BY <1>3, <2>2
           DEF WebRetry, DeleteFromFailed, procVars, TypeOK, StoreTypeOK
<1>4. CASE NineSecondsPass(j)
  BY <1>4 DEF NineSecondsPass, HeartbeatExpires, procVars, TypeOK, StoreTypeOK
<1>5. CASE RetryTimePasses(j)
  BY <1>5 DEF RetryTimePasses, BackoffElapses, procVars, TypeOK, StoreTypeOK
<1>6. CASE EnqueueTimePasses(j)
  BY <1>6 DEF EnqueueTimePasses, ScheduleArrives, procVars, TypeOK, StoreTypeOK
<1>. QED BY <1>1, <1>2, <1>3, <1>4, <1>5, <1>6 DEF JobStep

\* failWithStack keeps the types, of a slot's job and of an orphan alike.
LEMMA TypeFailTx ==
    ASSUME TypeOK, NEW j \in Jobs, NEW rc \in RetryCounts, FailTx(j, rc)
    PROVE  /\ processing' \in [Jobs -> RetryCounts \cup {None}]
           /\ stale' \subseteq Jobs
           /\ failed' \in [Jobs -> RetryCounts \cup {None}]
           /\ retryDue' \subseteq Jobs
           /\ discarded' \subseteq Jobs
<1>1. /\ processing' \in [Jobs -> RetryCounts \cup {None}]
      /\ stale' \subseteq Jobs
  BY DEF FailTx, DeleteFromProcessing, TypeOK, StoreTypeOK
<1>2. CASE LastTry(rc)
  BY <1>1, <1>2 DEF FailTx, TypeOK, StoreTypeOK
<1>3. CASE ~LastTry(rc)
  <2>1. rc + 1 \in RetryCounts
    BY <1>3, RetryAssumption DEF LastTry, RetryCounts
  <2>. QED BY <1>1, <1>3, <2>1
           DEF FailTx, InsertToFailed, TypeOK, StoreTypeOK
<1>. QED BY <1>2, <1>3

LEMMA TypeSlotStep ==
    ASSUME TypeOK, NEW p \in Procs, NEW w \in Slots, SlotStep(p, w)
    PROVE  TypeOK'
<1>1. ASSUME NEW q \in Queues, Submit(p, w, q) PROVE TypeOK'
  <2>1. [Idle EXCEPT !.pc = "polling", !.queue = q] \in SlotStates
    BY DEF SlotStates, Idle, Polling
  <2>2. worker' \in [Procs -> [Slots -> {Idle} \cup Polling \cup Holding]]
    BY <1>1, <2>1, IdleUpdate DEF Submit
  <2>. QED BY <1>1, <2>2 DEF Submit, storeVars, TypeOK, StoreTypeOK
<1>2. CASE PollEmpty(p, w)
  <2>1. worker' \in [Procs -> [Slots -> {Idle} \cup Polling \cup Holding]]
    BY <1>2, IdleUpdate DEF PollEmpty, SlotStates
  <2>. QED BY <1>2, <2>1 DEF PollEmpty, storeVars, TypeOK, StoreTypeOK
<1>3. CASE Dequeue(p, w)
  <2>1. PICK i \in Oldest(worker[p][w].queue) :
          LET j == queue[i].job IN LET rc == queue[i].rc
          IN \E outcome \in Transact(Processing(j)) :
                /\ IF Applied(outcome)
                   THEN /\ DeleteFromQueue(i)
                        /\ InsertToProcessing(j, rc)
                        /\ attempts' = [attempts EXCEPT ![j] =
                                          IF @ = AttemptCap THEN @ ELSE @ + 1]
                   ELSE UNCHANGED <<queue, processing, stale, attempts>>
                /\ worker' = [worker EXCEPT ![p][w] =
                                IF Erroneous(outcome)
                                THEN Idle
                                ELSE [Idle EXCEPT !.pc = "taken", !.job = j,
                                                  !.rc = rc]]
    BY <1>3 DEF Dequeue
  <2> DEFINE j == queue[i].job
             rc == queue[i].rc
  <2>2. i \in DOMAIN queue
    BY DEF Oldest
  <2>3. j \in Jobs /\ rc \in RetryCounts
    <3>1. queue \in Seq(QueueRow) /\ i \in 1 .. Len(queue)
      BY <2>2 DEF TypeOK, StoreTypeOK
    <3>2. queue[i] \in QueueRow
      BY <3>1, ElementOfSeq
    <3>. QED BY <3>2 DEF QueueRow
  <2>4. queue' \in Seq(QueueRow)
    BY <2>1, <2>2, RemovedRow DEF TypeOK, StoreTypeOK
  <2>5. /\ processing' \in [Jobs -> RetryCounts \cup {None}]
        /\ stale' \subseteq Jobs
    BY <2>1, <2>3 DEF InsertToProcessing, TypeOK, StoreTypeOK
  <2>6. attempts' \in [Jobs -> 0 .. AttemptCap]
    <3>1. attempts[j] \in 0 .. AttemptCap /\ AttemptCap \in Nat
      BY <2>3, RetryAssumption DEF TypeOK, AttemptCap
    <3>2. (IF attempts[j] = AttemptCap THEN attempts[j] ELSE attempts[j] + 1)
             \in 0 .. AttemptCap
      BY <3>1
    <3>3. \/ attempts' = attempts
          \/ attempts' = [attempts EXCEPT ![j] =
                             IF @ = AttemptCap THEN @ ELSE @ + 1]
      BY <2>1
    <3>. QED BY <3>2, <3>3 DEF TypeOK
  <2>7. [Idle EXCEPT !.pc = "taken", !.job = j, !.rc = rc] \in SlotStates
    BY <2>3 DEF SlotStates, Idle, Holding, Executing
  <2>8. worker' \in [Procs -> [Slots -> {Idle} \cup Polling \cup Holding]]
    BY <2>1, <2>7, IdleUpdate DEF SlotStates
  <2>. QED BY <1>3, <2>4, <2>5, <2>6, <2>8 DEF Dequeue, TypeOK, StoreTypeOK
<1>4. CASE StartJob(p, w)
  <2>1. worker[p][w] \in Holding
    BY <1>4, SlotStateAt DEF StartJob, Executing
  <2>2. worker' \in [Procs -> [Slots -> {Idle} \cup Polling \cup Holding]]
    BY <1>4, StepUpdate DEF StartJob, Executing
  <2>3. inMemory' \in [Procs -> SUBSET Jobs]
    BY <1>4, <2>1 DEF StartJob, Holding, TypeOK
  <2>. QED BY <1>4, <2>2, <2>3 DEF StartJob, storeVars, TypeOK, StoreTypeOK
<1>5. CASE HandlerReturns(p, w)
  <2>1. worker' \in [Procs -> [Slots -> {Idle} \cup Polling \cup Holding]]
    <3>1. PICK pc \in {"completing", "failing"} :
             worker' = [worker EXCEPT ![p][w].pc = pc]
      BY <1>5 DEF HandlerReturns
    <3>. QED BY <1>5, <3>1, StepUpdate DEF HandlerReturns, Executing
  <2>. QED BY <1>5, <2>1 DEF HandlerReturns, storeVars, TypeOK, StoreTypeOK
<1>6. CASE Complete(p, w)
  <2>1. worker[p][w].job \in Jobs
    BY <1>6, SlotStateAt DEF Complete, Executing, Holding
  <2>2. worker' \in [Procs -> [Slots -> {Idle} \cup Polling \cup Holding]]
    <3>1. PICK pc \in {"failing", "leaving"} :
             worker' = [worker EXCEPT ![p][w].pc = pc]
      BY <1>6 DEF Complete
    <3>. QED BY <1>6, <3>1, StepUpdate DEF Complete, Executing
  <2>3. /\ processed' \subseteq Jobs
        /\ processing' \in [Jobs -> RetryCounts \cup {None}]
        /\ stale' \subseteq Jobs
    <3>1. \/ /\ InsertToProcessed(worker[p][w].job)
             /\ DeleteFromProcessing(worker[p][w].job)
          \/ UNCHANGED <<processed, processing, stale>>
      BY <1>6 DEF Complete
    <3>. QED BY <2>1, <3>1 DEF InsertToProcessed, DeleteFromProcessing,
                               TypeOK, StoreTypeOK
  <2>. QED BY <1>6, <2>2, <2>3 DEF Complete, TypeOK, StoreTypeOK
<1>7. CASE Fail(p, w)
  <2>1. worker[p][w].job \in Jobs /\ worker[p][w].rc \in RetryCounts
    BY <1>7, SlotStateAt DEF Fail, Executing, Holding
  <2>2. worker' \in [Procs -> [Slots -> {Idle} \cup Polling \cup Holding]]
    BY <1>7, StepUpdate DEF Fail, Executing
  <2>3. /\ processing' \in [Jobs -> RetryCounts \cup {None}]
        /\ stale' \subseteq Jobs
        /\ failed' \in [Jobs -> RetryCounts \cup {None}]
        /\ retryDue' \subseteq Jobs
        /\ discarded' \subseteq Jobs
    <3>1. \/ FailTx(worker[p][w].job, worker[p][w].rc)
          \/ UNCHANGED <<processing, stale, failed, retryDue, discarded>>
      BY <1>7 DEF Fail
    <3>. QED BY <2>1, <3>1, TypeFailTx DEF TypeOK, StoreTypeOK
  <2>. QED BY <1>7, <2>2, <2>3 DEF Fail, TypeOK, StoreTypeOK
<1>8. CASE Leave(p, w)
  <2>1. worker' \in [Procs -> [Slots -> {Idle} \cup Polling \cup Holding]]
    BY <1>8, IdleUpdate DEF Leave, SlotStates
  <2>2. inMemory' \in [Procs -> SUBSET Jobs]
    BY <1>8 DEF Leave, TypeOK
  <2>. QED BY <1>8, <2>1, <2>2 DEF Leave, storeVars, TypeOK, StoreTypeOK
<1>. QED BY <1>1, <1>2, <1>3, <1>4, <1>5, <1>6, <1>7, <1>8 DEF SlotStep

LEMMA TypeLoopStep ==
    ASSUME TypeOK, NEW p \in Procs, LoopStep(p)
    PROVE  TypeOK'
<1>1. CASE NextFromScheduled(p)
  BY <1>1 DEF NextFromScheduled, storeVars, TypeOK, StoreTypeOK
<1>2. ASSUME NEW j \in mover[p], EnqueueScheduled(p, j) PROVE TypeOK'
  <2>1. j \in Jobs /\ 0 \in RetryCounts
    BY RetryAssumption DEF TypeOK, RetryCounts
  <2>2. queue' \in Seq(QueueRow)
    BY <1>2, <2>1, InsertedRow DEF EnqueueScheduled, TypeOK, StoreTypeOK
  <2>3. scheduled' \subseteq Jobs /\ due' \subseteq scheduled'
    BY <1>2 DEF EnqueueScheduled, DeleteFromScheduled, TypeOK, StoreTypeOK
  <2>4. mover' \in [Procs -> SUBSET Jobs]
    BY <1>2 DEF EnqueueScheduled, TypeOK
  <2>. QED BY <1>2, <2>2, <2>3, <2>4 DEF EnqueueScheduled, TypeOK, StoreTypeOK
<1>3. CASE NextFromFailed(p)
  BY <1>3, SnapshotRows DEF NextFromFailed, storeVars, TypeOK, StoreTypeOK
<1>4. ASSUME NEW row \in retrier[p], Retry(p, row) PROVE TypeOK'
  <2>1. row.job \in Jobs /\ row.rc \in RetryCounts
    BY DEF TypeOK, QueueRow
  <2>2. retrier' \in [Procs -> SUBSET QueueRow]
    BY <1>4 DEF Retry, TypeOK
  <2>3. /\ failed' \in [Jobs -> RetryCounts \cup {None}]
        /\ retryDue' \subseteq Jobs
        /\ queue' \in Seq(QueueRow)
    <3>1. CASE UNCHANGED <<failed, retryDue, queue>>
      BY <3>1 DEF TypeOK, StoreTypeOK
    <3>2. CASE RetryTx(row) /\ ~(HasClaimer /\ ~Failed(row.job))
      <4>1. (IF HasClaimer THEN failed[row.job] ELSE row.rc) \in RetryCounts
        BY <2>1, <3>2 DEF Failed, TypeOK, StoreTypeOK
      <4>2. queue' \in Seq(QueueRow)
        BY <2>1, <3>2, <4>1, InsertedRow DEF RetryTx, TypeOK, StoreTypeOK
      <4>3. /\ failed' \in [Jobs -> RetryCounts \cup {None}]
            /\ retryDue' \subseteq Jobs
        BY <2>1, <3>2 DEF RetryTx, DeleteFromFailed, TypeOK, StoreTypeOK
      <4>. QED BY <4>2, <4>3
    <3>. QED BY <1>4, <3>1, <3>2 DEF Retry, RetryTx
  <2>. QED BY <1>4, <2>2, <2>3 DEF Retry, TypeOK, StoreTypeOK
<1>5. ASSUME NEW j \in inMemory[p], Heartbeat(p, j) PROVE TypeOK'
  BY <1>5 DEF Heartbeat, EmitHeartbeat, procVars, TypeOK, StoreTypeOK
<1>6. CASE GetOrphans(p)
  BY <1>6, SnapshotRows DEF GetOrphans, storeVars, TypeOK, StoreTypeOK
<1>7. ASSUME NEW row \in checker[p], FailOrphan(p, row) PROVE TypeOK'
  <2>1. row.job \in Jobs /\ row.rc \in RetryCounts
    BY DEF TypeOK, QueueRow
  <2>2. /\ checker' \in [Procs -> SUBSET QueueRow]
        /\ loops' \in [Procs -> SUBSET (Loops \cup Queues)]
    BY <1>7 DEF FailOrphan, TypeOK
  <2>3. /\ processing' \in [Jobs -> RetryCounts \cup {None}]
        /\ stale' \subseteq Jobs
        /\ failed' \in [Jobs -> RetryCounts \cup {None}]
        /\ retryDue' \subseteq Jobs
        /\ discarded' \subseteq Jobs
    <3>1. \/ FailTx(row.job, row.rc)
          \/ UNCHANGED <<processing, stale, failed, retryDue, discarded>>
      BY <1>7 DEF FailOrphan
    <3>. QED BY <2>1, <3>1, TypeFailTx DEF TypeOK, StoreTypeOK
  <2>. QED BY <1>7, <2>2, <2>3 DEF FailOrphan, TypeOK, StoreTypeOK
<1>. QED BY <1>1, <1>2, <1>3, <1>4, <1>5, <1>6, <1>7 DEF LoopStep

LEMMA TypeProcessStep ==
    ASSUME TypeOK, NEW p \in Procs, ProcessStep(p)
    PROVE  TypeOK'
<1>1. CASE Start(p)
  BY <1>1, ListenAssumption
     DEF Start, Phases, storeVars, TypeOK, StoreTypeOK
<1>2. ASSUME NEW from, NEW to \in Phases, Advance(p, from, to) PROVE TypeOK'
  BY <1>2 DEF Advance, storeVars, TypeOK, StoreTypeOK
<1>3. CASE CloseQuit(p) \/ StopPool(p) \/ WaitReturns(p)
  BY <1>2, <1>3 DEF CloseQuit, StopPool, WaitReturns, Phases
<1>4. ASSUME NEW l \in loops[p], LoopExits(p, l) PROVE TypeOK'
  BY <1>4 DEF LoopExits, storeVars, TypeOK, StoreTypeOK
<1>5. CASE Exit(p)
  <2>1. worker' \in [Procs -> [Slots -> {Idle} \cup Polling \cup Holding]]
    BY <1>5 DEF Exit, TypeOK
  <2>2. /\ proc' \in [Procs -> Phases]
        /\ loops' \in [Procs -> SUBSET (Loops \cup Queues)]
        /\ inMemory' \in [Procs -> SUBSET Jobs]
        /\ mover' \in [Procs -> SUBSET Jobs]
        /\ retrier' \in [Procs -> SUBSET QueueRow]
        /\ checker' \in [Procs -> SUBSET QueueRow]
    BY <1>5 DEF Exit, Phases, TypeOK
  <2>. QED BY <1>5, <2>1, <2>2 DEF Exit, storeVars, TypeOK, StoreTypeOK
<1>. QED BY <1>1, <1>3, <1>4, <1>5 DEF ProcessStep

LEMMA TypeStep == TypeOK /\ [Next]_vars => TypeOK'
<1>1. ASSUME TypeOK, UNCHANGED vars PROVE TypeOK'
  BY <1>1 DEF vars, storeVars, procVars, TypeOK, StoreTypeOK
<1>. QED BY <1>1, TypeJobStep, TypeSlotStep, TypeLoopStep, TypeProcessStep
         DEF Next

\* Every variable keeps its type, and with it every slot that holds a job
\* knows its ID and a retry count the tables can store.
THEOREM TypeCorrect == Spec => []TypeOK
BY TypeInit, TypeStep, PTL DEF Spec

-----------------------------------------------------------------------------
(* No accepted job is lost.                                                *)
(*                                                                         *)
(* NoJobLost itself is inductive over the types: every transaction that    *)
(* deletes a row of a job writes another row of it, or discards it.        *)

LEMMA FailTxStores ==
    ASSUME TypeOK, NEW j \in Jobs, NEW rc \in RetryCounts, FailTx(j, rc),
           UNCHANGED <<scheduled, queue, processed>>,
           NEW k \in Jobs, Stored(k)
    PROVE  Stored(k)'
<1>1. /\ k # j => processing'[k] = processing[k]
      /\ UNCHANGED Queued(k)
  BY DEF FailTx, DeleteFromProcessing, Queued, TypeOK, StoreTypeOK
<1>2. CASE LastTry(rc)
  <2>1. /\ discarded' = discarded \cup {j}
        /\ failed' = failed
    BY <1>2 DEF FailTx
  <2>. QED BY <1>1, <2>1 DEF Stored, Processing, Failed
<1>3. CASE ~LastTry(rc)
  <2>1. /\ discarded' = discarded
        /\ failed' = [failed EXCEPT ![j] = rc + 1]
    BY <1>3 DEF FailTx, InsertToFailed
  <2>2. rc + 1 # None
    BY NoneAssumption, RetryAssumption DEF RetryCounts
  <2>3. /\ failed'[j] # None
        /\ k # j => failed'[k] = failed[k]
    BY <2>1, <2>2 DEF TypeOK, StoreTypeOK
  <2>. QED BY <1>1, <2>1, <2>3 DEF Stored, Processing, Failed
<1>. QED BY <1>2, <1>3

LEMMA SameStoreStores ==
    ASSUME UNCHANGED <<scheduled, queue, processing, processed, failed,
                       discarded>>,
           NEW k \in Jobs, Stored(k)
    PROVE  Stored(k)'
BY DEF Stored, Queued, Processing, Failed

LEMMA JobStepStores ==
    ASSUME TypeOK, NEW j \in Jobs, JobStep(j), NEW k \in Jobs, Stored(k)
    PROVE  Stored(k)'
<1>0. 0 \in RetryCounts
  BY RetryAssumption DEF RetryCounts
<1>1. CASE EnqueueNow(j)
  <2>1. UNCHANGED queue \/ InsertToQueue(j, 0)
    BY <1>1 DEF EnqueueNow
  <2>2. Queued(k) => Queued(k)'
    BY <1>0, <2>1, InsertedRow DEF Queued, TypeOK, StoreTypeOK
  <2>. QED BY <1>1, <2>2 DEF EnqueueNow, Stored, Processing, Failed
<1>2. CASE EnqueueLater(j)
  <2>1. scheduled \subseteq scheduled' /\ UNCHANGED Queued(k)
    BY <1>2 DEF EnqueueLater, InsertToScheduled, Queued
  <2>. QED BY <1>2, <2>1 DEF EnqueueLater, Stored, Processing, Failed
<1>3. CASE WebRetry(j)
  <2>1. CASE UNCHANGED <<failed, retryDue, queue>>
    BY <1>3, <2>1, SameStoreStores DEF WebRetry
  <2>2. CASE DeleteFromFailed(j) /\ InsertToQueue(j, failed[j])
    <3>1. failed[j] \in RetryCounts
      BY <1>3 DEF WebRetry, Failed, TypeOK, StoreTypeOK
    <3>2. Queued(j)' /\ (Queued(k) => Queued(k)')
      BY <2>2, <3>1, InsertedRow DEF TypeOK, StoreTypeOK
    <3>3. k # j => failed'[k] = failed[k]
      BY <2>2 DEF DeleteFromFailed, TypeOK, StoreTypeOK
    <3>. QED BY <1>3, <3>2, <3>3 DEF WebRetry, Stored, Processing, Failed
  <2>. QED BY <1>3, <2>1, <2>2 DEF WebRetry
<1>4. CASE NineSecondsPass(j)
  BY <1>4, SameStoreStores DEF NineSecondsPass, HeartbeatExpires
<1>5. CASE RetryTimePasses(j)
  BY <1>5, SameStoreStores DEF RetryTimePasses, BackoffElapses
<1>6. CASE EnqueueTimePasses(j)
  BY <1>6, SameStoreStores DEF EnqueueTimePasses, ScheduleArrives
<1>. QED BY <1>1, <1>2, <1>3, <1>4, <1>5, <1>6 DEF JobStep

\* What Dequeue does, with the row it takes named.
LEMMA DequeuedRow ==
    ASSUME TypeOK, NEW p \in Procs, NEW w \in Slots, Dequeue(p, w)
    PROVE  \E i \in DOMAIN queue :
             /\ queue[i].job \in Jobs
             /\ queue[i].rc \in RetryCounts
             /\ \/ UNCHANGED <<queue, processing>>
                \/ /\ DeleteFromQueue(i)
                   /\ processing' =
                         [processing EXCEPT ![queue[i].job] = queue[i].rc]
             /\ \/ worker' = [worker EXCEPT ![p][w] = Idle]
                \/ worker' = [worker EXCEPT ![p][w] =
                                [Idle EXCEPT !.pc = "taken",
                                             !.job = queue[i].job,
                                             !.rc = queue[i].rc]]
<1>1. PICK i \in Oldest(worker[p][w].queue) :
        /\ \/ UNCHANGED <<queue, processing>>
           \/ /\ DeleteFromQueue(i)
              /\ processing' = [processing EXCEPT ![queue[i].job] = queue[i].rc]
        /\ \/ worker' = [worker EXCEPT ![p][w] = Idle]
           \/ worker' = [worker EXCEPT ![p][w] =
                           [Idle EXCEPT !.pc = "taken",
                                        !.job = queue[i].job,
                                        !.rc = queue[i].rc]]
  BY DEF Dequeue, InsertToProcessing
<1>2. queue \in Seq(QueueRow) /\ i \in 1 .. Len(queue) /\ i \in DOMAIN queue
  BY DEF Oldest, TypeOK, StoreTypeOK
<1>3. queue[i] \in QueueRow
  BY <1>2, ElementOfSeq
<1>. QED BY <1>1, <1>2, <1>3 DEF QueueRow

LEMMA SlotStepStores ==
    ASSUME TypeOK, NEW p \in Procs, NEW w \in Slots, SlotStep(p, w),
           NEW k \in Jobs, Stored(k)
    PROVE  Stored(k)'
<1>1. CASE UNCHANGED storeVars
  BY <1>1, SameStoreStores DEF storeVars
<1>2. CASE Dequeue(p, w)
  <2>1. PICK i \in DOMAIN queue :
          /\ queue[i].job \in Jobs
          /\ queue[i].rc \in RetryCounts
          /\ \/ UNCHANGED <<queue, processing>>
             \/ /\ DeleteFromQueue(i)
                /\ processing' = [processing EXCEPT ![queue[i].job] = queue[i].rc]
    BY <1>2, DequeuedRow
  <2>2. CASE UNCHANGED <<queue, processing>>
    BY <1>2, <2>2, SameStoreStores DEF Dequeue
  <2>3. CASE /\ DeleteFromQueue(i)
             /\ processing' = [processing EXCEPT ![queue[i].job] = queue[i].rc]
    <3>1. Queued(k) /\ k # queue[i].job => Queued(k)'
      BY <2>3, RemovedJob DEF TypeOK, StoreTypeOK
    <3>2. queue[i].rc # None
      BY <2>1, NoneAssumption DEF RetryCounts
    <3>3. /\ processing'[queue[i].job] # None
          /\ k # queue[i].job => processing'[k] = processing[k]
      BY <2>1, <2>3, <3>2 DEF TypeOK, StoreTypeOK
    <3>. QED BY <1>2, <3>1, <3>3 DEF Dequeue, Stored, Processing, Failed
  <2>. QED BY <2>1, <2>2, <2>3
<1>3. CASE Complete(p, w)
  <2> DEFINE j == worker[p][w].job
  <2>1. CASE UNCHANGED <<processed, processing, stale>>
    BY <1>3, <2>1, SameStoreStores DEF Complete
  <2>2. CASE InsertToProcessed(j) /\ DeleteFromProcessing(j)
    <3>1. /\ processed' = processed \cup {j}
          /\ k # j => processing'[k] = processing[k]
      BY <2>2 DEF InsertToProcessed, DeleteFromProcessing, TypeOK, StoreTypeOK
    <3>. QED BY <1>3, <3>1 DEF Complete, Stored, Queued, Processing, Failed
  <2>. QED BY <1>3, <2>1, <2>2 DEF Complete
<1>4. CASE Fail(p, w)
  <2>1. worker[p][w].job \in Jobs /\ worker[p][w].rc \in RetryCounts
    BY <1>4, SlotStateAt DEF Fail, Executing, Holding
  <2>2. \/ FailTx(worker[p][w].job, worker[p][w].rc)
        \/ UNCHANGED <<processing, stale, failed, retryDue, discarded>>
    BY <1>4 DEF Fail
  <2>3. UNCHANGED <<scheduled, queue, processed>>
    BY <1>4 DEF Fail
  <2>. QED BY <2>1, <2>2, <2>3, FailTxStores, SameStoreStores
<1>. QED BY <1>1, <1>2, <1>3, <1>4
         DEF SlotStep, Submit, PollEmpty, StartJob, HandlerReturns, Leave

LEMMA LoopStepStores ==
    ASSUME TypeOK, NEW p \in Procs, LoopStep(p), NEW k \in Jobs, Stored(k)
    PROVE  Stored(k)'
<1>1. CASE UNCHANGED storeVars
  BY <1>1, SameStoreStores DEF storeVars
<1>2. ASSUME NEW j \in mover[p], EnqueueScheduled(p, j) PROVE Stored(k)'
  <2>1. j \in Jobs /\ 0 \in RetryCounts
    BY RetryAssumption DEF TypeOK, RetryCounts
  <2>2. CASE UNCHANGED <<scheduled, due, queue>>
    BY <1>2, <2>2, SameStoreStores DEF EnqueueScheduled
  <2>3. CASE DeleteFromScheduled(j) /\ InsertToQueue(j, 0)
    <3>1. Queued(j)' /\ (Queued(k) => Queued(k)')
      BY <2>1, <2>3, InsertedRow DEF TypeOK, StoreTypeOK
    <3>. QED BY <1>2, <2>3, <3>1
             DEF EnqueueScheduled, DeleteFromScheduled, Stored, Processing,
                 Failed
  <2>. QED BY <1>2, <2>2, <2>3 DEF EnqueueScheduled
<1>3. ASSUME NEW row \in retrier[p], Retry(p, row) PROVE Stored(k)'
  <2>1. row.job \in Jobs /\ row.rc \in RetryCounts
    BY DEF TypeOK, QueueRow
  <2>2. CASE UNCHANGED <<failed, retryDue, queue>>
    BY <1>3, <2>2, SameStoreStores DEF Retry
  <2>3. CASE RetryTx(row) /\ ~(HasClaimer /\ ~Failed(row.job))
    <3>1. (IF HasClaimer THEN failed[row.job] ELSE row.rc) \in RetryCounts
      BY <2>1, <2>3 DEF Failed, TypeOK, StoreTypeOK
    <3>2. Queued(row.job)' /\ (Queued(k) => Queued(k)')
      <4>1. CASE Queued(row.job)
        BY <2>3, <4>1 DEF RetryTx, Queued
      <4>2. CASE ~Queued(row.job)
        BY <2>1, <2>3, <3>1, <4>2, InsertedRow DEF RetryTx, TypeOK, StoreTypeOK
      <4>. QED BY <4>1, <4>2
    <3>3. k # row.job => failed'[k] = failed[k]
      BY <2>3 DEF RetryTx, DeleteFromFailed, TypeOK, StoreTypeOK
    <3>. QED BY <1>3, <3>2, <3>3 DEF Retry, Stored, Processing, Failed
  <2>. QED BY <1>3, <2>2, <2>3 DEF Retry, RetryTx
<1>4. ASSUME NEW j \in inMemory[p], Heartbeat(p, j) PROVE Stored(k)'
  BY <1>4, SameStoreStores DEF Heartbeat
<1>5. ASSUME NEW row \in checker[p], FailOrphan(p, row) PROVE Stored(k)'
  <2>1. row.job \in Jobs /\ row.rc \in RetryCounts
    BY DEF TypeOK, QueueRow
  <2>2. \/ FailTx(row.job, row.rc)
        \/ UNCHANGED <<processing, stale, failed, retryDue, discarded>>
    BY <1>5 DEF FailOrphan
  <2>3. UNCHANGED <<scheduled, queue, processed>>
    BY <1>5 DEF FailOrphan
  <2>. QED BY <2>1, <2>2, <2>3, FailTxStores, SameStoreStores
<1>. QED BY <1>1, <1>2, <1>3, <1>4, <1>5
         DEF LoopStep, NextFromScheduled, NextFromFailed, GetOrphans

LEMMA ProcessStepStores ==
    ASSUME NEW p \in Procs, ProcessStep(p), NEW k \in Jobs, Stored(k)
    PROVE  Stored(k)'
<1>1. UNCHANGED storeVars
  BY DEF ProcessStep, Start, CloseQuit, StopPool, WaitReturns, Advance,
         LoopExits, Exit
<1>. QED BY <1>1, SameStoreStores DEF storeVars

\* Once a job is stored it stays stored.
LEMMA StoredStays ==
    ASSUME TypeOK, [Next]_vars, NEW k \in Jobs, Stored(k)
    PROVE  Stored(k)'
<1>1. CASE UNCHANGED vars
  BY <1>1, SameStoreStores DEF vars, storeVars
<1>. QED BY <1>1, JobStepStores, SlotStepStores, LoopStepStores,
            ProcessStepStores DEF Next

\* Enqueue only returns nil for a job it has stored.
LEMMA AcceptedStored ==
    ASSUME TypeOK, [Next]_vars, NEW k \in Jobs, call[k] # "ok", call'[k] = "ok"
    PROVE  Stored(k)'
<1>1. PICK j \in Jobs : EnqueueNow(j) \/ EnqueueLater(j)
  <2>1. ASSUME NEW j \in Jobs, JobStep(j)
        PROVE  call' = call \/ EnqueueNow(j) \/ EnqueueLater(j)
    BY <2>1 DEF JobStep, WebRetry, NineSecondsPass, RetryTimePasses,
                EnqueueTimePasses, procVars
  <2>2. ASSUME NEW p \in Procs, NEW w \in Slots, SlotStep(p, w)
        PROVE  call' = call
    BY <2>2 DEF SlotStep, Submit, PollEmpty, Dequeue, StartJob,
                HandlerReturns, Complete, Fail, Leave
  <2>3. ASSUME NEW p \in Procs, LoopStep(p) PROVE call' = call
    BY <2>3 DEF LoopStep, NextFromScheduled, EnqueueScheduled,
                NextFromFailed, Retry, Heartbeat, GetOrphans, FailOrphan,
                procVars
  <2>4. ASSUME NEW p \in Procs, ProcessStep(p) PROVE call' = call
    BY <2>4 DEF ProcessStep, Start, CloseQuit, StopPool, WaitReturns,
                Advance, LoopExits, Exit
  <2>5. ASSUME UNCHANGED vars PROVE call' = call
    BY <2>5 DEF vars, procVars
  <2>. QED BY <2>1, <2>2, <2>3, <2>4, <2>5 DEF Next
<1>2. 0 \in RetryCounts
  BY RetryAssumption DEF RetryCounts
<1>3. CASE EnqueueNow(j)
  <2>1. k = j
    BY <1>3 DEF EnqueueNow, TypeOK
  <2>2. InsertToQueue(j, 0)
    BY <1>3, <2>1 DEF EnqueueNow, Applied, Erroneous, TypeOK
  <2>. QED BY <1>2, <2>1, <2>2, InsertedRow DEF Stored, TypeOK, StoreTypeOK
<1>4. CASE EnqueueLater(j)
  <2>1. k = j
    BY <1>4 DEF EnqueueLater, TypeOK
  <2>2. InsertToScheduled(j)
    BY <1>4, <2>1 DEF EnqueueLater, Applied, Erroneous, TypeOK
  <2>. QED BY <2>1, <2>2 DEF InsertToScheduled, Stored
<1>. QED BY <1>1, <1>3, <1>4

LEMMA NoJobLostStep == TypeOK /\ NoJobLost /\ [Next]_vars => NoJobLost'
<1> SUFFICES ASSUME TypeOK, NoJobLost, [Next]_vars,
                    NEW k \in Jobs, call'[k] = "ok"
             PROVE  Stored(k)'
  BY DEF NoJobLost
<1>1. CASE call[k] = "ok"
  BY <1>1, StoredStays DEF NoJobLost
<1>2. CASE call[k] # "ok"
  BY <1>2, AcceptedStored
<1>. QED BY <1>1, <1>2

\* A job whose Enqueue returned nil is in a table or was discarded, whatever
\* commits lose their answer, processes crash or clocks do.
THEOREM AcceptedJobsKept == Spec => []NoJobLost
<1>1. Init => NoJobLost
  BY DEF Init, NoJobLost
<1>. QED BY <1>1, TypeCorrect, NoJobLostStep, PTL DEF Spec

-----------------------------------------------------------------------------
(* No job is queued twice.                                                 *)
(*                                                                         *)
(* Every writer of the queue but EnqueueAt tests for a queued copy.        *)
(* EnqueueAt relies on its ID being fresh, so the invariant carries that   *)
(* a job nobody has enqueued is in no table, no batch and no slot.         *)

TableFree(j) ==
    /\ j \notin scheduled
    /\ ~Queued(j)
    /\ ~Processing(j)
    /\ ~Failed(j)

MemoryFree(j) ==
    \A p \in Procs :
        /\ j \notin mover[p]
        /\ \A row \in checker[p] \cup retrier[p] : row.job # j
        /\ \A w \in Slots : worker[p][w].job # j

FreshUntouched == \A j \in Jobs : call[j] = "none" => TableFree(j) /\ MemoryFree(j)

QueueInv == TypeOK /\ FreshUntouched /\ QueuedOnce

LEMMA InsertedOnly ==
    ASSUME queue \in Seq(QueueRow),
           NEW j \in Jobs, NEW rc \in RetryCounts,
           InsertToQueue(j, rc)
    PROVE  /\ \A k \in Jobs : k # j /\ ~Queued(k) => ~Queued(k)'
           /\ QueuedOnce /\ ~Queued(j) => QueuedOnce'
<1> DEFINE row == [job |-> j, rc |-> rc]
<1>1. row \in QueueRow /\ row.job = j
  BY DEF QueueRow
<1>2. queue' = Append(queue, row)
  BY DEF InsertToQueue
<1> HIDE DEF row
<1>3. /\ queue' \in Seq(QueueRow)
      /\ Len(queue') = Len(queue) + 1
      /\ queue'[Len(queue) + 1] = row
      /\ \A i \in 1 .. Len(queue) : queue'[i] = queue[i]
  BY <1>1, <1>2
<1>4. /\ DOMAIN queue = 1 .. Len(queue)
      /\ DOMAIN queue' = 1 .. Len(queue) + 1
      /\ Len(queue) \in Nat
  BY <1>3
<1>5. ASSUME NEW k \in Jobs, k # j, ~Queued(k) PROVE ~Queued(k)'
  BY <1>1, <1>3, <1>4, <1>5 DEF Queued
<1>6. ASSUME QueuedOnce, ~Queued(j) PROVE QueuedOnce'
  <2> SUFFICES ASSUME NEW i \in DOMAIN queue', NEW k \in DOMAIN queue',
                      queue'[i].job = queue'[k].job
               PROVE  i = k
    BY DEF QueuedOnce
  <2>1. CASE i \in DOMAIN queue /\ k \in DOMAIN queue
    BY <1>3, <1>4, <1>6, <2>1 DEF QueuedOnce
  <2>2. CASE i \in DOMAIN queue /\ k = Len(queue) + 1
    BY <1>1, <1>3, <1>4, <1>6, <2>2 DEF Queued
  <2>3. CASE i = Len(queue) + 1 /\ k \in DOMAIN queue
    BY <1>1, <1>3, <1>4, <1>6, <2>3 DEF Queued
  <2>. QED BY <1>4, <2>1, <2>2, <2>3
<1>. QED BY <1>5, <1>6

LEMMA RemovedOnce ==
    ASSUME queue \in Seq(QueueRow), QueuedOnce,
           NEW i \in DOMAIN queue,
           DeleteFromQueue(i)
    PROVE  QueuedOnce'
<1> DEFINE old(k) == IF k < i THEN k ELSE k + 1
<1>1. /\ queue' \in Seq(QueueRow)
      /\ Len(queue') = Len(queue) - 1
      /\ \A k \in 1 .. i - 1 : queue'[k] = queue[k]
      /\ \A k \in i .. Len(queue) - 1 : queue'[k] = queue[k + 1]
  BY RemovedRow
<1>2. /\ DOMAIN queue = 1 .. Len(queue)
      /\ DOMAIN queue' = 1 .. Len(queue) - 1
      /\ Len(queue) \in Nat
  BY <1>1
<1>3. ASSUME NEW k \in DOMAIN queue'
      PROVE  old(k) \in DOMAIN queue /\ queue'[k] = queue[old(k)]
  <2>1. CASE k < i
    BY <1>1, <1>2, <2>1
  <2>2. CASE ~(k < i)
    <3>1. k \in i .. Len(queue) - 1
      BY <1>2, <2>2
    <3>. QED BY <1>1, <1>2, <2>2, <3>1
  <2>. QED BY <2>1, <2>2
<1>4. \A k, n \in DOMAIN queue' : old(k) = old(n) => k = n
  BY <1>2
<1> HIDE DEF old
<1>. QED BY <1>3, <1>4 DEF QueuedOnce

\* Steps that leave the queue alone.
LEMMA SameQueueOnce ==
    ASSUME QueuedOnce, UNCHANGED queue
    PROVE  QueuedOnce'
BY DEF QueuedOnce

LEMMA QueuedOnceStep ==
    ASSUME QueueInv, [Next]_vars
    PROVE  QueuedOnce'
<1> USE DEF QueueInv
<1>0. queue \in Seq(QueueRow) /\ 0 \in RetryCounts
  BY RetryAssumption DEF TypeOK, StoreTypeOK, RetryCounts
<1>1. ASSUME NEW j \in Jobs, JobStep(j) PROVE QueuedOnce'
  <2>1. CASE EnqueueNow(j)
    <3>1. ~Queued(j)
      BY <2>1 DEF EnqueueNow, FreshUntouched, TableFree
    <3>2. InsertToQueue(j, 0) \/ UNCHANGED queue
      BY <2>1 DEF EnqueueNow
    <3>. QED BY <1>0, <3>1, <3>2, InsertedOnly, SameQueueOnce
  <2>2. CASE WebRetry(j)
    <3>1. failed[j] \in RetryCounts
      BY <2>2 DEF WebRetry, Failed, TypeOK, StoreTypeOK
    <3>2. \/ InsertToQueue(j, failed[j]) /\ ~Queued(j)
          \/ UNCHANGED queue
      BY <2>2 DEF WebRetry, Transact, Applied
    <3>. QED BY <1>0, <3>1, <3>2, InsertedOnly, SameQueueOnce
  <2>3. CASE UNCHANGED queue
    BY <2>3, SameQueueOnce
  <2>. QED BY <1>1, <2>1, <2>2, <2>3
           DEF JobStep, EnqueueLater, NineSecondsPass, HeartbeatExpires,
               RetryTimePasses, BackoffElapses, EnqueueTimePasses,
               ScheduleArrives
<1>2. ASSUME NEW p \in Procs, NEW w \in Slots, SlotStep(p, w)
      PROVE  QueuedOnce'
  <2>1. CASE Dequeue(p, w)
    <3>1. \E i \in DOMAIN queue : DeleteFromQueue(i) \/ UNCHANGED queue
      BY <2>1, DequeuedRow
    <3>. QED BY <1>0, <3>1, RemovedOnce, SameQueueOnce
  <2>2. CASE UNCHANGED queue
    BY <2>2, SameQueueOnce
  <2>. QED BY <1>2, <2>1, <2>2
           DEF SlotStep, Submit, PollEmpty, StartJob, HandlerReturns,
               Complete, Fail, Leave, storeVars
<1>3. ASSUME NEW p \in Procs, LoopStep(p) PROVE QueuedOnce'
  <2>1. ASSUME NEW j \in mover[p], EnqueueScheduled(p, j) PROVE QueuedOnce'
    <3>1. j \in Jobs
      BY DEF TypeOK
    <3>2. (InsertToQueue(j, 0) /\ ~Queued(j)) \/ UNCHANGED queue
      BY <2>1 DEF EnqueueScheduled, Transact, Applied
    <3>. QED BY <1>0, <3>1, <3>2, InsertedOnly, SameQueueOnce
  <2>2. ASSUME NEW row \in retrier[p], Retry(p, row) PROVE QueuedOnce'
    <3>1. row.job \in Jobs /\ row.rc \in RetryCounts
      BY DEF TypeOK, QueueRow
    <3>2. CASE UNCHANGED queue
      BY <3>2, SameQueueOnce
    <3>3. CASE ~UNCHANGED queue
      <4> DEFINE rc == IF HasClaimer THEN failed[row.job] ELSE row.rc
      <4>1. RetryTx(row) /\ ~(HasClaimer /\ ~Failed(row.job))
        BY <2>2, <3>3 DEF Retry, RetryTx
      <4>2. InsertToQueue(row.job, rc) /\ ~Queued(row.job)
        BY <3>3, <4>1 DEF RetryTx
      <4>3. rc \in RetryCounts
        BY <3>1, <4>1 DEF Failed, TypeOK, StoreTypeOK
      <4>. QED BY <1>0, <3>1, <4>2, <4>3, InsertedOnly
    <3>. QED BY <3>2, <3>3
  <2>3. CASE UNCHANGED queue
    BY <2>3, SameQueueOnce
  <2>. QED BY <1>3, <2>1, <2>2, <2>3
           DEF LoopStep, NextFromScheduled, NextFromFailed, Heartbeat,
               GetOrphans, FailOrphan, storeVars
<1>4. ASSUME NEW p \in Procs, ProcessStep(p) PROVE QueuedOnce'
  BY <1>4, SameQueueOnce
     DEF ProcessStep, Start, CloseQuit, StopPool, WaitReturns, Advance,
         LoopExits, Exit, storeVars
<1>5. CASE UNCHANGED vars
  BY <1>5, SameQueueOnce DEF vars, storeVars
<1>. QED BY <1>1, <1>2, <1>3, <1>4, <1>5 DEF Next

LEMMA SameTablesFree ==
    ASSUME UNCHANGED <<scheduled, queue, processing, failed>>,
           NEW k \in Jobs, TableFree(k)
    PROVE  TableFree(k)'
BY DEF TableFree, Queued, Processing, Failed

LEMMA SameMemoryFree ==
    ASSUME UNCHANGED <<mover, checker, retrier, worker>>,
           NEW k \in Jobs, MemoryFree(k)
    PROVE  MemoryFree(k)'
BY DEF MemoryFree

\* A snapshot of the tables names no job that is free of them.
LEMMA SnapshotFree ==
    ASSUME TypeOK, NEW k \in Jobs, TableFree(k)
    PROVE  /\ k \notin due
           /\ \A row \in StaleRows \cup RetryRows : row.job # k
BY DEF TableFree, TypeOK, StoreTypeOK, StaleRows, RetryRows

LEMMA FailTxFree ==
    ASSUME TypeOK, NEW j \in Jobs, NEW rc \in RetryCounts, FailTx(j, rc),
           UNCHANGED <<scheduled, queue>>,
           NEW k \in Jobs, k # j, TableFree(k)
    PROVE  TableFree(k)'
<1>1. processing'[k] = processing[k] /\ failed'[k] = failed[k]
  BY DEF FailTx, DeleteFromProcessing, InsertToFailed, TypeOK, StoreTypeOK
<1>. QED BY <1>1 DEF TableFree, Queued, Processing, Failed

LEMMA JobStepFree ==
    ASSUME TypeOK, NEW j \in Jobs, JobStep(j),
           NEW k \in Jobs, call'[k] = "none", TableFree(k), MemoryFree(k)
    PROVE  TableFree(k)' /\ MemoryFree(k)'
<1>0. queue \in Seq(QueueRow) /\ 0 \in RetryCounts
  BY RetryAssumption DEF TypeOK, StoreTypeOK, RetryCounts
<1>1. MemoryFree(k)'
  BY SameMemoryFree DEF JobStep, EnqueueNow, EnqueueLater, WebRetry,
     NineSecondsPass, RetryTimePasses, EnqueueTimePasses, procVars
<1>2. CASE EnqueueNow(j)
  <2>1. k # j
    BY <1>2 DEF EnqueueNow, TypeOK
  <2>2. InsertToQueue(j, 0) \/ UNCHANGED queue
    BY <1>2 DEF EnqueueNow
  <2>3. ~Queued(k)'
    BY <1>0, <2>1, <2>2, InsertedOnly DEF TableFree, Queued
  <2>. QED BY <1>1, <1>2, <2>3 DEF EnqueueNow, TableFree, Processing, Failed
<1>3. CASE EnqueueLater(j)
  <2>1. k # j
    BY <1>3 DEF EnqueueLater, TypeOK
  <2>2. k \notin scheduled'
    BY <1>3, <2>1 DEF EnqueueLater, InsertToScheduled, TableFree
  <2>. QED BY <1>1, <1>3, <2>2
           DEF EnqueueLater, TableFree, Queued, Processing, Failed
<1>4. CASE WebRetry(j)
  <2>1. k # j /\ failed[j] \in RetryCounts
    BY <1>4 DEF WebRetry, TableFree, Failed, TypeOK, StoreTypeOK
  <2>2. CASE UNCHANGED <<failed, retryDue, queue>>
    BY <1>1, <1>4, <2>2, SameTablesFree DEF WebRetry
  <2>3. CASE DeleteFromFailed(j) /\ InsertToQueue(j, failed[j])
    <3>1. ~Queued(k)'
      BY <1>0, <2>1, <2>3, InsertedOnly DEF TableFree
    <3>2. failed'[k] = failed[k]
      BY <2>1, <2>3 DEF DeleteFromFailed, TypeOK, StoreTypeOK
    <3>. QED BY <1>1, <1>4, <3>1, <3>2
             DEF WebRetry, TableFree, Processing, Failed
  <2>. QED BY <1>4, <2>2, <2>3 DEF WebRetry
<1>5. CASE UNCHANGED <<scheduled, queue, processing, failed>>
  BY <1>1, <1>5, SameTablesFree
<1>. QED BY <1>2, <1>3, <1>4, <1>5
         DEF JobStep, NineSecondsPass, HeartbeatExpires, RetryTimePasses,
             BackoffElapses, EnqueueTimePasses, ScheduleArrives

\* A slot changes its own state only, to hold no job or one it already had.
LEMMA SlotMemoryFree ==
    ASSUME TypeOK, NEW p \in Procs, NEW w \in Slots,
           UNCHANGED <<mover, checker, retrier>>,
           NEW state, worker' = [worker EXCEPT ![p][w] = state],
           NEW k \in Jobs, state.job # k, MemoryFree(k)
    PROVE  MemoryFree(k)'
BY DEF MemoryFree, TypeOK

LEMMA SlotStepFree ==
    ASSUME TypeOK, NEW p \in Procs, NEW w \in Slots, SlotStep(p, w),
           NEW k \in Jobs, TableFree(k), MemoryFree(k)
    PROVE  TableFree(k)' /\ MemoryFree(k)'
<1>0. None # k
  BY NoneAssumption
<1>1. CASE Dequeue(p, w)
  <2>1. PICK i \in DOMAIN queue :
          /\ queue[i].job \in Jobs
          /\ queue[i].rc \in RetryCounts
          /\ \/ UNCHANGED <<queue, processing>>
             \/ /\ DeleteFromQueue(i)
                /\ processing' = [processing EXCEPT ![queue[i].job] = queue[i].rc]
          /\ \/ worker' = [worker EXCEPT ![p][w] = Idle]
             \/ worker' = [worker EXCEPT ![p][w] =
                             [Idle EXCEPT !.pc = "taken",
                                          !.job = queue[i].job,
                                          !.rc = queue[i].rc]]
    BY <1>1, DequeuedRow
  <2>2. queue[i].job # k
    BY DEF TableFree, Queued
  <2>3. MemoryFree(k)'
    <3>1. UNCHANGED <<mover, checker, retrier>>
      BY <1>1 DEF Dequeue
    <3>2. CASE worker' = [worker EXCEPT ![p][w] = Idle]
      <4>1. Idle.job # k
        BY <1>0 DEF Idle
      <4>. QED BY <3>1, <3>2, <4>1, SlotMemoryFree
    <3>3. CASE worker' = [worker EXCEPT ![p][w] =
                            [Idle EXCEPT !.pc = "taken",
                                         !.job = queue[i].job,
                                         !.rc = queue[i].rc]]
      <4> DEFINE state == [Idle EXCEPT !.pc = "taken", !.job = queue[i].job,
                                       !.rc = queue[i].rc]
      <4>1. state.job # k
        BY <2>2 DEF Idle
      <4> HIDE DEF state
      <4>2. worker' = [worker EXCEPT ![p][w] = state]
        BY <3>3 DEF state
      <4>. QED BY <3>1, <4>1, <4>2, SlotMemoryFree
    <3>. QED BY <2>1, <3>2, <3>3
  <2>4. CASE UNCHANGED <<queue, processing>>
    BY <1>1, <2>3, <2>4, SameTablesFree DEF Dequeue
  <2>5. CASE /\ DeleteFromQueue(i)
             /\ processing' = [processing EXCEPT ![queue[i].job] = queue[i].rc]
    <3>1. ~Queued(k)'
      BY <2>5, RemovedJob DEF TableFree, TypeOK, StoreTypeOK
    <3>2. processing'[k] = processing[k]
      BY <2>2, <2>5 DEF TypeOK, StoreTypeOK
    <3>. QED BY <1>1, <2>3, <3>1, <3>2
             DEF Dequeue, TableFree, Processing, Failed
  <2>. QED BY <2>1, <2>4, <2>5
<1>2. CASE ~Dequeue(p, w)
  <2>1. MemoryFree(k)'
    <3>1. UNCHANGED <<mover, checker, retrier>>
      BY <1>2 DEF SlotStep, Submit, PollEmpty, StartJob, HandlerReturns,
                  Complete, Fail, Leave
    <3>2. \/ \E q : worker' = [worker EXCEPT ![p][w] =
                                 [Idle EXCEPT !.pc = "polling", !.queue = q]]
          \/ worker' = [worker EXCEPT ![p][w] = Idle]
          \/ \E pc : worker' = [worker EXCEPT ![p][w].pc = pc]
      BY <1>2 DEF SlotStep, Submit, PollEmpty, StartJob, HandlerReturns,
                  Complete, Fail, Leave
    <3>3. ASSUME NEW q, worker' = [worker EXCEPT ![p][w] =
                                 [Idle EXCEPT !.pc = "polling", !.queue = q]]
          PROVE  MemoryFree(k)'
      <4> DEFINE state == [Idle EXCEPT !.pc = "polling", !.queue = q]
      <4>1. state.job # k
        BY <1>0 DEF Idle
      <4> HIDE DEF state
      <4>2. worker' = [worker EXCEPT ![p][w] = state]
        BY <3>3 DEF state
      <4>. QED BY <3>1, <4>1, <4>2, SlotMemoryFree
    <3>4. CASE worker' = [worker EXCEPT ![p][w] = Idle]
      <4>1. Idle.job # k
        BY <1>0 DEF Idle
      <4>. QED BY <3>1, <3>4, <4>1, SlotMemoryFree
    <3>5. ASSUME NEW pc, worker' = [worker EXCEPT ![p][w].pc = pc]
          PROVE  MemoryFree(k)'
      <4> DEFINE state == [worker[p][w] EXCEPT !.pc = pc]
      <4>1. worker[p][w] \in {Idle} \cup Polling \cup Holding
        BY DEF TypeOK
      <4>2. state.job = worker[p][w].job
        BY <4>1 DEF Idle, Polling, Holding
      <4>3. state.job # k
        BY <4>2 DEF MemoryFree
      <4>4. worker' = [worker EXCEPT ![p][w] = state]
        BY <3>5
      <4> HIDE DEF state
      <4>. QED BY <3>1, <4>3, <4>4, SlotMemoryFree
    <3>. QED BY <3>2, <3>3, <3>4, <3>5
  <2>2. CASE UNCHANGED storeVars
    BY <2>1, <2>2, SameTablesFree DEF storeVars
  <2>3. CASE Complete(p, w)
    <3>1. worker[p][w].job # k
      BY DEF MemoryFree
    <3>2. processing'[k] = processing[k]
      BY <2>3, <3>1 DEF Complete, DeleteFromProcessing, TypeOK, StoreTypeOK
    <3>. QED BY <2>1, <2>3, <3>2
             DEF Complete, TableFree, Queued, Processing, Failed
  <2>4. CASE Fail(p, w)
    <3>1. worker[p][w].job \in Jobs /\ worker[p][w].rc \in RetryCounts
      BY <2>4, SlotStateAt DEF Fail, Executing, Holding
    <3>2. worker[p][w].job # k
      BY DEF MemoryFree
    <3>3. /\ UNCHANGED <<scheduled, queue>>
          /\ \/ FailTx(worker[p][w].job, worker[p][w].rc)
             \/ UNCHANGED <<processing, stale, failed, retryDue, discarded>>
      BY <2>4 DEF Fail
    <3>. QED BY <2>1, <3>1, <3>2, <3>3, FailTxFree, SameTablesFree
  <2>. QED BY <1>2, <2>2, <2>3, <2>4
           DEF SlotStep, Submit, PollEmpty, StartJob, HandlerReturns, Leave
<1>. QED BY <1>1, <1>2

LEMMA LoopStepFree ==
    ASSUME TypeOK, NEW p \in Procs, LoopStep(p),
           NEW k \in Jobs, TableFree(k), MemoryFree(k)
    PROVE  TableFree(k)' /\ MemoryFree(k)'
<1>0. queue \in Seq(QueueRow) /\ 0 \in RetryCounts
  BY RetryAssumption DEF TypeOK, StoreTypeOK, RetryCounts
<1>1. CASE NextFromScheduled(p)
  <2>1. TableFree(k)'
    BY <1>1, SameTablesFree DEF NextFromScheduled, storeVars
  <2>2. MemoryFree(k)'
    BY <1>1, SnapshotFree DEF NextFromScheduled, MemoryFree, TypeOK
  <2>. QED BY <2>1, <2>2
<1>2. CASE NextFromFailed(p)
  <2>1. TableFree(k)'
    BY <1>2, SameTablesFree DEF NextFromFailed, storeVars
  <2>2. MemoryFree(k)'
    BY <1>2, SnapshotFree DEF NextFromFailed, MemoryFree, TypeOK
  <2>. QED BY <2>1, <2>2
<1>3. CASE GetOrphans(p)
  <2>1. TableFree(k)'
    BY <1>3, SameTablesFree DEF GetOrphans, storeVars
  <2>2. MemoryFree(k)'
    BY <1>3, SnapshotFree DEF GetOrphans, MemoryFree, TypeOK
  <2>. QED BY <2>1, <2>2
<1>4. ASSUME NEW j \in inMemory[p], Heartbeat(p, j)
      PROVE  TableFree(k)' /\ MemoryFree(k)'
  BY <1>4, SameTablesFree, SameMemoryFree DEF Heartbeat, procVars
<1>5. ASSUME NEW j \in mover[p], EnqueueScheduled(p, j)
      PROVE  TableFree(k)' /\ MemoryFree(k)'
  <2>1. j \in Jobs /\ k # j
    BY DEF MemoryFree, TypeOK
  <2>2. MemoryFree(k)'
    <3>1. mover'[p] \subseteq mover[p]
      BY <1>5 DEF EnqueueScheduled, TypeOK
    <3>2. \A q \in Procs : mover'[q] \subseteq mover[q]
      BY <1>5, <3>1 DEF EnqueueScheduled, TypeOK
    <3>. QED BY <1>5, <3>2 DEF EnqueueScheduled, MemoryFree
  <2>3. InsertToQueue(j, 0) \/ UNCHANGED queue
    BY <1>5 DEF EnqueueScheduled
  <2>4. ~Queued(k)'
    BY <1>0, <2>1, <2>3, InsertedOnly DEF TableFree, Queued
  <2>5. scheduled' \subseteq scheduled
    BY <1>5 DEF EnqueueScheduled, DeleteFromScheduled
  <2>. QED BY <1>5, <2>2, <2>4, <2>5
           DEF EnqueueScheduled, TableFree, Processing, Failed
<1>6. ASSUME NEW row \in retrier[p], Retry(p, row)
      PROVE  TableFree(k)' /\ MemoryFree(k)'
  <2>1. row.job \in Jobs /\ row.rc \in RetryCounts /\ k # row.job
    BY DEF MemoryFree, TypeOK, QueueRow
  <2>2. MemoryFree(k)'
    <3>1. \A q \in Procs : retrier'[q] \subseteq retrier[q]
      BY <1>6 DEF Retry, TypeOK
    <3>. QED BY <1>6, <3>1 DEF Retry, MemoryFree
  <2>3. CASE UNCHANGED <<failed, retryDue, queue>>
    BY <1>6, <2>2, <2>3, SameTablesFree DEF Retry
  <2>4. CASE RetryTx(row) /\ ~(HasClaimer /\ ~Failed(row.job))
    <3> DEFINE rc == IF HasClaimer THEN failed[row.job] ELSE row.rc
    <3>1. rc \in RetryCounts
      BY <2>1, <2>4 DEF Failed, TypeOK, StoreTypeOK
    <3>2. InsertToQueue(row.job, rc) \/ UNCHANGED queue
      BY <2>4 DEF RetryTx
    <3>3. ~Queued(k)'
      <4> HIDE DEF rc
      <4>. QED BY <1>0, <2>1, <3>1, <3>2, InsertedOnly DEF TableFree, Queued
    <3>4. failed'[k] = failed[k]
      BY <2>1, <2>4 DEF RetryTx, DeleteFromFailed, TypeOK, StoreTypeOK
    <3>. QED BY <1>6, <2>2, <3>3, <3>4
             DEF Retry, TableFree, Processing, Failed
  <2>. QED BY <1>6, <2>3, <2>4 DEF Retry, RetryTx
<1>7. ASSUME NEW row \in checker[p], FailOrphan(p, row)
      PROVE  TableFree(k)' /\ MemoryFree(k)'
  <2>1. row.job \in Jobs /\ row.rc \in RetryCounts /\ k # row.job
    BY DEF MemoryFree, TypeOK, QueueRow
  <2>2. MemoryFree(k)'
    <3>1. \A q \in Procs : checker'[q] \subseteq checker[q]
      BY <1>7 DEF FailOrphan, TypeOK
    <3>. QED BY <1>7, <3>1 DEF FailOrphan, MemoryFree
  <2>3. /\ UNCHANGED <<scheduled, queue>>
        /\ \/ FailTx(row.job, row.rc)
           \/ UNCHANGED <<processing, stale, failed, retryDue, discarded>>
    BY <1>7 DEF FailOrphan
  <2>. QED BY <2>1, <2>2, <2>3, FailTxFree, SameTablesFree
<1>. QED BY <1>1, <1>2, <1>3, <1>4, <1>5, <1>6, <1>7 DEF LoopStep

LEMMA ProcessStepFree ==
    ASSUME TypeOK, NEW p \in Procs, ProcessStep(p),
           NEW k \in Jobs, TableFree(k), MemoryFree(k)
    PROVE  TableFree(k)' /\ MemoryFree(k)'
<1>1. TableFree(k)'
  BY SameTablesFree
     DEF ProcessStep, Start, CloseQuit, StopPool, WaitReturns, Advance,
         LoopExits, Exit, storeVars
<1>2. CASE Exit(p)
  <2>1. Idle.job # k
    BY NoneAssumption DEF Idle
  <2>. QED BY <1>1, <1>2, <2>1 DEF Exit, MemoryFree, TypeOK
<1>3. CASE ~Exit(p)
  BY <1>1, <1>3, SameMemoryFree
     DEF ProcessStep, Start, CloseQuit, StopPool, WaitReturns, Advance,
         LoopExits
<1>. QED BY <1>2, <1>3

\* No step gives back the ID of a job: a call once made stays made.
LEMMA CallStays ==
    ASSUME TypeOK, [Next]_vars, NEW k \in Jobs, call'[k] = "none"
    PROVE  call[k] = "none"
<1>1. ASSUME NEW j \in Jobs, JobStep(j) PROVE call[k] = "none"
  BY <1>1 DEF JobStep, EnqueueNow, EnqueueLater, WebRetry, NineSecondsPass,
              RetryTimePasses, EnqueueTimePasses, procVars, TypeOK
<1>2. ASSUME NEW p \in Procs, NEW w \in Slots, SlotStep(p, w)
      PROVE  call[k] = "none"
  BY <1>2 DEF SlotStep, Submit, PollEmpty, Dequeue, StartJob,
              HandlerReturns, Complete, Fail, Leave
<1>3. ASSUME NEW p \in Procs, LoopStep(p) PROVE call[k] = "none"
  BY <1>3 DEF LoopStep, NextFromScheduled, EnqueueScheduled, NextFromFailed,
              Retry, Heartbeat, GetOrphans, FailOrphan, procVars
<1>4. ASSUME NEW p \in Procs, ProcessStep(p) PROVE call[k] = "none"
  BY <1>4 DEF ProcessStep, Start, CloseQuit, StopPool, WaitReturns, Advance,
              LoopExits, Exit
<1>. QED BY <1>1, <1>2, <1>3, <1>4 DEF Next, vars, procVars

LEMMA FreshStep ==
    ASSUME TypeOK, FreshUntouched, [Next]_vars
    PROVE  FreshUntouched'
<1> SUFFICES ASSUME NEW k \in Jobs, call'[k] = "none"
             PROVE  TableFree(k)' /\ MemoryFree(k)'
  BY DEF FreshUntouched
<1>1. TableFree(k) /\ MemoryFree(k)
  BY CallStays DEF FreshUntouched
<1>2. CASE UNCHANGED vars
  BY <1>1, <1>2, SameTablesFree, SameMemoryFree DEF vars, storeVars, procVars
<1>. QED BY <1>1, <1>2, JobStepFree, SlotStepFree, LoopStepFree,
            ProcessStepFree DEF Next

LEMMA QueueInvInit == Init => QueueInv
<1> SUFFICES ASSUME Init PROVE QueueInv
  OBVIOUS
<1>1. DOMAIN queue = {}
  BY DEF Init, StoreInit
<1>2. FreshUntouched
  BY <1>1, NoneAssumption
     DEF Init, StoreInit, FreshUntouched, TableFree, MemoryFree, Queued,
         Processing, Failed, Idle
<1>. QED BY <1>1, <1>2, TypeInit DEF QueueInv, QueuedOnce

LEMMA QueueInvStep == QueueInv /\ [Next]_vars => QueueInv'
BY TypeStep, FreshStep, QueuedOnceStep DEF QueueInv

\* The queue never holds two copies of a job, however many processes move
\* scheduled jobs, retry failed ones and serve the dashboard.
THEOREM JobsQueuedOnce == Spec => []QueuedOnce
<1>1. Spec => []QueueInv
  BY QueueInvInit, QueueInvStep, PTL DEF Spec
<1>2. QueueInv => QueuedOnce
  BY DEF QueueInv
<1>. QED BY <1>1, <1>2, PTL

=============================================================================
