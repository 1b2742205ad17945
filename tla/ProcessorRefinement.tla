------------------------- MODULE ProcessorRefinement -------------------------
(***************************************************************************)
(* Processor implements AtomicStore: for any constants, every step of any  *)
(* process is one whole transaction on the tables or leaves them alone.    *)
(***************************************************************************)
EXTENDS ProcessorProofs

-----------------------------------------------------------------------------
(* The queue as a table. *)

\* A function that differs from another at one argument.
LEMMA OneEntry ==
    ASSUME NEW S, NEW f, NEW g, NEW j \in S, NEW v,
           f = [k \in S |-> f[k]], g = [k \in S |-> g[k]],
           g[j] = v, \A k \in S : k # j => g[k] = f[k]
    PROVE  g = [f EXCEPT ![j] = v]
OBVIOUS

LEMMA CountIsFunction ==
    /\ QueuedCount = [k \in Jobs |-> QueuedCount[k]]
    /\ QueuedCount' = [k \in Jobs |-> QueuedCount'[k]]
BY DEF QueuedCount

\* Where one row has a job, CHOOSE finds that row.
LEMMA OnlyRow ==
    ASSUME NEW q, NEW i \in DOMAIN q,
           \A k, n \in DOMAIN q : q[k].job = q[n].job => k = n
    PROVE  (CHOOSE k \in DOMAIN q : q[k].job = q[i].job) = i
OBVIOUS

LEMMA CountOfRow ==
    ASSUME QueuedOnce, NEW i \in DOMAIN queue, queue[i].job \in Jobs
    PROVE  QueuedCount[queue[i].job] = queue[i].rc
<1>1. Queued(queue[i].job)
  BY DEF Queued
<1>2. (CHOOSE k \in DOMAIN queue : queue[k].job = queue[i].job) = i
  BY OnlyRow DEF QueuedOnce
<1>. QED BY <1>1, <1>2 DEF QueuedCount

LEMMA CountWithoutRow ==
    ASSUME NEW k \in Jobs
    PROVE  QueuedCount[k] # None => Queued(k)
BY DEF QueuedCount

LEMMA CountWithRow ==
    ASSUME queue \in Seq(QueueRow), QueuedOnce, NEW k \in Jobs, Queued(k)
    PROVE  QueuedCount[k] # None
<1>1. PICK i \in DOMAIN queue : queue[i].job = k
  BY DEF Queued
<1>2. QueuedCount[k] = queue[i].rc
  BY <1>1, CountOfRow
<1>3. queue[i] \in QueueRow
  BY <1>1, ElementOfSeq
<1>. QED BY <1>2, <1>3, NoneAssumption DEF QueueRow, RetryCounts

LEMMA CountsInserted ==
    ASSUME queue \in Seq(QueueRow), QueuedOnce,
           NEW j \in Jobs, NEW rc \in RetryCounts, ~Queued(j),
           InsertToQueue(j, rc)
    PROVE  /\ QueuedCount[j] = None
           /\ QueuedCount' = [QueuedCount EXCEPT ![j] = rc]
<1> DEFINE row == [job |-> j, rc |-> rc]
<1>1. queue' = Append(queue, row) /\ row \in QueueRow
  BY DEF InsertToQueue, QueueRow
<1>2. /\ Len(queue') = Len(queue) + 1
      /\ queue'[Len(queue) + 1] = row
      /\ \A i \in 1 .. Len(queue) : queue'[i] = queue[i]
      /\ queue' \in Seq(QueueRow)
  BY <1>1
<1>3. /\ DOMAIN queue = 1 .. Len(queue)
      /\ DOMAIN queue' = 1 .. Len(queue) + 1
      /\ Len(queue) \in Nat
  BY <1>2
<1>4. row.job = j /\ row.rc = rc
  OBVIOUS
<1> HIDE DEF row
<1>5. QueuedOnce'
  BY InsertedOnly
<1>6. ASSUME NEW i \in DOMAIN queue', queue'[i].job \in Jobs
      PROVE  QueuedCount'[queue'[i].job] = queue'[i].rc
  <2>1. (CHOOSE k \in DOMAIN queue' : queue'[k].job = queue'[i].job) = i
    BY <1>5, OnlyRow DEF QueuedOnce
  <2>. QED BY <1>6, <2>1 DEF QueuedCount, Queued
<1>7. QueuedCount'[j] = rc
  BY <1>2, <1>3, <1>4, <1>6
<1>8. ASSUME NEW k \in Jobs, k # j PROVE QueuedCount'[k] = QueuedCount[k]
  <2>1. CASE Queued(k)
    <3>1. PICK i \in DOMAIN queue : queue[i].job = k
      BY <2>1 DEF Queued
    <3>2. i \in DOMAIN queue' /\ queue'[i] = queue[i]
      BY <1>2, <1>3, <3>1
    <3>. QED BY <1>6, <3>1, <3>2, CountOfRow
  <2>2. CASE ~Queued(k)
    <3>1. ~Queued(k)'
      BY <1>8, <2>2, InsertedOnly
    <3>. QED BY <2>2, <3>1 DEF QueuedCount
  <2>. QED BY <2>1, <2>2
<1>9. QueuedCount[j] = None
  BY DEF QueuedCount
<1>. QED BY <1>7, <1>8, <1>9, CountIsFunction, OneEntry

LEMMA CountsRemoved ==
    ASSUME queue \in Seq(QueueRow), QueuedOnce,
           NEW i \in DOMAIN queue, queue[i].job \in Jobs,
           DeleteFromQueue(i)
    PROVE  QueuedCount' = [QueuedCount EXCEPT ![queue[i].job] = None]
<1> DEFINE gone == queue[i].job
           now(n) == IF n < i THEN n ELSE n - 1
<1>1. /\ queue' \in Seq(QueueRow)
      /\ Len(queue') = Len(queue) - 1
      /\ \A k \in 1 .. i - 1 : queue'[k] = queue[k]
      /\ \A k \in i .. Len(queue) - 1 : queue'[k] = queue[k + 1]
  BY RemovedRow
<1>2. /\ DOMAIN queue = 1 .. Len(queue)
      /\ DOMAIN queue' = 1 .. Len(queue) - 1
      /\ Len(queue) \in Nat
  BY <1>1
<1>3. QueuedOnce'
  BY RemovedOnce
<1>4. ASSUME NEW n \in DOMAIN queue, n # i
      PROVE  now(n) \in DOMAIN queue' /\ queue'[now(n)] = queue[n]
  <2>1. CASE n < i
    BY <1>1, <1>2, <2>1
  <2>2. CASE n > i
    <3>1. n - 1 \in i .. Len(queue) - 1 /\ (n - 1) + 1 = n
      BY <1>2, <2>2
    <3>. QED BY <1>1, <1>2, <2>2, <3>1
  <2>. QED BY <1>2, <1>4, <2>1, <2>2
<1>5. ASSUME NEW n \in DOMAIN queue'
      PROVE  queue'[n].job # gone
  <2>1. CASE n < i
    BY <1>1, <1>2, <2>1 DEF QueuedOnce
  <2>2. CASE n >= i
    <3>1. n \in i .. Len(queue) - 1 /\ n + 1 \in DOMAIN queue /\ n + 1 # i
      BY <1>2, <2>2
    <3>. QED BY <1>1, <3>1 DEF QueuedOnce
  <2>. QED BY <1>2, <2>1, <2>2
<1>6. QueuedCount'[gone] = None
  BY <1>5 DEF QueuedCount, Queued
<1>7. ASSUME NEW k \in Jobs, k # gone PROVE QueuedCount'[k] = QueuedCount[k]
  <2>1. CASE Queued(k)
    <3>1. PICK n \in DOMAIN queue : queue[n].job = k
      BY <2>1 DEF Queued
    <3>2. now(n) \in DOMAIN queue' /\ queue'[now(n)] = queue[n]
      BY <1>4, <1>7, <3>1
    <3> HIDE DEF now
    <3>3. (CHOOSE m \in DOMAIN queue' : queue'[m].job = queue'[now(n)].job)
             = now(n)
      BY <1>3, <3>2, OnlyRow DEF QueuedOnce
    <3>4. QueuedCount'[k] = queue'[now(n)].rc
      BY <3>1, <3>2, <3>3 DEF QueuedCount, Queued
    <3>. QED BY <3>1, <3>2, <3>4, CountOfRow
  <2>2. CASE ~Queued(k)
    <3>1. ~Queued(k)'
      BY <2>2, RemovedJob
    <3>. QED BY <2>2, <3>1 DEF QueuedCount
  <2>. QED BY <2>1, <2>2
<1>. QED BY <1>6, <1>7, CountIsFunction, OneEntry

LEMMA CountsStay == UNCHANGED queue => UNCHANGED QueuedCount
BY DEF QueuedCount, Queued

-----------------------------------------------------------------------------
(* Every step is a transaction of AtomicStore or none.                     *)

StoreStep == [Atomic!AtomicNext]_(Atomic!storeVars)

LEMMA NoTransaction ==
    UNCHANGED <<scheduled, queue, processing, stale, processed, failed>>
        => StoreStep
BY CountsStay DEF StoreStep, Atomic!storeVars

\* Retry counts mean the same in both modules, and None is none of them.
LEMMA Counts ==
    /\ Atomic!RetryCounts = RetryCounts
    /\ 0 \in RetryCounts
    /\ None \notin RetryCounts
    /\ \A rc \in RetryCounts : LastTry(rc) <=> rc = MaxRetry
BY RetryAssumption, NoneAssumption DEF Atomic!RetryCounts, RetryCounts, LastTry

\* A job in a slot and an orphan fail alike.
LEMMA FailMaps ==
    ASSUME NEW j \in Jobs, NEW rc \in RetryCounts, FailTx(j, rc),
           ~FailConflict(j, rc), UNCHANGED <<scheduled, queue, processed>>
    PROVE  StoreStep
<1>1. UNCHANGED QueuedCount
  BY CountsStay
<1>2. Atomic!Fail(j, rc)
  BY <1>1, Counts
     DEF Atomic!Fail, Atomic!Without, FailTx, FailConflict,
         DeleteFromProcessing, InsertToFailed, Failed
<1>. QED BY <1>2, Counts DEF StoreStep, Atomic!AtomicNext

LEMMA JobStepMaps ==
    ASSUME QueueInv, NEW j \in Jobs, JobStep(j)
    PROVE  StoreStep
<1>0. queue \in Seq(QueueRow) /\ QueuedOnce
  BY DEF QueueInv, TypeOK, StoreTypeOK
<1>1. CASE EnqueueNow(j)
  <2>1. CASE UNCHANGED queue
    BY <1>1, <2>1, NoTransaction DEF EnqueueNow
  <2>2. CASE InsertToQueue(j, 0)
    <3>1. ~Queued(j)
      BY <1>1 DEF EnqueueNow, QueueInv, FreshUntouched, TableFree
    <3>2. Atomic!EnqueueNow(j)
      BY <1>0, <1>1, <2>2, <3>1, Counts, CountsInserted
         DEF EnqueueNow, Atomic!EnqueueNow
    <3>. QED BY <3>2 DEF StoreStep, Atomic!AtomicNext
  <2>. QED BY <1>1, <2>1, <2>2 DEF EnqueueNow
<1>2. CASE EnqueueLater(j)
  <2>1. UNCHANGED QueuedCount
    BY <1>2, CountsStay DEF EnqueueLater
  <2>2. CASE UNCHANGED scheduled
    BY <1>2, <2>2, NoTransaction DEF EnqueueLater
  <2>3. CASE InsertToScheduled(j)
    <3>1. Atomic!EnqueueLater(j)
      BY <1>2, <2>1, <2>3
         DEF EnqueueLater, InsertToScheduled, Atomic!EnqueueLater
    <3>. QED BY <3>1 DEF StoreStep, Atomic!AtomicNext
  <2>. QED BY <1>2, <2>2, <2>3 DEF EnqueueLater
<1>3. CASE WebRetry(j)
  <2>1. CASE UNCHANGED <<failed, queue>>
    BY <1>3, <2>1, NoTransaction DEF WebRetry
  <2>2. CASE ~Queued(j) /\ DeleteFromFailed(j) /\ InsertToQueue(j, failed[j])
    <3>1. failed[j] \in RetryCounts
      BY <1>3 DEF WebRetry, Failed, QueueInv, TypeOK, StoreTypeOK
    <3>2. /\ QueuedCount[j] = None
          /\ QueuedCount' = [QueuedCount EXCEPT ![j] = failed[j]]
      BY <1>0, <2>2, <3>1, CountsInserted
    <3>3. Atomic!Retry(j, failed[j])
      BY <1>3, <2>2, <3>2
         DEF WebRetry, Failed, DeleteFromFailed, Atomic!Retry, Atomic!Without
    <3>. QED BY <3>1, <3>3, Counts DEF StoreStep, Atomic!AtomicNext
  <2>. QED BY <1>3, <2>1, <2>2 DEF WebRetry, Transact, Applied
<1>4. CASE NineSecondsPass(j)
  <2>1. UNCHANGED QueuedCount
    BY <1>4, CountsStay DEF NineSecondsPass, HeartbeatExpires
  <2>2. Atomic!HeartbeatExpires(j)
    BY <1>4, <2>1 DEF NineSecondsPass, HeartbeatExpires, Processing,
                      Atomic!HeartbeatExpires
  <2>. QED BY <2>2 DEF StoreStep, Atomic!AtomicNext
<1>5. CASE RetryTimePasses(j) \/ EnqueueTimePasses(j)
  BY <1>5, NoTransaction DEF RetryTimePasses, BackoffElapses,
                             EnqueueTimePasses, ScheduleArrives
<1>. QED BY <1>1, <1>2, <1>3, <1>4, <1>5 DEF JobStep

LEMMA SlotStepMaps ==
    ASSUME QueueInv, NEW p \in Procs, NEW w \in Slots, SlotStep(p, w)
    PROVE  StoreStep
<1>0. queue \in Seq(QueueRow) /\ QueuedOnce /\ TypeOK
  BY DEF QueueInv, TypeOK, StoreTypeOK
<1>1. CASE Dequeue(p, w)
  <2>1. PICK i \in Oldest(worker[p][w].queue) :
          \/ UNCHANGED <<queue, processing, stale>>
          \/ /\ ~Processing(queue[i].job)
             /\ DeleteFromQueue(i)
             /\ InsertToProcessing(queue[i].job, queue[i].rc)
    BY <1>1 DEF Dequeue, Transact, Applied
  <2>2. CASE UNCHANGED <<queue, processing, stale>>
    BY <1>1, <2>2, NoTransaction DEF Dequeue
  <2>3. CASE /\ ~Processing(queue[i].job)
             /\ DeleteFromQueue(i)
             /\ InsertToProcessing(queue[i].job, queue[i].rc)
    <3>1. i \in DOMAIN queue /\ queue[i] \in QueueRow
      <4>1. i \in 1 .. Len(queue)
        BY <1>0 DEF Oldest
      <4>. QED BY <1>0, <4>1, ElementOfSeq
    <3>2. queue[i].job \in Jobs /\ queue[i].rc \in RetryCounts
      BY <3>1 DEF QueueRow
    <3>3. QueuedCount[queue[i].job] = queue[i].rc
      BY <1>0, <3>1, <3>2, CountOfRow
    <3>4. QueuedCount' = [QueuedCount EXCEPT ![queue[i].job] = None]
      BY <1>0, <2>3, <3>1, <3>2, CountsRemoved
    <3>5. Atomic!Dequeue(queue[i].job)
      BY <1>1, <2>3, <3>2, <3>3, <3>4, Counts
         DEF Dequeue, Processing, InsertToProcessing, Atomic!Dequeue,
             Atomic!Without
    <3>. QED BY <3>2, <3>5 DEF StoreStep, Atomic!AtomicNext
  <2>. QED BY <2>1, <2>2, <2>3
<1>2. CASE Complete(p, w)
  <2> DEFINE j == worker[p][w].job
  <2>1. CASE UNCHANGED <<processed, processing, stale>>
    BY <1>2, <2>1, NoTransaction DEF Complete
  <2>2. CASE /\ j \notin processed
             /\ InsertToProcessed(j) /\ DeleteFromProcessing(j)
    <3>1. j \in Jobs
      BY <1>0, <1>2, SlotStateAt DEF Complete, Executing, Holding
    <3>2. UNCHANGED QueuedCount
      BY <1>2, CountsStay DEF Complete
    <3>3. Atomic!Complete(j)
      BY <1>2, <2>2, <3>2
         DEF Complete, InsertToProcessed, DeleteFromProcessing,
             Atomic!Complete, Atomic!Without
    <3>. QED BY <3>1, <3>3 DEF StoreStep, Atomic!AtomicNext
  <2>. QED BY <1>2, <2>1, <2>2 DEF Complete, Transact, Applied
<1>3. CASE Fail(p, w)
  <2> DEFINE j == worker[p][w].job
             rc == worker[p][w].rc
  <2>1. j \in Jobs /\ rc \in RetryCounts
    BY <1>0, <1>3, SlotStateAt DEF Fail, Executing, Holding
  <2>2. \/ FailTx(j, rc) /\ ~FailConflict(j, rc)
        \/ UNCHANGED <<processing, stale, failed>>
    BY <1>3 DEF Fail, Transact, Applied
  <2>3. UNCHANGED <<scheduled, queue, processed>>
    BY <1>3 DEF Fail
  <2> HIDE DEF j, rc
  <2>. QED BY <2>1, <2>2, <2>3, FailMaps, NoTransaction
<1>4. CASE UNCHANGED storeVars
  BY <1>4, NoTransaction DEF storeVars
<1>. QED BY <1>1, <1>2, <1>3, <1>4
         DEF SlotStep, Submit, PollEmpty, StartJob, HandlerReturns, Leave

LEMMA LoopStepMaps ==
    ASSUME QueueInv, NEW p \in Procs, LoopStep(p)
    PROVE  StoreStep
<1>0. queue \in Seq(QueueRow) /\ QueuedOnce /\ TypeOK
  BY DEF QueueInv, TypeOK, StoreTypeOK
<1>1. ASSUME NEW j \in mover[p], EnqueueScheduled(p, j) PROVE StoreStep
  <2>1. CASE UNCHANGED <<scheduled, queue>>
    BY <1>1, <2>1, NoTransaction DEF EnqueueScheduled
  <2>2. CASE ~Queued(j) /\ DeleteFromScheduled(j) /\ InsertToQueue(j, 0)
    <3>1. j \in Jobs
      BY <1>0 DEF TypeOK
    <3>2. Atomic!EnqueueScheduled(j)
      BY <1>0, <1>1, <2>2, <3>1, Counts, CountsInserted
         DEF EnqueueScheduled, DeleteFromScheduled, Atomic!EnqueueScheduled
    <3>. QED BY <3>1, <3>2 DEF StoreStep, Atomic!AtomicNext
  <2>. QED BY <1>1, <2>1, <2>2 DEF EnqueueScheduled, Transact, Applied
<1>2. ASSUME NEW row \in retrier[p], Retry(p, row) PROVE StoreStep
  <2> DEFINE j  == row.job
             rc == IF HasClaimer THEN failed[j] ELSE row.rc
  <2>1. CASE UNCHANGED <<failed, queue>>
    BY <1>2, <2>1, NoTransaction DEF Retry
  <2>2. CASE /\ HasClaimer => Failed(j)
             /\ DeleteFromFailed(j)
             /\ IF Queued(j) THEN UNCHANGED queue ELSE InsertToQueue(j, rc)
    <3>1. j \in Jobs /\ rc \in RetryCounts
      BY <1>0, <2>2 DEF TypeOK, StoreTypeOK, QueueRow, Failed
    <3>2. QueuedCount' = IF QueuedCount[j] = None
                         THEN [QueuedCount EXCEPT ![j] = rc]
                         ELSE QueuedCount
      <4> HIDE DEF j, rc
      <4>1. CASE Queued(j)
        BY <1>0, <2>2, <3>1, <4>1, CountWithRow, CountsStay
      <4>2. CASE ~Queued(j)
        BY <1>0, <2>2, <3>1, <4>2, CountsInserted
      <4>. QED BY <4>1, <4>2
    <3>3. Atomic!Retry(j, rc)
      BY <1>2, <2>2, <3>2
         DEF Retry, Failed, DeleteFromFailed, Atomic!Retry, Atomic!Without
    <3> HIDE DEF j, rc
    <3>. QED BY <3>1, <3>3, Counts DEF StoreStep, Atomic!AtomicNext
  <2>. QED BY <1>2, <2>1, <2>2 DEF Retry, RetryTx
<1>3. ASSUME NEW j \in inMemory[p], Heartbeat(p, j) PROVE StoreStep
  <2>1. j \in Jobs
    BY <1>0 DEF TypeOK
  <2>2. UNCHANGED QueuedCount
    BY <1>3, CountsStay DEF Heartbeat
  <2>3. Atomic!EmitHeartbeat(j)
    BY <1>3, <2>2 DEF Heartbeat, EmitHeartbeat, Atomic!EmitHeartbeat
  <2>. QED BY <2>1, <2>3 DEF StoreStep, Atomic!AtomicNext
<1>4. ASSUME NEW row \in checker[p], FailOrphan(p, row) PROVE StoreStep
  <2>1. row.job \in Jobs /\ row.rc \in RetryCounts
    BY <1>0 DEF TypeOK, QueueRow
  <2>2. \/ FailTx(row.job, row.rc) /\ ~FailConflict(row.job, row.rc)
        \/ UNCHANGED <<processing, stale, failed>>
    BY <1>4 DEF FailOrphan, Transact, Applied
  <2>3. UNCHANGED <<scheduled, queue, processed>>
    BY <1>4 DEF FailOrphan
  <2>. QED BY <2>1, <2>2, <2>3, FailMaps, NoTransaction
<1>5. CASE UNCHANGED storeVars
  BY <1>5, NoTransaction DEF storeVars
<1>. QED BY <1>1, <1>2, <1>3, <1>4, <1>5
         DEF LoopStep, NextFromScheduled, NextFromFailed, GetOrphans

LEMMA StepMaps == QueueInv /\ [Next]_vars => StoreStep
<1> SUFFICES ASSUME QueueInv, [Next]_vars PROVE StoreStep
  OBVIOUS
<1>1. ASSUME NEW p \in Procs, ProcessStep(p) PROVE StoreStep
  BY <1>1, NoTransaction
     DEF ProcessStep, Start, CloseQuit, StopPool, WaitReturns, Advance,
         LoopExits, Exit, storeVars
<1>2. CASE UNCHANGED vars
  BY <1>2, NoTransaction DEF vars, storeVars
<1>. QED BY <1>1, <1>2, JobStepMaps, SlotStepMaps, LoopStepMaps DEF Next

LEMMA InitMaps == Init => Atomic!AtomicInit
<1> SUFFICES ASSUME Init PROVE Atomic!AtomicInit
  OBVIOUS
<1>1. QueuedCount = [j \in Jobs |-> None]
  BY DEF Init, StoreInit, QueuedCount, Queued
<1>. QED BY <1>1 DEF Init, StoreInit, Atomic!AtomicInit, Atomic!NoRows

\* Whatever the processors, their loops and the dashboard do, and whichever
\* of their transactions fail, the tables only see whole transactions, each
\* legal for the rows it then finds (process.go, storage.go:23).
THEOREM ImplementsAtomicStore == Spec => FollowsAtomicStore
<1>1. Spec => []QueueInv
  BY QueueInvInit, QueueInvStep, PTL DEF Spec
<1>2. QueueInv /\ [Next]_vars => [Atomic!AtomicNext]_(Atomic!storeVars)
  BY StepMaps DEF StoreStep
<1>. QED BY <1>1, <1>2, InitMaps, PTL
         DEF Spec, FollowsAtomicStore, Atomic!AtomicSpec

=============================================================================
