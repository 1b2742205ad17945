-------------------------- MODULE LifecycleProofs --------------------------
(***************************************************************************)
(* In the deployment of DeploymentProofs, Processor implements             *)
(* JobLifecycle: as every job is in one table only, the table it is in is  *)
(* its state, and every step moves at most one job along one arrow.        *)
(***************************************************************************)
EXTENDS DeploymentProofs

-----------------------------------------------------------------------------
(* The state of a job, by its row.                                         *)

NoRow(j) ==
    /\ j \notin scheduled
    /\ QueuedCount[j] = None
    /\ processing[j] = None
    /\ failed[j] = None
    /\ j \notin processed
    /\ j \notin discarded

StateOfRow(j) ==
    /\ j \in scheduled        => State(j) = "scheduled"
    /\ QueuedCount[j] # None  => State(j) = "enqueued"
    /\ processing[j] # None   => State(j) = "processing"
    /\ failed[j] # None       => State(j) = "failed"
    /\ j \in processed        => State(j) = "processed"
    /\ j \in discarded        => State(j) = "discarded"
    /\ NoRow(j) /\ call[j] = "none" => State(j) = "new"
    /\ NoRow(j) /\ call[j] # "none" => State(j) = "refused"

StatesByRow == \A j \in Jobs : StateOfRow(j)

LEMMA StatesKnown == DeploymentInv => StatesByRow
<1> SUFFICES ASSUME DeploymentInv, NEW j \in Jobs PROVE StateOfRow(j)
  BY DEF StatesByRow
<1>1. QueuedCount[j] # None <=> Queued(j)
  BY RowTypes DEF DeploymentInv
<1>2. OneTable
  BY DeploymentHasOneTable
<1>3. ASSUME NEW t \in Tables, In(j, t) PROVE State(j) = t
  BY <1>2, <1>3 DEF State, OneTable
<1>4. /\ j \in scheduled       => In(j, "scheduled")
      /\ QueuedCount[j] # None => In(j, "enqueued")
      /\ processing[j] # None  => In(j, "processing")
      /\ failed[j] # None      => In(j, "failed")
      /\ j \in processed       => In(j, "processed")
      /\ j \in discarded       => In(j, "discarded")
  BY <1>1 DEF In, Processing, Failed
<1>5. NoRow(j) => \A t \in Tables : ~In(j, t)
  BY <1>1 DEF NoRow, Tables, In, Processing, Failed
<1>6. \A t \in {"scheduled", "enqueued", "processing", "processed", "failed",
                "discarded"} : t \in Tables
  BY DEF Tables
<1>. QED BY <1>3, <1>4, <1>5, <1>6 DEF StateOfRow, State

-----------------------------------------------------------------------------
(* A step moves one job or none.                                           *)

LifecycleStep == [Lifecycle!LifecycleNext]_(Lifecycle!lifecycleVars)

SameRow(k) ==
    /\ k \in scheduled <=> k \in scheduled'
    /\ QueuedCount'[k] = QueuedCount[k]
    /\ processing'[k] = processing[k]
    /\ failed'[k] = failed[k]
    /\ k \in processed <=> k \in processed'
    /\ k \in discarded <=> k \in discarded'
    /\ call'[k] = call[k]

LEMMA SameRowSameState ==
    ASSUME StatesByRow, StatesByRow', NEW k \in Jobs, SameRow(k)
    PROVE  State(k)' = State(k)
<1>1. StateOfRow(k) /\ StateOfRow(k)'
  BY DEF StatesByRow
<1>. QED BY <1>1 DEF StateOfRow, SameRow, NoRow

LEMMA OnlyMoves ==
    ASSUME StatesByRow, StatesByRow', NEW j \in Jobs,
           \A k \in Jobs : k # j => SameRow(k),
           NEW from, NEW to, State(j) = from, State(j)' = to
    PROVE  Lifecycle!Move(j, from, to)
<1>1. \A k \in Jobs : k # j => State(k)' = State(k)
  BY SameRowSameState
<1> DEFINE states == [k \in Jobs |-> State(k)]
<1>2. /\ states[j] = from
      /\ states' = [states EXCEPT ![j] = to]
  BY <1>1
<1>. QED BY <1>2 DEF Lifecycle!Move

LEMMA NobodyMoves ==
    ASSUME StatesByRow, StatesByRow',
           UNCHANGED <<scheduled, queue, processing, processed, failed,
                       discarded, call, attempts>>
    PROVE  LifecycleStep
<1>1. \A k \in Jobs : SameRow(k)
  BY CountsStay DEF SameRow
<1>2. \A k \in Jobs : State(k)' = State(k)
  BY <1>1, SameRowSameState
<1>3. [k \in Jobs |-> State(k)]' = [k \in Jobs |-> State(k)]
  BY <1>2
<1>. QED BY <1>3 DEF LifecycleStep, Lifecycle!lifecycleVars

-----------------------------------------------------------------------------
(* Callers and the moves into the queue.                                   *)

LEMMA EnqueueMoves ==
    ASSUME Deployment, DeploymentInv, StatesByRow, StatesByRow',
           NEW j \in Jobs, EnqueueNow(j) \/ EnqueueLater(j)
    PROVE  LifecycleStep
<1>0. /\ QueueInv /\ RowsOK /\ TypeOK /\ QueuedOnce
      /\ queue \in Seq(QueueRow)
      /\ 0 \in RetryCounts /\ None \notin RetryCounts
  BY RetryAssumption, NoneAssumption
     DEF DeploymentInv, QueueInv, TypeOK, StoreTypeOK, RetryCounts
<1>1. /\ call[j] = "none"
      /\ \/ InsertToQueue(j, 0) /\ UNCHANGED scheduled
         \/ UNCHANGED queue /\ scheduled' = scheduled \cup {j}
         \/ UNCHANGED <<queue, scheduled>> /\ call'[j] = "error"
      /\ \A k \in Jobs : k # j => call'[k] = call[k]
      /\ UNCHANGED <<processing, processed, failed, discarded, attempts>>
  BY <1>0, FaultAssumption
     DEF EnqueueNow, EnqueueLater, InsertToScheduled, TypeOK, Transact,
         Applied, Erroneous
<1>2. ~Queued(j) /\ NoRow(j)
  <2>1. /\ j \notin scheduled /\ ~Queued(j)
        /\ processing[j] = None /\ failed[j] = None
    BY <1>0, <1>1 DEF QueueInv, FreshUntouched, TableFree, Processing, Failed
  <2>2. attempts[j] = 0 /\ j \notin processed /\ j \notin discarded
    BY <1>0, <1>1, RetryAssumption DEF RowsOK, TriesOK
  <2>. QED BY <2>1, <2>2, CountWithoutRow DEF NoRow
<1>3. StateOfRow(j) /\ StateOfRow(j)'
  BY DEF StatesByRow
<1>4. State(j) = "new"
  BY <1>1, <1>2, <1>3 DEF StateOfRow
<1>5. /\ \A k \in Jobs : k # j => SameRow(k)
      /\ State(j)' \in {"enqueued", "scheduled", "refused"}
  <2>1. CASE InsertToQueue(j, 0) /\ UNCHANGED scheduled
    <3>1. /\ QueuedCount'[j] = 0
          /\ \A k \in Jobs : k # j => QueuedCount'[k] = QueuedCount[k]
      BY <1>0, <1>2, <2>1, CountsInserted, CountIsFunction
    <3>. QED BY <1>0, <1>1, <1>3, <2>1, <3>1 DEF SameRow, StateOfRow
  <2>2. CASE UNCHANGED queue /\ scheduled' = scheduled \cup {j}
    BY <1>1, <1>3, <2>2, CountsStay DEF SameRow, StateOfRow
  <2>3. CASE UNCHANGED <<queue, scheduled>> /\ call'[j] = "error"
    BY <1>1, <1>2, <1>3, <2>3, CountsStay DEF SameRow, StateOfRow, NoRow
  <2>. QED BY <1>1, <2>1, <2>2, <2>3
<1>6. PICK to \in {"enqueued", "scheduled", "refused"} : State(j)' = to
  BY <1>5
<1>7. Lifecycle!Move(j, "new", to)
  BY <1>4, <1>5, <1>6, OnlyMoves
<1>8. Lifecycle!Accept(j)
  BY <1>1, <1>7 DEF Lifecycle!Accept
<1>. QED BY <1>8 DEF LifecycleStep, Lifecycle!LifecycleNext

LEMMA RequeueMoves ==
    ASSUME DeploymentInv, StatesByRow, StatesByRow',
           NEW j \in Jobs, failed[j] # None,
           DeleteFromFailed(j), InsertToQueue(j, failed[j]),
           UNCHANGED <<scheduled, processing, stale, processed, discarded,
                       call, attempts>>
    PROVE  LifecycleStep
<1>0. /\ QueueInv /\ RowsOK /\ TypeOK /\ QueuedOnce
      /\ queue \in Seq(QueueRow)
      /\ failed[j] \in RetryCounts
  BY DEF DeploymentInv, QueueInv, TypeOK, StoreTypeOK
<1>1. ~Queued(j)
  BY <1>0, RowTypes DEF RowsOK, OneRow
<1>2. /\ QueuedCount'[j] = failed[j]
      /\ \A k \in Jobs : k # j => QueuedCount'[k] = QueuedCount[k]
  BY <1>0, <1>1, CountsInserted, CountIsFunction
<1>3. \A k \in Jobs : k # j => failed'[k] = failed[k]
  BY <1>0 DEF DeleteFromFailed, TypeOK, StoreTypeOK
<1>4. StateOfRow(j) /\ StateOfRow(j)'
  BY DEF StatesByRow
<1>5. State(j) = "failed" /\ State(j)' = "enqueued"
  BY <1>2, <1>4 DEF StateOfRow
<1>6. \A k \in Jobs : k # j => SameRow(k)
  BY <1>2, <1>3 DEF SameRow
<1>7. Lifecycle!Requeue(j)
  BY <1>5, <1>6, OnlyMoves DEF Lifecycle!Requeue
<1>. QED BY <1>7 DEF LifecycleStep, Lifecycle!LifecycleNext

LEMMA DueMoves ==
    ASSUME Deployment, DeploymentInv, StatesByRow, StatesByRow',
           NEW p \in Procs, NEW j \in mover[p], EnqueueScheduled(p, j)
    PROVE  LifecycleStep
<1>0. /\ QueueInv /\ RowsOK /\ TypeOK /\ QueuedOnce
      /\ queue \in Seq(QueueRow)
      /\ 0 \in RetryCounts /\ None \notin RetryCounts
  BY RetryAssumption, NoneAssumption
     DEF DeploymentInv, QueueInv, TypeOK, StoreTypeOK, RetryCounts
<1>1. /\ j \in Jobs /\ j \in scheduled
      /\ UNCHANGED <<processing, processed, failed, discarded, call, attempts>>
      /\ \/ UNCHANGED <<scheduled, queue>>
         \/ /\ ~Queued(j)
            /\ DeleteFromScheduled(j) /\ InsertToQueue(j, 0)
  BY <1>0 DEF EnqueueScheduled, Transact, Applied, DeploymentInv, BatchesOK,
              MoverOK, TypeOK, StoreTypeOK
<1>2. CASE ~Queued(j) /\ DeleteFromScheduled(j) /\ InsertToQueue(j, 0)
  <2>1. /\ QueuedCount'[j] = 0
        /\ \A k \in Jobs : k # j => QueuedCount'[k] = QueuedCount[k]
    BY <1>0, <1>1, <1>2, CountsInserted, CountIsFunction
  <2>2. StateOfRow(j) /\ StateOfRow(j)'
    BY <1>1 DEF StatesByRow
  <2>3. State(j) = "scheduled" /\ State(j)' = "enqueued"
    BY <1>0, <1>1, <2>1, <2>2 DEF StateOfRow
  <2>4. \A k \in Jobs : k # j => SameRow(k)
    BY <1>1, <1>2, <2>1 DEF SameRow, DeleteFromScheduled
  <2>5. Lifecycle!BecomeDue(j)
    BY <1>1, <2>3, <2>4, OnlyMoves DEF Lifecycle!BecomeDue
  <2>. QED BY <1>1, <2>5 DEF LifecycleStep, Lifecycle!LifecycleNext
<1>. QED BY <1>1, <1>2, NobodyMoves

-----------------------------------------------------------------------------
(* Tries and their ends.                                                   *)

LEMMA DequeueMoves ==
    ASSUME Deployment, DeploymentInv, StatesByRow, StatesByRow',
           NEW p \in Procs, NEW w \in Slots, Dequeue(p, w)
    PROVE  LifecycleStep
<1>0. /\ TypeOK /\ RowsOK /\ None \notin RetryCounts
      /\ RetryCounts \subseteq Nat /\ AttemptCap \notin RetryCounts
  BY NoneAssumption, RetryAssumption
     DEF DeploymentInv, QueueInv, RetryCounts, AttemptCap
<1>1. UNCHANGED <<scheduled, processed, failed, discarded, call>>
  BY DEF Dequeue
<1>2. ASSUME NEW j \in Jobs, NEW rc \in RetryCounts, Takes(p, w, j, rc)
      PROVE  LifecycleStep
  <2>1. /\ QueuedCount[j] = rc
        /\ \A k \in Jobs : k # j => QueuedCount'[k] = QueuedCount[k]
    BY <1>2 DEF Takes
  <2>2. attempts[j] = rc
    BY <1>0, <2>1 DEF RowsOK, TriesOK
  <2>3. /\ processing'[j] = rc
        /\ \A k \in Jobs : k # j => processing'[k] = processing[k]
        /\ attempts' = [attempts EXCEPT ![j] = @ + 1]
    BY <1>0, <1>2, <2>2 DEF Takes, InsertToProcessing, TypeOK, StoreTypeOK
  <2>4. StateOfRow(j) /\ StateOfRow(j)'
    BY DEF StatesByRow
  <2>5. State(j) = "enqueued" /\ State(j)' = "processing"
    BY <1>0, <2>1, <2>3, <2>4 DEF StateOfRow
  <2>6. \A k \in Jobs : k # j => SameRow(k)
    BY <1>1, <2>1, <2>3 DEF SameRow
  <2>7. Lifecycle!StartTry(j)
    BY <2>3, <2>5, <2>6, OnlyMoves DEF Lifecycle!StartTry
  <2>. QED BY <2>7 DEF LifecycleStep, Lifecycle!LifecycleNext
<1>. QED BY <1>1, <1>2, DequeueTakes, NobodyMoves

LEMMA CompleteMoves ==
    ASSUME Deployment, DeploymentInv, StatesByRow, StatesByRow',
           NEW p \in Procs, NEW w \in Slots, Complete(p, w)
    PROVE  LifecycleStep
<1>0. TypeOK
  BY DEF DeploymentInv, QueueInv
<1>1. PICK j \in Jobs : Runs(p, w, j) /\ worker[p][w].job = j
  BY <1>0, InSlot DEF Complete, Runs, Executing
<1>2. /\ UNCHANGED <<scheduled, queue, failed, discarded, call, attempts>>
      /\ \/ UNCHANGED <<processed, processing>>
         \/ InsertToProcessed(j) /\ DeleteFromProcessing(j)
  BY <1>1 DEF Complete
<1>3. CASE InsertToProcessed(j) /\ DeleteFromProcessing(j)
  <2>1. processing[j] # None
    BY <1>1, RunningIsProcessing, NoneAssumption DEF RetryCounts
  <2>2. /\ processed' = processed \cup {j}
        /\ \A k \in Jobs : k # j => processing'[k] = processing[k]
        /\ UNCHANGED QueuedCount
    BY <1>0, <1>2, <1>3, CountsStay
       DEF InsertToProcessed, DeleteFromProcessing, TypeOK, StoreTypeOK
  <2>3. StateOfRow(j) /\ StateOfRow(j)'
    BY DEF StatesByRow
  <2>4. State(j) = "processing" /\ State(j)' = "processed"
    BY <2>1, <2>2, <2>3 DEF StateOfRow
  <2>5. \A k \in Jobs : k # j => SameRow(k)
    BY <1>2, <2>2 DEF SameRow
  <2>6. Lifecycle!Succeed(j)
    BY <1>2, <2>4, <2>5, OnlyMoves DEF Lifecycle!Succeed
  <2>. QED BY <2>6 DEF LifecycleStep, Lifecycle!LifecycleNext
<1>. QED BY <1>2, <1>3, NobodyMoves

LEMMA FailTxMoves ==
    ASSUME DeploymentInv, StatesByRow, StatesByRow',
           NEW j \in Jobs, NEW rc \in RetryCounts,
           processing[j] = rc, FailTx(j, rc),
           UNCHANGED <<scheduled, queue, processed, call, attempts>>
    PROVE  LifecycleStep
<1>0. /\ TypeOK /\ RowsOK /\ rc \in 0 .. MaxRetry /\ MaxRetry \in Nat
      /\ None \notin Nat
  BY RetryAssumption, NoneAssumption
     DEF DeploymentInv, QueueInv, RetryCounts
<1>1. processing[j] # None /\ attempts[j] = rc + 1
  BY <1>0 DEF RowsOK, TriesOK
<1>2. /\ \A k \in Jobs : k # j => processing'[k] = processing[k]
      /\ UNCHANGED QueuedCount
  BY <1>0, CountsStay
     DEF FailTx, DeleteFromProcessing, TypeOK, StoreTypeOK
<1>3. StateOfRow(j) /\ StateOfRow(j)' /\ State(j) = "processing"
  BY <1>1 DEF StatesByRow, StateOfRow
<1>4. CASE LastTry(rc)
  <2>1. discarded' = discarded \cup {j} /\ UNCHANGED failed
    BY <1>4 DEF FailTx
  <2>2. State(j)' = "discarded"
    BY <1>3, <2>1 DEF StateOfRow
  <2>3. \A k \in Jobs : k # j => SameRow(k)
    BY <1>2, <2>1 DEF SameRow
  <2>4. attempts[j] = MaxRetry + 1
    BY <1>0, <1>1, <1>4 DEF LastTry
  <2>5. Lifecycle!Discard(j)
    BY <1>3, <2>2, <2>3, <2>4, OnlyMoves DEF Lifecycle!Discard
  <2>. QED BY <2>5 DEF LifecycleStep, Lifecycle!LifecycleNext
<1>5. CASE ~LastTry(rc)
  <2>1. /\ failed'[j] = rc + 1
        /\ \A k \in Jobs : k # j => failed'[k] = failed[k]
        /\ UNCHANGED discarded
    BY <1>0, <1>5 DEF FailTx, InsertToFailed, TypeOK, StoreTypeOK
  <2>2. failed'[j] # None /\ attempts[j] <= MaxRetry
    BY <1>0, <1>1, <1>5, <2>1 DEF LastTry
  <2>3. State(j)' = "failed"
    BY <1>3, <2>2 DEF StateOfRow
  <2>4. \A k \in Jobs : k # j => SameRow(k)
    BY <1>2, <2>1 DEF SameRow
  <2>5. Lifecycle!FailTry(j)
    BY <1>3, <2>2, <2>3, <2>4, OnlyMoves DEF Lifecycle!FailTry
  <2>. QED BY <2>5 DEF LifecycleStep, Lifecycle!LifecycleNext
<1>. QED BY <1>4, <1>5

LEMMA FailMoves ==
    ASSUME DeploymentInv, StatesByRow, StatesByRow',
           NEW p \in Procs, NEW w \in Slots, Fail(p, w)
    PROVE  LifecycleStep
<1>0. TypeOK
  BY DEF DeploymentInv, QueueInv
<1>1. PICK j \in Jobs, rc \in RetryCounts :
         Runs(p, w, j) /\ worker[p][w].job = j /\ worker[p][w].rc = rc
  BY <1>0, InSlot DEF Fail, Runs, Executing
<1>2. /\ UNCHANGED <<scheduled, queue, processed, call, attempts>>
      /\ UNCHANGED <<processing, failed, discarded>> \/ FailTx(j, rc)
  BY <1>1 DEF Fail
<1>3. processing[j] = rc
  BY <1>1 DEF DeploymentInv, SlotsOK, SlotOK
<1>. QED BY <1>2, <1>3, FailTxMoves, NobodyMoves

LEMMA OrphanMoves ==
    ASSUME Deployment, DeploymentInv, StatesByRow, StatesByRow',
           NEW p \in Procs, NEW row \in checker[p], FailOrphan(p, row)
    PROVE  LifecycleStep
<1>1. PICK j \in Jobs, rc \in RetryCounts : row = [job |-> j, rc |-> rc]
  BY DEF DeploymentInv, QueueInv, TypeOK, QueueRow
<1>2. UNCHANGED <<scheduled, queue, processed, call, attempts>>
  BY DEF FailOrphan
<1>3. \/ UNCHANGED <<processing, failed, discarded>>
      \/ processing[j] = rc /\ FailTx(j, rc)
  BY <1>1, OrphanWorkedOff DEF Deployment
<1>. QED BY <1>2, <1>3, FailTxMoves, NobodyMoves

LEMMA RetryMoves ==
    ASSUME Deployment, DeploymentInv, StatesByRow, StatesByRow',
           NEW p \in Procs, NEW row \in retrier[p], Retry(p, row)
    PROVE  LifecycleStep
<1>1. PICK j \in Jobs, rc \in RetryCounts : row = [job |-> j, rc |-> rc]
  BY DEF DeploymentInv, QueueInv, TypeOK, QueueRow
<1>2. /\ UNCHANGED <<scheduled, processing, stale, processed, discarded, call,
                     attempts>>
      /\ UNCHANGED <<failed, queue>> \/ RetryTx(row)
  BY DEF Retry
<1>. QED BY <1>1, <1>2, RetryRequeues, RequeueMoves, NobodyMoves

-----------------------------------------------------------------------------
(* Every step.                                                             *)

LEMMA LifecycleStepMaps ==
    ASSUME Deployment
    PROVE  DeploymentInv /\ StatesByRow /\ StatesByRow' /\ [Next]_vars
              => LifecycleStep
<1> SUFFICES ASSUME DeploymentInv, StatesByRow, StatesByRow', [Next]_vars
             PROVE  LifecycleStep
  OBVIOUS
<1>1. ASSUME UNCHANGED <<storeVars, call, attempts>> PROVE LifecycleStep
  BY <1>1, NobodyMoves DEF storeVars
<1>2. ASSUME NEW j \in Jobs, JobStep(j) PROVE LifecycleStep
  <2>1. CASE WebRetry(j)
    <3>1. \/ UNCHANGED <<failed, queue>>
          \/ DeleteFromFailed(j) /\ InsertToQueue(j, failed[j])
      BY <2>1 DEF WebRetry
    <3>. QED BY <2>1, <3>1, RequeueMoves, NobodyMoves
             DEF WebRetry, Failed, procVars
  <2>2. CASE NineSecondsPass(j) \/ RetryTimePasses(j) \/ EnqueueTimePasses(j)
    BY <2>2, NobodyMoves
       DEF NineSecondsPass, HeartbeatExpires, RetryTimePasses, BackoffElapses,
           EnqueueTimePasses, ScheduleArrives, procVars
  <2>. QED BY <1>2, <2>1, <2>2, EnqueueMoves DEF JobStep
<1>3. ASSUME NEW p \in Procs, NEW w \in Slots, SlotStep(p, w)
      PROVE  LifecycleStep
  <2>1. \/ UNCHANGED <<storeVars, call, attempts>>
        \/ Dequeue(p, w) \/ Complete(p, w) \/ Fail(p, w)
    BY <1>3 DEF SlotStep, Submit, PollEmpty, StartJob, HandlerReturns, Leave
  <2>. QED BY <1>1, <2>1, DequeueMoves, CompleteMoves, FailMoves
<1>4. ASSUME NEW p \in Procs, LoopStep(p) PROVE LifecycleStep
  <2>1. ASSUME NEW j \in inMemory[p], Heartbeat(p, j) PROVE LifecycleStep
    BY <2>1, NobodyMoves DEF Heartbeat, procVars
  <2>2. \/ UNCHANGED <<storeVars, call, attempts>>
        \/ \E j \in mover[p] : EnqueueScheduled(p, j)
        \/ \E row \in retrier[p] : Retry(p, row)
        \/ \E j \in inMemory[p] : Heartbeat(p, j)
        \/ \E row \in checker[p] : FailOrphan(p, row)
    BY <1>4 DEF LoopStep, NextFromScheduled, NextFromFailed, GetOrphans
  <2>. QED BY <1>1, <2>1, <2>2, DueMoves, RetryMoves, OrphanMoves
<1>5. ASSUME NEW p \in Procs, ProcessStep(p) PROVE LifecycleStep
  <2>1. UNCHANGED <<storeVars, call, attempts>>
    BY <1>5 DEF ProcessStep, Start, CloseQuit, StopPool, WaitReturns, Advance,
                LoopExits, Exit
  <2>. QED BY <1>1, <2>1
<1>6. CASE UNCHANGED vars
  BY <1>1, <1>6 DEF vars, procVars
<1>. QED BY <1>2, <1>3, <1>4, <1>5, <1>6 DEF Next

LEMMA LifecycleInitMaps == Init => Lifecycle!LifecycleInit
<1> SUFFICES ASSUME Init PROVE Lifecycle!LifecycleInit
  OBVIOUS
<1>1. ASSUME NEW j \in Jobs PROVE State(j) = "new"
  <2>1. NoRow(j) /\ call[j] = "none"
    BY DEF Init, StoreInit, NoRow, QueuedCount, Queued
  <2>2. StateOfRow(j)
    BY DeploymentInit, StatesKnown DEF StatesByRow
  <2>. QED BY <2>1, <2>2 DEF StateOfRow
<1>2. [j \in Jobs |-> State(j)] = [j \in Jobs |-> "new"]
  BY <1>1
<1>. QED BY <1>2 DEF Init, Lifecycle!LifecycleInit

\* Every job lives the life JobLifecycle specifies, whatever crashes, failed
\* transactions and orphan recoveries happen on its way: it moves along one
\* arrow at a time, each try is counted, and it is dropped only after the
\* last retry (process.go:486-500).
THEOREM ImplementsLifecycle == ASSUME Deployment PROVE Spec => FollowsLifecycle
<1>1. Spec => []DeploymentInv
  BY DeploymentInvariant
<1>2. DeploymentInv => StatesByRow
  BY StatesKnown
<1>3. DeploymentInv /\ StatesByRow /\ StatesByRow' /\ [Next]_vars
         => [Lifecycle!LifecycleNext]_(Lifecycle!lifecycleVars)
  BY LifecycleStepMaps DEF LifecycleStep
<1>. QED BY <1>1, <1>2, <1>3, LifecycleInitMaps, PTL
         DEF Spec, FollowsLifecycle, Lifecycle!LifecycleSpec

-----------------------------------------------------------------------------
(* What a life along the arrows implies, of several steps at a time.       *)

\* A job has been started no more often than its retries allow, and can be
\* started again only while there is a try left.
TriesLeft(j) ==
    /\ attempts[j] \in 0 .. MaxRetry + 1
    /\ State(j) \in {"new", "scheduled", "enqueued", "failed"}
          => attempts[j] <= MaxRetry

\* Along an arrow, tries are left or used up.
LEMMA ArrowsKeepTries ==
    ASSUME TypeOK, TypeOK', Lifecycle!LifecycleNext,
           \A j \in Jobs : TriesLeft(j)
    PROVE  \A j \in Jobs : TriesLeft(j)'
<1> DEFINE states == [j \in Jobs |-> State(j)]
<1> SUFFICES ASSUME NEW k \in Jobs PROVE TriesLeft(k)'
  OBVIOUS
<1>1. /\ MaxRetry \in Nat
      /\ attempts \in [Jobs -> 0 .. AttemptCap]
      /\ attempts' \in [Jobs -> 0 .. AttemptCap]
  BY RetryAssumption DEF TypeOK
<1>2. ASSUME NEW j \in Jobs, NEW from, NEW to, Lifecycle!Move(j, from, to)
      PROVE  /\ State(j) = from
             /\ State(j)' = to
             /\ k # j => State(k)' = State(k)
  <2>1. states[j] = from /\ states' = [states EXCEPT ![j] = to]
    BY <1>2 DEF Lifecycle!Move
  <2>2. states'[k] = State(k)' /\ states'[j] = State(j)'
    OBVIOUS
  <2>. QED BY <2>1, <2>2
<1>3. PICK j \in Jobs :
         \/ Lifecycle!Accept(j)
         \/ Lifecycle!BecomeDue(j)
         \/ Lifecycle!StartTry(j)
         \/ Lifecycle!Succeed(j)
         \/ Lifecycle!FailTry(j)
         \/ Lifecycle!Discard(j)
         \/ Lifecycle!Requeue(j)
  BY DEF Lifecycle!LifecycleNext
<1>4. CASE Lifecycle!StartTry(j)
  <2>1. /\ Lifecycle!Move(j, "enqueued", "processing")
        /\ attempts' = [attempts EXCEPT ![j] = @ + 1]
    BY <1>4 DEF Lifecycle!StartTry
  <2>2. State(j) = "enqueued" /\ State(j)' = "processing"
    BY <1>2, <2>1
  <2>3. CASE k = j
    BY <1>1, <2>1, <2>2, <2>3 DEF TriesLeft
  <2>4. CASE k # j
    <3>1. State(k)' = State(k) /\ attempts'[k] = attempts[k]
      BY <1>1, <1>2, <2>1, <2>4
    <3>. QED BY <3>1 DEF TriesLeft
  <2>. QED BY <2>3, <2>4
<1>5. CASE ~Lifecycle!StartTry(j)
  <2>1. attempts' = attempts
    BY <1>3, <1>5
       DEF Lifecycle!Accept, Lifecycle!BecomeDue, Lifecycle!Succeed,
           Lifecycle!FailTry, Lifecycle!Discard, Lifecycle!Requeue
  <2>2. \/ \E to \in {"enqueued", "scheduled", "refused"} :
              Lifecycle!Move(j, "new", to)
        \/ Lifecycle!Move(j, "scheduled", "enqueued")
        \/ Lifecycle!Move(j, "processing", "processed")
        \/ Lifecycle!Move(j, "processing", "failed") /\ attempts[j] <= MaxRetry
        \/ Lifecycle!Move(j, "processing", "discarded")
        \/ Lifecycle!Move(j, "failed", "enqueued")
    BY <1>3, <1>5
       DEF Lifecycle!Accept, Lifecycle!BecomeDue, Lifecycle!Succeed,
           Lifecycle!FailTry, Lifecycle!Discard, Lifecycle!Requeue
  <2>3. /\ \/ attempts[j] <= MaxRetry
           \/ State(j)' \in {"processed", "discarded"}
        /\ k # j => State(k)' = State(k)
    BY <1>2, <2>2 DEF TriesLeft
  <2>4. TriesLeft(k) /\ attempts'[k] = attempts[k]
    BY <2>1
  <2>5. CASE k = j
    BY <2>3, <2>4, <2>5 DEF TriesLeft
  <2>6. CASE k # j
    BY <2>3, <2>4, <2>6 DEF TriesLeft
  <2>. QED BY <2>5, <2>6
<1>. QED BY <1>4, <1>5

\* No arrow leads away from a job that succeeded or was dropped.
LEMMA ArrowsLeaveSettled ==
    ASSUME TypeOK, LifecycleStep, NEW k \in Jobs,
           State(k) \in {"processed", "discarded"}
    PROVE  State(k)' = State(k) /\ attempts'[k] = attempts[k]
<1> DEFINE states == [j \in Jobs |-> State(j)]
<1>1. CASE Lifecycle!LifecycleNext
  <2>1. PICK j \in Jobs :
           \/ Lifecycle!Accept(j)
           \/ Lifecycle!BecomeDue(j)
           \/ Lifecycle!StartTry(j)
           \/ Lifecycle!Succeed(j)
           \/ Lifecycle!FailTry(j)
           \/ Lifecycle!Discard(j)
           \/ Lifecycle!Requeue(j)
    BY <1>1 DEF Lifecycle!LifecycleNext
  <2>2. PICK from \in {"new", "scheduled", "enqueued", "processing", "failed"} :
           \E to : Lifecycle!Move(j, from, to)
    BY <2>1
       DEF Lifecycle!Accept, Lifecycle!BecomeDue, Lifecycle!StartTry,
           Lifecycle!Succeed, Lifecycle!FailTry, Lifecycle!Discard,
           Lifecycle!Requeue
  <2>3. UNCHANGED attempts \/ attempts' = [attempts EXCEPT ![j] = @ + 1]
    BY <2>1
       DEF Lifecycle!Accept, Lifecycle!BecomeDue, Lifecycle!StartTry,
           Lifecycle!Succeed, Lifecycle!FailTry, Lifecycle!Discard,
           Lifecycle!Requeue
  <2>4. PICK to : Lifecycle!Move(j, from, to)
    BY <2>2
  <2>5. states[j] = from /\ states' = [states EXCEPT ![j] = to]
    BY <2>4 DEF Lifecycle!Move
  <2>6. states[j] = State(j) /\ states[k] = State(k) /\ states'[k] = State(k)'
    OBVIOUS
  <2>7. j # k
    BY <2>5, <2>6
  <2>8. attempts'[k] = attempts[k]
    BY <2>3, <2>7 DEF TypeOK
  <2>. QED BY <2>5, <2>6, <2>7, <2>8
<1>2. CASE UNCHANGED Lifecycle!lifecycleVars
  <2>1. states' = states /\ attempts' = attempts
    BY <1>2 DEF Lifecycle!lifecycleVars
  <2>2. states'[k] = State(k)' /\ states[k] = State(k)
    OBVIOUS
  <2>. QED BY <2>1, <2>2
<1>. QED BY <1>1, <1>2 DEF LifecycleStep

\* What both theorems rest on: every step goes along an arrow.
LEMMA ArrowsAlways ==
    ASSUME Deployment
    PROVE  Spec => /\ []TypeOK
                   /\ []StatesByRow
                   /\ [][Lifecycle!LifecycleNext]_(Lifecycle!lifecycleVars)
<1>1. DeploymentInv => TypeOK /\ StatesByRow
  BY StatesKnown DEF DeploymentInv, QueueInv
<1>2. Spec => []DeploymentInv
  BY DeploymentInvariant
<1>3. Spec => FollowsLifecycle
  BY ImplementsLifecycle
<1>. QED BY <1>1, <1>2, <1>3, PTL DEF FollowsLifecycle, Lifecycle!LifecycleSpec

\* Tries are left at the start, and along every arrow.
LEMMA TriesAlwaysLeft ==
    ASSUME Deployment PROVE Spec => [](\A j \in Jobs : TriesLeft(j))
<1> DEFINE Left == \A j \in Jobs : TriesLeft(j)
<1>1. Init => Left
  BY RetryAssumption DEF Init, TriesLeft
<1>2. /\ TypeOK /\ TypeOK' /\ Left
      /\ [Lifecycle!LifecycleNext]_(Lifecycle!lifecycleVars)
      => Left'
  <2>1. CASE Lifecycle!LifecycleNext
    BY <2>1, ArrowsKeepTries
  <2>2. CASE UNCHANGED Lifecycle!lifecycleVars
    <3> SUFFICES ASSUME Left, NEW k \in Jobs PROVE TriesLeft(k)'
      OBVIOUS
    <3> DEFINE states == [j \in Jobs |-> State(j)]
    <3>1. states' = states /\ attempts' = attempts
      BY <2>2 DEF Lifecycle!lifecycleVars
    <3>2. State(k)' = State(k)
      <4>1. states'[k] = State(k)' /\ states[k] = State(k)
        OBVIOUS
      <4>. QED BY <3>1, <4>1
    <3>. QED BY <3>1, <3>2 DEF TriesLeft
  <2>. QED BY <2>1, <2>2
<1>3. Spec => []Left
  <2> HIDE DEF Left
  <2>. QED BY <1>1, <1>2, ArrowsAlways, PTL DEF Spec
<1>. QED BY <1>3

\* A job is started at most once and once more for each of its retries,
\* however many crashes, orphan recoveries and retries by hand it meets
\* (process.go:694, "a total of 20 tries").
THEOREM TriesAreBounded ==
    ASSUME Deployment
    PROVE  Spec => [](\A j \in Jobs : attempts[j] <= MaxRetry + 1)
<1>1. (\A j \in Jobs : TriesLeft(j)) => \A j \in Jobs : attempts[j] <= MaxRetry + 1
  BY RetryAssumption DEF TriesLeft
<1>. QED BY <1>1, TriesAlwaysLeft, PTL

\* A job that succeeded or was dropped stays so and is not started again,
\* whatever rows and batches still named it when it did.
THEOREM SettledForGood ==
    ASSUME Deployment
    PROVE  Spec => [][\A j \in Jobs :
                        State(j) \in {"processed", "discarded"}
                        => State(j)' = State(j) /\ attempts'[j] = attempts[j]]_vars
<1>1. TypeOK /\ [Lifecycle!LifecycleNext]_(Lifecycle!lifecycleVars)
      => \A j \in Jobs :
            State(j) \in {"processed", "discarded"}
            => State(j)' = State(j) /\ attempts'[j] = attempts[j]
  BY ArrowsLeaveSettled DEF LifecycleStep
<1>. QED BY <1>1, ArrowsAlways, PTL

=============================================================================
