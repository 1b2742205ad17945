---------------------------- MODULE AdaptersProofs ----------------------------
(***************************************************************************)
(* Both adapters implement AtomicStore, for any number of slots, sweepers, *)
(* jobs and connections and under every fault: whatever goroutines do      *)
(* between the statements of a transaction, its commit is one step of the  *)
(* abstract store and its abort none.                                      *)
(***************************************************************************)
EXTENDS Adapters, TLAPS, FiniteSetTheorems

-----------------------------------------------------------------------------
(* What the two statements of a transaction write, on either adapter.      *)

\* The row of a job in processing, with its heartbeat, is gone.
Removed(s, j) ==
    [s EXCEPT !.processing = [s.processing EXCEPT ![j] = None],
              !.beats = s.beats \ {j}, !.old = s.old \ {j}]

FirstWrites(op, s, j) ==
    CASE op = "dequeue" ->
            [s EXCEPT !.enqueued = [s.enqueued EXCEPT ![j] = None]]
      [] op = "complete" -> [s EXCEPT !.processed = s.processed \cup {j}]
      [] op \in {"fail", "orphan"} -> Removed(s, j)
      [] op \in {"retry", "webRetry"} ->
            [s EXCEPT !.failed = [s.failed EXCEPT ![j] = None]]
      [] op = "move" -> [s EXCEPT !.scheduled = s.scheduled \ {j}]

SecondWrites(op, s, j, n) ==
    CASE op = "dequeue" ->
            [s EXCEPT !.processing = [s.processing EXCEPT ![j] = n],
                      !.beats = s.beats \cup {j}, !.old = s.old \ {j}]
      [] op = "complete" -> Removed(s, j)
      [] op \in {"fail", "orphan"} ->
            [s EXCEPT !.failed = [s.failed EXCEPT ![j] = n]]
      [] op \in {"retry", "webRetry", "move"} ->
            [s EXCEPT !.enqueued = [s.enqueued EXCEPT ![j] = n]]

\* A row in processing has a heartbeat, and on the SQL adapter only a row.
Sound(s) ==
    /\ \A j \in Jobs : s.processing[j] # None => j \in s.beats
    /\ s.old \subseteq s.beats
    /\ kind = "sql" => \A j \in s.beats : s.processing[j] # None

LEMMA RemovedState ==
    ASSUME NEW s \in State, NEW j \in Jobs
    PROVE  /\ Removed(s, j) \in State
           /\ Sound(s) => Sound(Removed(s, j))
BY DEF Removed, State, Rows, Sound

\* The first statement of each operation: what it returns and writes.
LEMMA FirstAnswer ==
    ASSUME kind \in {"memory", "sql"},
           NEW s \in State, NEW op \in Operations, NEW j \in Jobs, NEW rc,
           op = "dequeue" => s.enqueued[j] # None,
           NEW a, a = Call(FirstMethod(op), s, j, rc)
    PROVE  /\ a.result \in {"ok", "exists", "none"}
           /\ a.result # "ok" => a.state = s /\ a.rc = None
           /\ a.result = "ok" => a.state = FirstWrites(op, s, j)
           /\ a.result = "exists" => op = "complete"
           /\ a.result = "none" => op \in {"retry", "webRetry"}
           /\ op = "dequeue" => a.rc = s.enqueued[j]
           /\ op = "complete" /\ a.result = "ok" =>
                 j \notin s.processed /\ a.rc = None
           /\ op \in {"fail", "orphan", "move"} => a.rc = None
           /\ op \in {"retry", "webRetry"} /\ a.result = "ok" =>
                 a.rc = s.failed[j] /\ a.rc # None
<1>1. CASE op = "dequeue"
  BY <1>1, NoneAssumption
     DEF FirstMethod, FirstWrites, State, Rows, Call, Memory!Call, Sql!Call,
         Memory!DeleteFromQueue, Sql!DeleteFromQueue, Memory!Found, Sql!Row
<1>2. CASE op = "complete"
  BY <1>2 DEF FirstMethod, FirstWrites, State, Call, Memory!Call, Sql!Call,
         Memory!InsertToProcessed, Sql!InsertToProcessed, Memory!Ok, Sql!Done,
         Memory!Duplicate, Sql!Conflict
<1>3. CASE op \in {"fail", "orphan"}
  BY <1>3 DEF FirstMethod, FirstWrites, Removed, State, Rows, Call, Memory!Call,
         Sql!Call, Memory!DeleteFromProcessing, Sql!DeleteFromProcessing,
         Memory!Ok, Sql!Done
<1>4. CASE op \in {"retry", "webRetry"}
  BY <1>4 DEF FirstMethod, FirstWrites, State, Rows, Call, Memory!Call, Sql!Call,
         Memory!ClaimFailed, Sql!ClaimFailed, Memory!Found, Sql!Row,
         Memory!Nothing, Sql!NoRow
<1>5. CASE op = "move"
  BY <1>5 DEF FirstMethod, FirstWrites, State, Call, Memory!Call, Sql!Call,
         Memory!DeleteFromScheduled, Sql!DeleteFromScheduled, Memory!Ok,
         Sql!Done
<1>. QED BY <1>1, <1>2, <1>3, <1>4, <1>5 DEF Operations

\* An empty queue.
LEMMA EmptyAnswer ==
    ASSUME kind \in {"memory", "sql"}, NEW s, NEW rc,
           NEW a, a = Call(FirstMethod("dequeue"), s, None, rc)
    PROVE  a.state = s /\ a.result = "none" /\ a.rc = None
BY DEF FirstMethod, Call, Memory!Call, Sql!Call, Memory!DeleteFromQueue,
       Sql!DeleteFromQueue, Memory!Nothing, Sql!NoRow

\* The second one.
LEMMA SecondAnswer ==
    ASSUME kind \in {"memory", "sql"},
           NEW s \in State, Sound(s), NEW op \in Operations, NEW j \in Jobs,
           NEW n \in RetryCounts,
           NEW a, a = Call(SecondMethod(op), s, j, n)
    PROVE  /\ a.result \in {"ok", "exists"}
           /\ a.result = "exists" =>
                 /\ a.state = s
                 /\ op \in {"retry", "webRetry", "move"} =>
                       s.enqueued[j] # None
           /\ a.result = "ok" =>
                 /\ a.state = SecondWrites(op, s, j, n)
                 /\ op = "dequeue" => s.processing[j] = None
                 /\ op \in {"fail", "orphan"} => s.failed[j] = None
                 /\ op \in {"retry", "webRetry", "move"} =>
                       s.enqueued[j] = None
<1>1. CASE op = "dequeue"
  <2>1. kind = "sql" /\ s.processing[j] = None => s.old \ {j} = s.old
    BY DEF Sound
  <2>. QED
    BY <1>1, <2>1 DEF SecondMethod, SecondWrites, State, Rows, Call,
         Memory!Call, Sql!Call, Memory!InsertToProcessing,
         Sql!InsertToProcessing, Memory!Ok, Sql!Done, Memory!Duplicate,
         Sql!Conflict
<1>2. CASE op = "complete"
  BY <1>2 DEF SecondMethod, SecondWrites, Removed, State, Rows, Call,
         Memory!Call, Sql!Call, Memory!DeleteFromProcessing,
         Sql!DeleteFromProcessing, Memory!Ok, Sql!Done
<1>3. CASE op \in {"fail", "orphan"}
  BY <1>3 DEF SecondMethod, SecondWrites, State, Rows, Call, Memory!Call,
         Sql!Call, Memory!InsertToFailed, Sql!InsertToFailed, Memory!Ok,
         Sql!Done, Memory!Duplicate, Sql!Conflict
<1>4. CASE op \in {"retry", "webRetry", "move"}
  BY <1>4 DEF SecondMethod, SecondWrites, State, Rows, Call, Memory!Call,
         Sql!Call, Memory!InsertToQueue, Sql!InsertToQueue, Memory!Ok,
         Sql!Done, Memory!Duplicate, Sql!Conflict
<1>. QED BY <1>1, <1>2, <1>3, <1>4 DEF Operations

LEMMA FirstState ==
    ASSUME NEW s \in State, NEW op \in Operations, NEW j \in Jobs
    PROVE  /\ FirstWrites(op, s, j) \in State
           /\ Sound(s) => Sound(FirstWrites(op, s, j))
<1>1. CASE op = "dequeue"
  BY <1>1 DEF FirstWrites, State, Rows, Sound
<1>2. CASE op = "complete"
  BY <1>2 DEF FirstWrites, State, Sound
<1>3. CASE op \in {"fail", "orphan"}
  BY <1>3, RemovedState DEF FirstWrites
<1>4. CASE op \in {"retry", "webRetry"}
  BY <1>4 DEF FirstWrites, State, Rows, Sound
<1>5. CASE op = "move"
  BY <1>5 DEF FirstWrites, State, Sound
<1>. QED BY <1>1, <1>2, <1>3, <1>4, <1>5 DEF Operations

LEMMA SecondState ==
    ASSUME NEW s \in State, NEW op \in Operations, NEW j \in Jobs,
           NEW n \in RetryCounts
    PROVE  /\ SecondWrites(op, s, j, n) \in State
           /\ Sound(s) => Sound(SecondWrites(op, s, j, n))
<1>0. n # None
  BY NoneAssumption, RetryAssumption DEF RetryCounts
<1>1. CASE op = "dequeue"
  BY <1>0, <1>1 DEF SecondWrites, State, Rows, Sound
<1>2. CASE op = "complete"
  BY <1>2, RemovedState DEF SecondWrites
<1>3. CASE op \in {"fail", "orphan"}
  BY <1>3 DEF SecondWrites, State, Rows, Sound
<1>4. CASE op \in {"retry", "webRetry", "move"}
  BY <1>4 DEF SecondWrites, State, Rows, Sound
<1>. QED BY <1>1, <1>2, <1>3, <1>4 DEF Operations

-----------------------------------------------------------------------------
(* The invariant: what each goroutine holds, who has the lock, and what    *)
(* its transaction has written so far to what is committed.                *)

Pcs == {"idle", "call", "taken", "running", "leaving"} \cup InTransaction

ClientOK(c) ==
    LET me == client[c]
    IN /\ me \in [pc : Pcs, op : Operations \cup {None},
                  job : Jobs \cup {None}, rc : RetryCounts \cup {None}]
       /\ me.pc = "idle" => me = Idle
       /\ me.pc \in {"call"} \cup InTransaction =>
             /\ me.op \in Operations
             /\ me.op # "dequeue" => me.job \in Jobs
             /\ me.op \in {"complete", "fail", "orphan"} =>
                   me.rc \in RetryCounts
       /\ me.pc = "half" => me.job \in Jobs
       /\ me.pc \in {"call", "open"} /\ me.op = "dequeue" => me.rc = None
       /\ me.pc = "full" /\ me.op = "dequeue" /\ me.job # None =>
             me.rc \in RetryCounts
       /\ me.pc \in {"taken", "running", "leaving"} => me.job \in Jobs
       /\ me.pc \in {"taken", "running"} => me.rc \in RetryCounts

LockOK(c) ==
    /\ client[c].pc \in {"half", "full"} => holder = c
    /\ holder = c => client[c].pc \in InTransaction
    /\ c \in open => kind = "sql" /\ client[c].pc \in InTransaction
    /\ kind = "memory" /\ client[c].pc \in InTransaction => holder = c
    /\ kind = "sql" /\ client[c].pc \in InTransaction => c \in open
    /\ kind = "sql" /\ client[c].pc = "open" => holder # c

\* The retry count an operation carries when its first statement is done.
CountOK(me, s) ==
    CASE me.op = "dequeue" -> me.rc = s.enqueued[me.job] /\ me.rc # None
      [] me.op = "complete" -> me.job \notin s.processed
      [] me.op \in {"fail", "orphan"} -> TRUE
      [] me.op \in {"retry", "webRetry"} ->
            me.rc = s.failed[me.job] /\ me.rc # None
      [] me.op = "move" -> TRUE

HalfDone(me, s, t) ==
    /\ CountOK(me, s)
    /\ t = FirstWrites(me.op, s, me.job)
    /\ me.op \in {"fail", "orphan"} => me.rc < MaxRetry

\* The row the second statement writes is not there yet.
Free(me, t) ==
    CASE me.op = "dequeue" -> t.processing[me.job] = None
      [] me.op = "complete" -> TRUE
      [] me.op \in {"fail", "orphan"} -> t.failed[me.job] = None
      [] me.op \in {"retry", "webRetry", "move"} -> t.enqueued[me.job] = None

FullyDone(me, s, t) ==
    \/ t = s
    \/ /\ me.op \in {"fail", "orphan"}
       /\ me.rc = MaxRetry
       /\ me.job \in Jobs
       /\ t = FirstWrites(me.op, s, me.job)
    \/ /\ me.op = "retry"
       /\ me.job \in Jobs
       /\ CountOK(me, s)
       /\ t = FirstWrites(me.op, s, me.job)
       /\ t.enqueued[me.job] # None
    \/ \E u \in State :
          /\ me.job \in Jobs
          /\ HalfDone(me, s, u)
          /\ Free(me, u)
          /\ t = SecondWrites(me.op, u, me.job, SecondCount(me.op, me.rc))

WorkOK(c) ==
    /\ client[c].pc = "open" /\ holder = c => work = db
    /\ client[c].pc = "half" => HalfDone(client[c], db, work)
    /\ client[c].pc = "full" => FullyDone(client[c], db, work)

StoreOK ==
    /\ kind \in {"memory", "sql"}
    /\ db \in State /\ Sound(db)
    /\ holder \in Clients \cup {None}
    /\ holder # None => work \in State /\ Sound(work)
    /\ holder = None => work = None
    /\ open \subseteq Clients /\ IsFiniteSet(open)
    /\ lost \in 0 .. MaxConns
    /\ fresh \subseteq Jobs
    /\ known \subseteq Jobs
    /\ beating \subseteq known
    /\ DOMAIN client = Clients /\ client = [c \in Clients |-> client[c]]

Inv ==
    /\ StoreOK
    /\ \A c \in Clients : ClientOK(c) /\ LockOK(c) /\ WorkOK(c)

LEMMA InitInv == Init => Inv
<1> SUFFICES ASSUME Init PROVE Inv
  OBVIOUS
<1>1. NoRow \in Rows
  BY DEF NoRow, Rows
<1>2. db \in State /\ Sound(db)
  BY <1>1 DEF Init, EmptyState, State, Sound, NoRow
<1>3. StoreOK
  BY <1>2, ConnAssumption, FS_EmptySet DEF Init, StoreOK
<1>4. ASSUME NEW c \in Clients
      PROVE  ClientOK(c) /\ LockOK(c) /\ WorkOK(c)
  <2>1. client[c] = Idle /\ c # None
    BY NoneAssumption DEF Init, Clients
  <2>. QED BY <2>1 DEF Init, ClientOK, LockOK, WorkOK, Idle, Pcs, InTransaction
<1>. QED BY <1>3, <1>4 DEF Inv

\* Nothing changes for those who take no part in a step.
LEMMA Others ==
    ASSUME Inv, NEW c, kind' = kind,
           \A d \in Clients \ {c} :
              /\ client'[d] = client[d]
              /\ holder = d <=> holder' = d
              /\ holder = d => db' = db /\ work' = work
              /\ d \in open <=> d \in open'
    PROVE  \A d \in Clients \ {c} : ClientOK(d)' /\ LockOK(d)' /\ WorkOK(d)'
<1> SUFFICES ASSUME NEW d \in Clients \ {c}
             PROVE  ClientOK(d)' /\ LockOK(d)' /\ WorkOK(d)'
  OBVIOUS
<1>1. ClientOK(d) /\ LockOK(d) /\ WorkOK(d)
  BY DEF Inv
<1>2. client'[d] = client[d]
  OBVIOUS
<1>3. ClientOK(d)'
  BY <1>1, <1>2 DEF ClientOK
<1>4. LockOK(d)'
  BY <1>1, <1>2 DEF LockOK
<1>5. WorkOK(d)'
  <2>1. CASE holder = d
    BY <1>1, <1>2, <2>1 DEF WorkOK
  <2>2. CASE holder # d
    BY <1>1, <1>2, <2>2 DEF WorkOK, LockOK
  <2>. QED BY <2>1, <2>2
<1>. QED BY <1>3, <1>4, <1>5

\* What a step of one client must show.
LEMMA Stepped ==
    ASSUME Inv, NEW c \in Clients, kind' = kind, StoreOK',
           \A d \in Clients \ {c} :
              /\ client'[d] = client[d]
              /\ holder = d <=> holder' = d
              /\ holder = d => db' = db /\ work' = work
              /\ d \in open <=> d \in open',
           ClientOK(c)', LockOK(c)', WorkOK(c)'
    PROVE  Inv'
<1>1. \A d \in Clients \ {c} : ClientOK(d)' /\ LockOK(d)' /\ WorkOK(d)'
  BY Others
<1>. QED BY <1>1 DEF Inv

\* Only the client moves on: the adapter is left alone.
LEMMA Untouched ==
    ASSUME StoreOK, UNCHANGED <<kind, db, holder, work, open, lost>>,
           fresh' \subseteq Jobs, known' \subseteq Jobs,
           beating' \subseteq known',
           DOMAIN client' = Clients /\ client' = [c \in Clients |-> client'[c]]
    PROVE  StoreOK'
BY DEF StoreOK, Sound

-----------------------------------------------------------------------------
(* The steps of a transaction. *)

LEMMA BeginTxKeeps ==
    ASSUME Inv, NEW c \in Clients, BeginTx(c)
    PROVE  Inv'
<1>1. ClientOK(c) /\ LockOK(c) /\ StoreOK
  BY DEF Inv
<1>2. /\ client[c].pc = "call"
      /\ client' = [client EXCEPT ![c].pc = "open"]
      /\ UNCHANGED <<kind, fresh, known, beating>>
      /\ Begin(c)
  BY DEF BeginTx
<1>3. client'[c] = [client[c] EXCEPT !.pc = "open"]
  BY <1>1, <1>2 DEF StoreOK
<1>4. ClientOK(c)'
  BY <1>1, <1>2, <1>3 DEF ClientOK, InTransaction, Pcs
<1>5. c # None
  BY NoneAssumption DEF Clients
<1>6. IsFiniteSet(open \cup {c})
  BY <1>1, FS_AddElement DEF StoreOK
<1>7. holder # c /\ c \notin open
  BY <1>1, <1>2 DEF LockOK, InTransaction
<1>8. CASE kind = "memory"
  <2>1. /\ holder = None /\ holder' = c /\ work' = db /\ db' = db
        /\ UNCHANGED <<open, lost>>
    BY <1>2, <1>8 DEF Begin, Memory!Begin
  <2>2. StoreOK'
    BY <1>1, <1>2, <1>5, <2>1 DEF StoreOK, Sound
  <2>3. LockOK(c)' /\ WorkOK(c)'
    BY <1>1, <1>2, <1>3, <1>8, <2>1 DEF LockOK, WorkOK, InTransaction, ClientOK
  <2>. QED BY <1>1, <1>2, <1>4, <1>5, <2>1, <2>2, <2>3, Stepped, NoneAssumption
              DEF StoreOK, Clients
<1>9. CASE kind = "sql"
  <2>1. /\ UNCHANGED <<db, holder, work, lost>>
        /\ open' = open \cup {c}
    BY <1>2, <1>9 DEF Begin, Sql!Begin
  <2>2. StoreOK'
    BY <1>1, <1>2, <1>6, <2>1 DEF StoreOK, Sound
  <2>3. LockOK(c)' /\ WorkOK(c)'
    BY <1>1, <1>2, <1>3, <1>7, <1>9, <2>1
       DEF LockOK, WorkOK, InTransaction, ClientOK
  <2>. QED BY <1>1, <1>2, <1>4, <2>1, <2>2, <2>3, Stepped DEF StoreOK
<1>. QED BY <1>1, <1>8, <1>9 DEF StoreOK

\* Any statement of a client's transaction.
LEMMA StatementKeeps ==
    ASSUME Inv, NEW c \in Clients, NEW a, Statement(c, a),
           UNCHANGED <<kind, fresh, known, beating>>,
           NEW me, client' = [client EXCEPT ![c] = me],
           client[c].pc \in {"open", "half"},
           a.state \in State, Sound(a.state),
           me.pc \in {"half", "full", "broken"}, ClientOK(c)',
           me.pc = "half" => HalfDone(me, db, a.state),
           me.pc = "full" => FullyDone(me, db, a.state)
    PROVE  Inv' /\ UNCHANGED db
<1>1. ClientOK(c) /\ LockOK(c) /\ StoreOK /\ c # None
  BY NoneAssumption DEF Inv, Clients
<1>2. /\ holder \in {None, c} /\ holder' = c /\ work' = a.state
      /\ UNCHANGED <<db, open, lost>>
  BY <1>1 DEF Statement, Memory!Statement, Sql!Statement, StoreOK
<1>3. client'[c] = me
  BY <1>1 DEF StoreOK
<1>4. StoreOK'
  BY <1>1, <1>2 DEF StoreOK, Sound
<1>5. LockOK(c)'
  BY <1>1, <1>2, <1>3 DEF LockOK, InTransaction
<1>6. WorkOK(c)'
  BY <1>1, <1>2, <1>3 DEF WorkOK
<1>7. ASSUME NEW d \in Clients \ {c}
      PROVE  /\ client'[d] = client[d]
             /\ holder # d /\ holder' # d
             /\ d \in open <=> d \in open'
  BY <1>1, <1>2, NoneAssumption DEF StoreOK, Clients
<1>8. Inv'
  BY <1>4, <1>5, <1>6, <1>7, Stepped
<1>. QED BY <1>2, <1>8

LEMMA FirstKeeps ==
    ASSUME Inv, NEW c \in Clients, First(c)
    PROVE  Inv' /\ UNCHANGED db
<1>1. ClientOK(c) /\ LockOK(c) /\ WorkOK(c) /\ StoreOK
  BY DEF Inv
<1>2. client[c].pc = "open" /\ UNCHANGED <<kind, fresh, known, beating>>
  BY DEF First
<1> DEFINE op == client[c].op
<1>3. op \in Operations /\ db \in State /\ Sound(db)
  BY <1>1, <1>2 DEF ClientOK, InTransaction, StoreOK
<1>4. Seen(c) = db
  BY <1>1, <1>2 DEF Seen, Sql!Seen, LockOK, WorkOK, StoreOK, InTransaction
<1>5. PICK j \in Candidates(c) :
        LET me     == client[c]
            answer == Call(FirstMethod(me.op), db, j, me.rc)
            rc     == IF answer.rc = None THEN me.rc ELSE answer.rc
        IN /\ Statement(c, answer)
           /\ client' = [client EXCEPT ![c] =
                           [me EXCEPT !.pc = AfterFirst(me.op, rc,
                                                        answer.result),
                                      !.job = j, !.rc = rc]]
  BY <1>4 DEF First
<1> DEFINE a  == Call(FirstMethod(op), db, j, client[c].rc)
           rc == IF a.rc = None THEN client[c].rc ELSE a.rc
           me == [client[c] EXCEPT !.pc = AfterFirst(op, rc, a.result),
                                   !.job = j, !.rc = rc]
<1>6. Statement(c, a) /\ client' = [client EXCEPT ![c] = me]
  BY <1>5
<1>7. client'[c] = me
  BY <1>1, <1>6 DEF StoreOK
<1>8. /\ op # "dequeue" => j = client[c].job /\ j \in Jobs
      /\ op = "dequeue" => \/ j = None
                           \/ j \in Jobs /\ db.enqueued[j] # None
  BY <1>1, <1>2, <1>4 DEF Candidates, ClientOK, InTransaction
<1>9. kind \in {"memory", "sql"}
  BY <1>1 DEF StoreOK
<1>10. CASE j = None
  <2>1. op = "dequeue"
    BY <1>8, <1>10, NoneAssumption
  <2>2. a.state = db /\ a.result = "none" /\ a.rc = None
    BY <1>9, <1>10, <2>1, EmptyAnswer
  <2>3. me = [client[c] EXCEPT !.pc = "full", !.job = None]
    BY <1>1, <1>2, <1>10, <2>1, <2>2 DEF AfterFirst, ClientOK
  <2> HIDE DEF a, rc, me
  <2>4. me.pc = "full" /\ me.job = None /\ me.op = "dequeue"
    BY <1>1, <2>1, <2>3 DEF ClientOK
  <2>5. ClientOK(c)'
    BY <1>1, <1>2, <1>7, <2>1, <2>3, NoneAssumption
       DEF ClientOK, Pcs, InTransaction
  <2>6. FullyDone(me, db, a.state)
    BY <2>2 DEF FullyDone
  <2>. QED BY <1>1, <1>2, <1>3, <1>6, <2>2, <2>4, <2>5, <2>6, StatementKeeps
<1>11. CASE j # None
  <2>1. j \in Jobs /\ (op = "dequeue" => db.enqueued[j] # None)
    BY <1>8, <1>11
  <2>2. /\ a.result \in {"ok", "exists", "none"}
        /\ a.result # "ok" => a.state = db /\ a.rc = None
        /\ a.result = "ok" => a.state = FirstWrites(op, db, j)
        /\ a.result = "exists" => op = "complete"
        /\ a.result = "none" => op \in {"retry", "webRetry"}
        /\ op = "dequeue" => a.rc = db.enqueued[j]
        /\ op = "complete" /\ a.result = "ok" =>
              j \notin db.processed /\ a.rc = None
        /\ op \in {"fail", "orphan", "move"} => a.rc = None
        /\ op \in {"retry", "webRetry"} /\ a.result = "ok" =>
              a.rc = db.failed[j] /\ a.rc # None
    BY <1>3, <1>9, <2>1, FirstAnswer
  <2>3. a.state \in State /\ Sound(a.state)
    BY <1>3, <2>1, <2>2, FirstState
  <2>4. a.rc \in RetryCounts \cup {None}
    BY <1>3, <2>1, <2>2 DEF State, Rows, Operations
  <2> HIDE DEF a
  <2>5. rc \in RetryCounts \cup {None}
    BY <1>1, <2>4 DEF ClientOK
  <2>6. op \in {"complete", "fail", "orphan"} => rc \in RetryCounts
    BY <1>1, <1>2, <2>2 DEF ClientOK, InTransaction
  <2>7. op = "dequeue" => rc = db.enqueued[j] /\ rc # None
    BY <2>1, <2>2
  <2>8. op \in {"retry", "webRetry"} /\ a.result = "ok" =>
           rc = db.failed[j] /\ rc # None
    BY <2>2
  <2>9. AfterFirst(op, rc, a.result) \in {"half", "full", "broken"}
    BY <2>2 DEF AfterFirst
  <2> HIDE DEF rc
  <2>10. /\ me.pc = AfterFirst(op, rc, a.result) /\ me.op = op
         /\ me.job = j /\ me.rc = rc
         /\ me \in [pc : Pcs, op : Operations \cup {None},
                    job : Jobs \cup {None}, rc : RetryCounts \cup {None}]
    BY <1>1, <2>1, <2>5, <2>9 DEF ClientOK, Pcs, InTransaction
  <2> HIDE DEF me
  <2>11. ClientOK(c)'
    BY <1>3, <1>7, <2>1, <2>5, <2>6, <2>7, <2>9, <2>10
       DEF ClientOK, InTransaction
  <2>12. ASSUME me.pc = "half" PROVE HalfDone(me, db, a.state)
    <3>1. a.result = "ok" /\ (op \in {"fail", "orphan"} => ~(rc + 1 > MaxRetry))
      BY <2>2, <2>10, <2>12 DEF AfterFirst
    <3>2. CountOK(me, db)
      BY <1>3, <2>2, <2>7, <2>8, <2>10, <3>1 DEF CountOK, Operations
    <3>3. op \in {"fail", "orphan"} => rc < MaxRetry
      BY <2>6, <3>1, RetryAssumption DEF RetryCounts
    <3>. QED BY <2>2, <2>10, <3>1, <3>2, <3>3 DEF HalfDone
  <2>13. ASSUME me.pc = "full" PROVE FullyDone(me, db, a.state)
    <3>1. CASE a.result # "ok"
      BY <2>2, <3>1 DEF FullyDone
    <3>2. CASE a.result = "ok"
      <4>1. op \in {"fail", "orphan"} /\ rc + 1 > MaxRetry
        BY <2>10, <2>13, <3>2 DEF AfterFirst
      <4>2. rc = MaxRetry
        BY <2>6, <4>1, RetryAssumption DEF RetryCounts
      <4>. QED BY <2>1, <2>2, <2>10, <3>2, <4>1, <4>2 DEF FullyDone
    <3>. QED BY <3>1, <3>2
  <2>. QED BY <1>2, <1>6, <2>3, <2>9, <2>10, <2>11, <2>12, <2>13, StatementKeeps
<1>. QED BY <1>10, <1>11

LEMMA SecondKeeps ==
    ASSUME Inv, NEW c \in Clients, Second(c)
    PROVE  Inv' /\ UNCHANGED db
<1>1. ClientOK(c) /\ LockOK(c) /\ WorkOK(c) /\ StoreOK
  BY DEF Inv
<1>2. client[c].pc = "half" /\ UNCHANGED <<kind, fresh, known, beating>>
  BY DEF Second
<1>3. /\ holder = c /\ c # None
      /\ work \in State /\ Sound(work) /\ db \in State
      /\ HalfDone(client[c], db, work)
  BY <1>1, <1>2, NoneAssumption DEF LockOK, WorkOK, StoreOK, Clients
<1>4. Seen(c) = work
  BY <1>3 DEF Seen, Sql!Seen
<1> DEFINE op == client[c].op
           j  == client[c].job
           n  == SecondCount(op, client[c].rc)
           a  == Call(SecondMethod(op), work, j, n)
           me == [client[c] EXCEPT !.pc = AfterSecond(op, a.result)]
<1>5. op \in Operations /\ j \in Jobs /\ kind \in {"memory", "sql"}
  BY <1>1, <1>2 DEF ClientOK, InTransaction, StoreOK
<1>6. Statement(c, a) /\ client' = [client EXCEPT ![c] = me]
  BY <1>1, <1>4 DEF Second, StoreOK
<1>7. client'[c] = me
  BY <1>1, <1>6 DEF StoreOK
<1>8. op \in {"dequeue", "complete", "retry", "webRetry"} =>
         client[c].rc \in RetryCounts
  BY <1>1, <1>2, <1>3, <1>5
     DEF HalfDone, CountOK, State, Rows, ClientOK, InTransaction
<1>9. n \in RetryCounts
  <2>1. CASE op \in {"fail", "orphan"}
    BY <1>1, <1>2, <1>3, <2>1, RetryAssumption
       DEF HalfDone, SecondCount, RetryCounts, ClientOK, InTransaction
  <2>2. CASE op = "move"
    BY <2>2, RetryAssumption DEF SecondCount, RetryCounts
  <2>. QED BY <1>5, <1>8, <2>1, <2>2 DEF SecondCount, Operations
<1>10. /\ a.result \in {"ok", "exists"}
       /\ a.result = "exists" =>
             /\ a.state = work
             /\ op \in {"retry", "webRetry", "move"} => work.enqueued[j] # None
       /\ a.result = "ok" =>
             /\ a.state = SecondWrites(op, work, j, n)
             /\ op = "dequeue" => work.processing[j] = None
             /\ op \in {"fail", "orphan"} => work.failed[j] = None
             /\ op \in {"retry", "webRetry", "move"} =>
                   work.enqueued[j] = None
  BY <1>3, <1>5, <1>9, SecondAnswer
<1>11. a.state \in State /\ Sound(a.state)
  BY <1>3, <1>5, <1>9, <1>10, SecondState
<1> HIDE DEF a
<1>12. AfterSecond(op, a.result) \in {"full", "broken"}
  BY DEF AfterSecond
<1>13. /\ me.pc = AfterSecond(op, a.result) /\ me.op = op
       /\ me.job = j /\ me.rc = client[c].rc
       /\ me \in [pc : Pcs, op : Operations \cup {None},
                  job : Jobs \cup {None}, rc : RetryCounts \cup {None}]
  BY <1>1, <1>12 DEF ClientOK, Pcs, InTransaction
<1> HIDE DEF me
<1>14. ClientOK(c)'
  BY <1>1, <1>2, <1>5, <1>7, <1>8, <1>12, <1>13 DEF ClientOK, InTransaction
<1>15. CountOK(me, db) /\ HalfDone(me, db, work)
  BY <1>3, <1>13 DEF HalfDone, CountOK
<1>16. ASSUME me.pc = "full" PROVE FullyDone(me, db, a.state)
  <2>1. CASE a.result = "exists"
    <3>1. op = "retry"
      BY <1>13, <1>16, <2>1 DEF AfterSecond
    <3>. QED BY <1>5, <1>10, <1>13, <1>15, <2>1, <3>1 DEF FullyDone, HalfDone
  <2>2. CASE a.result = "ok"
    <3>1. Free(me, work)
      BY <1>5, <1>10, <1>13, <2>2 DEF Free, Operations
    <3>2. a.state = SecondWrites(me.op, work, me.job,
                                 SecondCount(me.op, me.rc))
      BY <1>10, <1>13, <2>2
    <3>. QED BY <1>3, <1>5, <1>13, <1>15, <3>1, <3>2 DEF FullyDone
  <2>. QED BY <1>10, <2>1, <2>2
<1>. QED BY <1>2, <1>6, <1>11, <1>12, <1>13, <1>14, <1>16, StatementKeeps

LEMMA StatementFailsKeeps ==
    ASSUME Inv, NEW c \in Clients, StatementFails(c)
    PROVE  Inv' /\ UNCHANGED db
<1>1. ClientOK(c) /\ LockOK(c) /\ StoreOK
  BY DEF Inv
<1>2. /\ kind = "sql" /\ client[c].pc \in {"open", "half"}
      /\ client' = [client EXCEPT ![c].pc = "broken"]
      /\ UNCHANGED <<kind, db, holder, work, open, lost, fresh, known, beating>>
  BY DEF StatementFails, Sql!StatementFails
<1>3. client'[c] = [client[c] EXCEPT !.pc = "broken"]
  BY <1>1, <1>2 DEF StoreOK
<1>4. StoreOK'
  BY <1>1, <1>2 DEF StoreOK, Sound
<1>5. ClientOK(c)'
  BY <1>1, <1>2, <1>3 DEF ClientOK, Pcs, InTransaction
<1>6. LockOK(c)'
  BY <1>1, <1>2, <1>3 DEF LockOK, InTransaction, ClientOK
<1>7. WorkOK(c)'
  BY <1>1, <1>3 DEF WorkOK, ClientOK
<1>. QED BY <1>1, <1>2, <1>4, <1>5, <1>6, <1>7, Stepped DEF StoreOK

\* The caller of Transact goes on.
LEMMA ReturnedOK ==
    ASSUME NEW c \in Clients, ClientOK(c), NEW ok \in BOOLEAN,
           client[c].pc \in {"full", "broken"},
           ok => client[c].pc = "full",
           client'[c] = Returned(client[c], ok)
    PROVE  /\ ClientOK(c)'
           /\ client'[c].pc \in {"idle", "call", "taken", "leaving"}
<1> DEFINE me == client[c]
<1>1. /\ me \in [pc : Pcs, op : Operations \cup {None},
                 job : Jobs \cup {None}, rc : RetryCounts \cup {None}]
      /\ me.op \in Operations
      /\ me.op # "dequeue" => me.job \in Jobs
      /\ me.op \in {"complete", "fail", "orphan"} => me.rc \in RetryCounts
      /\ ok /\ me.op = "dequeue" /\ me.job # None => me.rc \in RetryCounts
  BY DEF ClientOK, InTransaction
<1>2. Idle \in [pc : Pcs, op : Operations \cup {None},
               job : Jobs \cup {None}, rc : RetryCounts \cup {None}]
      /\ Idle.pc = "idle"
  BY DEF Idle, Pcs
<1>3. CASE me.op = "dequeue" /\ ok /\ me.job # None
  <2>1. client'[c] = [me EXCEPT !.op = None, !.pc = "taken"]
    BY <1>1, <1>3 DEF Returned
  <2>. QED BY <1>1, <1>3, <2>1 DEF ClientOK, Pcs, InTransaction
<1>4. CASE me.op = "complete" /\ ~ok
  <2>1. client'[c] = [me EXCEPT !.pc = "call", !.op = "fail"]
    BY <1>4 DEF Returned
  <2>. QED BY <1>1, <1>4, <2>1 DEF ClientOK, Pcs, InTransaction, Operations
<1>5. CASE (me.op = "complete" /\ ok) \/ me.op = "fail"
  <2>1. client'[c] = [me EXCEPT !.op = None, !.pc = "leaving", !.rc = None]
    BY <1>1, <1>5 DEF Returned
  <2>. QED BY <1>1, <1>5, <2>1 DEF ClientOK, Pcs, InTransaction
<1>6. CASE /\ me.op # "complete" /\ me.op # "fail"
           /\ ~(me.op = "dequeue" /\ ok /\ me.job # None)
  <2>1. client'[c] = Idle
    BY <1>6 DEF Returned
  <2>. QED BY <1>2, <2>1 DEF ClientOK, InTransaction
<1>. QED BY <1>3, <1>4, <1>5, <1>6

\* The transaction is over, and the lock and its connection are given back.
LEMMA EndKeeps ==
    ASSUME Inv, NEW c \in Clients, kind' = kind,
           UNCHANGED <<lost, fresh, known, beating>>,
           db' \in {db, work}, db' # db => holder = c,
           holder' = (IF holder = c THEN None ELSE holder),
           work' = (IF holder = c THEN None ELSE work),
           open' = open \ {c},
           client' = [client EXCEPT ![c] = client'[c]],
           client'[c].pc \in {"idle", "call", "taken", "leaving"},
           ClientOK(c)'
    PROVE  Inv'
<1>1. ClientOK(c) /\ LockOK(c) /\ StoreOK /\ c # None
  BY NoneAssumption DEF Inv, Clients
<1>2. db' \in State /\ Sound(db')
  BY <1>1 DEF StoreOK
<1>3. IsFiniteSet(open')
  BY <1>1, FS_RemoveElement DEF StoreOK
<1>4. StoreOK'
  BY <1>1, <1>2, <1>3 DEF StoreOK, Sound
<1>5. LockOK(c)'
  BY <1>1 DEF LockOK, InTransaction
<1>6. WorkOK(c)'
  BY DEF WorkOK
<1>7. ASSUME NEW d \in Clients \ {c}
      PROVE  /\ client'[d] = client[d]
             /\ holder = d <=> holder' = d
             /\ holder = d => db' = db /\ work' = work
             /\ d \in open <=> d \in open'
  BY <1>1, NoneAssumption DEF StoreOK, Clients
<1>. QED BY <1>4, <1>5, <1>6, <1>7, Stepped

LEMMA CommitTxKeeps ==
    ASSUME Inv, NEW c \in Clients, CommitTx(c)
    PROVE  /\ Inv'
           /\ UNCHANGED db \/ FullyDone(client[c], db, db')
<1>1. ClientOK(c) /\ LockOK(c) /\ WorkOK(c) /\ StoreOK
  BY DEF Inv
<1>2. client[c].pc = "full" /\ UNCHANGED <<kind, fresh, known, beating>>
  BY DEF CommitTx
<1>3. PICK outcome \in {"commit"} \cup Faults :
        /\ Commit(c, outcome)
        /\ client' = [client EXCEPT ![c] = Returned(@, outcome = "commit")]
  BY DEF CommitTx
<1>4. client'[c] = Returned(client[c], outcome = "commit")
  BY <1>1, <1>3 DEF StoreOK
<1>5. client' = [client EXCEPT ![c] = client'[c]]
  BY <1>3, <1>4
<1>6. /\ ClientOK(c)'
      /\ client'[c].pc \in {"idle", "call", "taken", "leaving"}
  BY <1>1, <1>2, <1>4, ReturnedOK
<1>7. holder = c /\ FullyDone(client[c], db, work)
  BY <1>1, <1>2 DEF LockOK, WorkOK
<1>8. /\ db' \in {db, work} /\ lost' = lost
      /\ holder' = None /\ work' = None /\ open' = open \ {c}
  <2>1. CASE kind = "memory"
    <3>1. c \notin open
      BY <1>1, <2>1 DEF LockOK
    <3>. QED BY <1>3, <2>1, <3>1 DEF Commit, Memory!Commit
  <2>2. CASE kind = "sql"
    BY <1>3, <1>7, <2>2 DEF Commit, Sql!Commit, Sql!Release
  <2>. QED BY <1>1, <2>1, <2>2 DEF StoreOK
<1>9. Inv'
  BY <1>2, <1>5, <1>6, <1>7, <1>8, EndKeeps
<1>. QED BY <1>7, <1>8, <1>9

LEMMA AbortTxKeeps ==
    ASSUME Inv, NEW c \in Clients, AbortTx(c)
    PROVE  Inv' /\ UNCHANGED db
<1>1. ClientOK(c) /\ LockOK(c) /\ StoreOK
  BY DEF Inv
<1>2. /\ client[c].pc = "broken" /\ UNCHANGED <<kind, fresh, known, beating>>
      /\ Abort(c)
      /\ client' = [client EXCEPT ![c] = Returned(@, FALSE)]
  BY DEF AbortTx
<1>3. client'[c] = Returned(client[c], FALSE)
  BY <1>1, <1>2 DEF StoreOK
<1>4. client' = [client EXCEPT ![c] = client'[c]]
  BY <1>2, <1>3
<1>5. /\ ClientOK(c)'
      /\ client'[c].pc \in {"idle", "call", "taken", "leaving"}
  BY <1>1, <1>2, <1>3, ReturnedOK
<1>6. /\ db' = db /\ lost' = lost /\ open' = open \ {c}
      /\ holder' = (IF holder = c THEN None ELSE holder)
      /\ work' = (IF holder = c THEN None ELSE work)
  <2>1. CASE kind = "memory"
    <3>1. c \notin open
      BY <1>1, <2>1 DEF LockOK
    <3>. QED BY <1>2, <2>1, <3>1 DEF Abort, Memory!Abort
  <2>2. CASE kind = "sql"
    BY <1>2, <2>2 DEF Abort, Sql!Rollback, Sql!Release
  <2>. QED BY <1>1, <2>1, <2>2 DEF StoreOK
<1>7. Inv'
  BY <1>2, <1>4, <1>5, <1>6, EndKeeps
<1>. QED BY <1>6, <1>7

-----------------------------------------------------------------------------
(* The steps outside any transaction. *)

\* A client that is in no transaction moves on, and begins none.
LEMMA ClientMoves ==
    ASSUME Inv, NEW c \in Clients,
           UNCHANGED <<kind, db, holder, work, open, lost, fresh>>,
           known' \subseteq Jobs, beating' \subseteq known',
           NEW me, client' = [client EXCEPT ![c] = me],
           client[c].pc \notin InTransaction,
           client'[c].pc \notin InTransaction,
           ClientOK(c)'
    PROVE  Inv'
<1>1. ClientOK(c) /\ LockOK(c) /\ StoreOK
  BY DEF Inv
<1>2. DOMAIN client' = Clients /\ client' = [d \in Clients |-> client'[d]]
  BY <1>1 DEF StoreOK
<1>3. fresh' \subseteq Jobs
  BY <1>1 DEF StoreOK
<1>4. StoreOK'
  BY <1>1, <1>2, <1>3, Untouched
<1>5. LockOK(c)' /\ WorkOK(c)'
  BY <1>1 DEF LockOK, WorkOK, InTransaction
<1>6. ASSUME NEW d \in Clients \ {c} PROVE client'[d] = client[d]
  BY <1>1 DEF StoreOK
<1>. QED BY <1>4, <1>5, <1>6, Stepped

LEMMA SlotKeeps ==
    ASSUME Inv, NEW w \in Slots, Poll(w) \/ SlotStep(w)
    PROVE  Inv' /\ UNCHANGED <<kind, db>>
<1>0. w \in Clients
  BY DEF Clients
<1>1. ClientOK(w) /\ StoreOK /\ known \subseteq Jobs /\ beating \subseteq known
  BY <1>0 DEF Inv, StoreOK
<1>2. CASE Poll(w)
  <2>1. client' = [client EXCEPT ![w] = [@ EXCEPT !.pc = "call",
                                                  !.op = "dequeue"]]
    BY <1>0, <1>1, <1>2 DEF Poll, StoreOK
  <2>2. client'[w] = [Idle EXCEPT !.pc = "call", !.op = "dequeue"]
    BY <1>0, <1>1, <1>2, <2>1 DEF Poll, StoreOK, ClientOK
  <2>3. ClientOK(w)'
    BY <2>2 DEF ClientOK, Idle, Pcs, Operations, InTransaction
  <2>4. client'[w].pc = "call"
    BY <2>2 DEF Idle
  <2>. QED BY <1>0, <1>1, <1>2, <2>1, <2>3, <2>4, ClientMoves
           DEF Poll, InTransaction
<1>3. CASE Set(w)
  <2>1. /\ client' = [client EXCEPT ![w] = [@ EXCEPT !.pc = "running"]]
        /\ client[w].pc = "taken"
    BY <1>3 DEF Set
  <2>2. client'[w] = [client[w] EXCEPT !.pc = "running"]
    BY <1>0, <1>1, <2>1 DEF StoreOK
  <2>3. ClientOK(w)' /\ client[w].job \in Jobs /\ client'[w].pc = "running"
    BY <1>1, <2>1, <2>2 DEF ClientOK, Pcs, InTransaction
  <2>. QED BY <1>0, <1>1, <1>3, <2>1, <2>3, ClientMoves DEF Set, InTransaction
<1>4. CASE HandlerReturns(w)
  <2>0. PICK op \in {"complete", "fail"} :
           client' = [client EXCEPT ![w].pc = "call", ![w].op = op]
    BY <1>4 DEF HandlerReturns
  <2>1. client' = [client EXCEPT ![w] = [@ EXCEPT !.pc = "call", !.op = op]]
    BY <1>0, <1>1, <2>0 DEF StoreOK
  <2>2. client'[w] = [client[w] EXCEPT !.pc = "call", !.op = op]
    BY <1>0, <1>1, <2>1 DEF StoreOK
  <2>3. ClientOK(w)' /\ client'[w].pc = "call"
    BY <1>1, <1>4, <2>2
       DEF HandlerReturns, ClientOK, Pcs, Operations, InTransaction
  <2>. QED BY <1>0, <1>1, <1>4, <2>1, <2>3, ClientMoves
           DEF HandlerReturns, InTransaction
<1>5. CASE Delete(w)
  <2>1. client'[w] = Idle
    BY <1>0, <1>1, <1>5 DEF Delete, StoreOK
  <2>2. ClientOK(w)' /\ client'[w].pc = "idle"
    BY <2>1 DEF ClientOK, Idle, Pcs, InTransaction
  <2>. QED BY <1>0, <1>1, <1>5, <2>2, ClientMoves DEF Delete, InTransaction
<1>. QED BY <1>2, <1>3, <1>4, <1>5
         DEF SlotStep, Poll, Set, HandlerReturns, Delete

\* The orphans of both adapters are the rows with an old heartbeat.
LEMMA OrphansAre ==
    ASSUME StoreOK
    PROVE  Orphans = {j \in db.old : db.processing[j] # None}
<1>1. db.old \subseteq db.beats /\ db.beats \subseteq Jobs
  BY DEF StoreOK, Sound, State
<1>2. CASE kind = "memory"
  BY <1>2 DEF Orphans, Memory!GetByLastHeartbeatBefore
<1>3. CASE kind = "sql"
  BY <1>1, <1>3 DEF Orphans, Sql!GetByLastHeartbeatBefore, StoreOK, Sound
<1>. QED BY <1>2, <1>3 DEF StoreOK

LEMMA OrphansWillBe ==
    ASSUME StoreOK'
    PROVE  Orphans' = {j \in db'.old : db'.processing[j] # None}
<1>1. db'.old \subseteq db'.beats /\ db'.beats \subseteq Jobs
  BY DEF StoreOK, Sound, State
<1>2. CASE kind' = "memory"
  BY <1>2 DEF Orphans, Memory!GetByLastHeartbeatBefore
<1>3. CASE kind' = "sql"
  BY <1>1, <1>3 DEF Orphans, Sql!GetByLastHeartbeatBefore, StoreOK, Sound
<1>. QED BY <1>2, <1>3 DEF StoreOK

LEMMA SweepKeeps ==
    ASSUME Inv, NEW c \in Sweepers, NEW j \in Jobs, SweepStep(c, j)
    PROVE  Inv' /\ UNCHANGED <<kind, db>>
<1>0. c \in Clients
  BY DEF Clients
<1>1. ClientOK(c) /\ StoreOK /\ known \subseteq Jobs /\ beating \subseteq known
  BY <1>0 DEF Inv, StoreOK
<1>2. db.processing \in Rows /\ db.failed \in Rows
  BY <1>1 DEF StoreOK, State
<1>3. PICK op \in {"orphan", "retry", "move", "webRetry"},
           rc \in RetryCounts \cup {None} :
        /\ Sweep(c, op, j, rc)
        /\ op = "orphan" => rc # None
        /\ UNCHANGED <<db, holder, work, open, lost>>
  <2>1. CASE SweepOrphan(c, j)
    <3>1. db.processing[j] \in RetryCounts
      BY <1>1, <1>2, <2>1, OrphansAre DEF SweepOrphan, Rows
    <3>2. db.processing[j] # None
      BY <1>1, <2>1, OrphansAre DEF SweepOrphan
    <3>. QED BY <2>1, <3>1, <3>2 DEF SweepOrphan, Read, Sql!Query
  <2>2. CASE SweepFailed(c, j)
    BY <1>2, <2>2 DEF SweepFailed, Read, Sql!Query, Rows
  <2>3. CASE SweepDue(c, j)
    BY <2>3 DEF SweepDue, Read, Sql!Query
  <2>4. CASE WebRetry(c, j)
    BY <2>4 DEF WebRetry
  <2>. QED BY <2>1, <2>2, <2>3, <2>4 DEF SweepStep
<1> DEFINE me == [pc |-> "call", op |-> op, job |-> j, rc |-> rc]
<1>4. client'[c] = me
  BY <1>0, <1>1, <1>3 DEF Sweep, StoreOK
<1>5. ClientOK(c)' /\ client'[c].pc = "call"
  BY <1>3, <1>4 DEF ClientOK, Pcs, Operations, InTransaction
<1>6. Inv'
  BY <1>0, <1>1, <1>3, <1>5, ClientMoves DEF Sweep, InTransaction
<1>. QED BY <1>3, <1>6 DEF Sweep

\* The steps of the adapter that concern no client.
LEMMA ApartKeeps ==
    ASSUME Inv, UNCHANGED <<kind, client, holder, work, open>>,
           db' \in State, Sound(db'), holder # None => db' = db,
           lost' \in 0 .. MaxConns, fresh' \subseteq Jobs,
           known' \subseteq Jobs, beating' \subseteq known'
    PROVE  Inv'
<1>1. StoreOK'
  BY DEF Inv, StoreOK, Sound
<1>2. ASSUME NEW d \in Clients
      PROVE  client'[d] = client[d] /\ (holder = d => db' = db)
  BY NoneAssumption DEF Clients
<1>3. \A d \in Clients \ {None} : ClientOK(d)' /\ LockOK(d)' /\ WorkOK(d)'
  BY <1>2, Others
<1>. QED BY <1>1, <1>3, NoneAssumption DEF Inv, Clients

LEMMA ScanFailsKeeps ==
    ASSUME Inv, ScanFails
    PROVE  Inv' /\ UNCHANGED <<kind, db>>
<1>1. StoreOK
  BY DEF Inv
<1>0. Sql!Cardinality(open) = Cardinality(open)
  BY DEF Sql!Cardinality, Cardinality
<1>2. /\ Cardinality(open) + lost < MaxConns /\ lost' = lost + 1
      /\ UNCHANGED <<kind, db, holder, work, open, fresh, client, known,
                     beating>>
  BY <1>0 DEF ScanFails, Sql!ScanFails, Sql!Available
<1>3. Cardinality(open) \in Nat /\ lost \in Nat /\ MaxConns \in Nat
  BY <1>1, FS_CardinalityType, ConnAssumption DEF StoreOK
<1>4. lost' \in 0 .. MaxConns
  BY <1>2, <1>3
<1>. QED BY <1>1, <1>2, <1>4, ApartKeeps DEF StoreOK

LEMMA EachBeginsKeeps ==
    ASSUME Inv, EachBegins
    PROVE  Inv' /\ UNCHANGED <<kind, db>>
<1>1. StoreOK
  BY DEF Inv
<1>. QED BY <1>1, ApartKeeps DEF StoreOK, EachBegins

\* A call outside any transaction waits for the lock, or changes nothing.
LEMMA WriteKeeps ==
    ASSUME Inv, NEW method, NEW j, NEW rc, Write(method, j, rc),
           NEW s \in State, s = Call(method, db, j, rc).state, Sound(s),
           UNCHANGED <<kind, client, known>>,
           fresh' \subseteq Jobs, beating' \subseteq beating
    PROVE  Inv' /\ db' \in {db, s}
<1>1. StoreOK
  BY DEF Inv
<1>2. /\ UNCHANGED <<holder, work, open, lost>>
      /\ db' \in {db, s} /\ (holder # None => db' = db)
  BY <1>1 DEF Write, Memory!Locked, Sql!Exec, StoreOK
<1>. QED BY <1>1, <1>2, ApartKeeps DEF StoreOK

\* A heartbeat; on the SQL adapter one for a missing row has no effect.
LEMMA EmitHeartbeatKeeps ==
    ASSUME Inv, NEW j \in Jobs, EmitHeartbeat(j)
    PROVE  /\ Inv' /\ kind' = kind
           /\ \/ UNCHANGED db
              \/ /\ db'.old = db.old \ {j}
                 /\ \A t \in {"scheduled", "enqueued", "processing",
                              "processed", "failed"} : db'[t] = db[t]
<1>1. StoreOK
  BY DEF Inv
<1> DEFINE s == Call("EmitHeartbeat", db, j, None).state
<1>2. /\ s \in State /\ Sound(s)
      /\ s.old = db.old \ {j}
      /\ \A t \in {"scheduled", "enqueued", "processing",
                   "processed", "failed"} : s[t] = db[t]
  <2>1. CASE kind = "memory"
    <3>1. s = [db EXCEPT !.beats = db.beats \cup {j}, !.old = db.old \ {j}]
      BY <1>1, <2>1 DEF Call, Memory!Call, Memory!EmitHeartbeat, Memory!Ok,
                        StoreOK, State
    <3> HIDE DEF s
    <3>. QED BY <1>1, <2>1, <3>1 DEF StoreOK, State, Sound
  <2>2. CASE kind = "sql"
    <3>1. s = [db EXCEPT !.old = db.old \ {j}]
      BY <1>1, <2>2 DEF Call, Sql!Call, Sql!EmitHeartbeat, Sql!Done,
                        StoreOK, State
    <3> HIDE DEF s
    <3>. QED BY <1>1, <2>2, <3>1 DEF StoreOK, State, Sound
  <2>. QED BY <1>1, <2>1, <2>2 DEF StoreOK
<1>3. /\ Write("EmitHeartbeat", j, None) /\ beating' \subseteq beating
      /\ UNCHANGED <<kind, fresh, client, known>>
  BY DEF EmitHeartbeat
<1>4. fresh' \subseteq Jobs
  BY <1>1, <1>3 DEF StoreOK
<1>5. Inv' /\ db' \in {db, s}
  <2> HIDE DEF s
  <2>. QED BY <1>2, <1>3, <1>4, WriteKeeps DEF s
<1>. QED BY <1>2, <1>3, <1>5

LEMMA EnqueueKeeps ==
    ASSUME Inv, NEW j \in Jobs, Enqueue(j)
    PROVE  /\ Inv' /\ kind' = kind
           /\ \/ UNCHANGED db
              \/ db' = [db EXCEPT !.scheduled = db.scheduled \cup {j}]
              \/ /\ db.enqueued[j] = None
                 /\ db' = [db EXCEPT !.enqueued = [db.enqueued EXCEPT ![j] = 0]]
<1>1. StoreOK
  BY DEF Inv
<1>2. PICK method \in {"InsertToQueue", "InsertToScheduled"} :
        Write(method, j, 0)
  BY DEF Enqueue
<1> DEFINE s == Call(method, db, j, 0).state
<1>3. \/ s = db
      \/ s = [db EXCEPT !.scheduled = db.scheduled \cup {j}]
      \/ /\ db.enqueued[j] = None
         /\ s = [db EXCEPT !.enqueued = [db.enqueued EXCEPT ![j] = 0]]
  BY <1>1 DEF Call, Memory!Call, Memory!InsertToQueue, Memory!Ok,
              Memory!Duplicate, Memory!InsertToScheduled, Sql!Call,
              Sql!InsertToQueue, Sql!Done, Sql!Conflict,
              Sql!InsertToScheduled, StoreOK, State
<1>4. s \in State /\ Sound(s)
  <2> HIDE DEF s
  <2>1. 0 \in RetryCounts
    BY RetryAssumption DEF RetryCounts
  <2>. QED BY <1>1, <1>3, <2>1 DEF StoreOK, State, Rows, Sound
<1>5. /\ UNCHANGED <<kind, client, known, beating>> /\ fresh' \subseteq Jobs
  BY <1>1 DEF Enqueue, StoreOK
<1>6. Inv' /\ db' \in {db, s}
  <2> HIDE DEF s
  <2>. QED BY <1>2, <1>4, <1>5, WriteKeeps DEF s
<1>. QED BY <1>3, <1>5, <1>6

LEMMA TimePassesKeeps ==
    ASSUME Inv, NEW j \in Jobs, TimePasses(j)
    PROVE  /\ Inv' /\ kind' = kind
           /\ db' = [db EXCEPT !.old = db.old \cup {j}]
<1>1. StoreOK
  BY DEF Inv
<1>2. /\ db' = [db EXCEPT !.old = db.old \cup {j}] /\ j \in db.beats
      /\ UNCHANGED <<kind, holder, work, open, lost, fresh, client, known,
                     beating>>
      /\ holder = None
  BY <1>1 DEF TimePasses, StoreOK, State
<1>3. db' \in State /\ Sound(db')
  BY <1>1, <1>2 DEF StoreOK, State, Sound
<1>. QED BY <1>1, <1>2, <1>3, ApartKeeps DEF StoreOK

-----------------------------------------------------------------------------
(* Every step of an adapter is one of the abstract store, or none. *)

StoreStep == Atomic!AtomicNext \/ UNCHANGED Atomic!storeVars

LEMMA NoTransaction ==
    ASSUME UNCHANGED <<kind, db>>
    PROVE  StoreStep
BY DEF StoreStep, Atomic!storeVars, Orphans, Memory!GetByLastHeartbeatBefore,
       Sql!GetByLastHeartbeatBefore

\* What becomes of the orphans when a row or its heartbeat changes.
LEMMA OrphansMove ==
    ASSUME StoreOK, StoreOK'
    PROVE  /\ UNCHANGED <<db.processing, db.old>> => Orphans' = Orphans
           /\ \A j \in Jobs :
                 /\ db'.old = db.old \ {j}
                 /\ \A k \in Jobs \ {j} : db'.processing[k] = db.processing[k]
                 => Orphans' = Orphans \ {j}
<1>1. Orphans = {j \in db.old : db.processing[j] # None}
  BY OrphansAre
<1>2. Orphans' = {j \in db'.old : db'.processing[j] # None}
  BY OrphansWillBe
<1>3. db.old \subseteq Jobs
  BY DEF StoreOK, State
<1>. QED BY <1>1, <1>2, <1>3

LEMMA FailMaps ==
    ASSUME StoreOK, StoreOK', NEW j \in Jobs, NEW rc \in RetryCounts,
           NEW u, u = Removed(db, j),
           \/ rc = MaxRetry /\ db' = u
           \/ /\ rc < MaxRetry /\ u.failed[j] = None
              /\ db' = [u EXCEPT !.failed = [u.failed EXCEPT ![j] = rc + 1]]
    PROVE  StoreStep
<1>1. db \in State
  BY DEF StoreOK
<1>2. /\ db'.processing = [db.processing EXCEPT ![j] = None]
      /\ db'.old = db.old \ {j}
      /\ db'.scheduled = db.scheduled /\ db'.enqueued = db.enqueued
      /\ db'.processed = db.processed
      /\ IF rc = MaxRetry
         THEN db'.failed = db.failed
         ELSE /\ db.failed[j] = None
              /\ db'.failed = [db.failed EXCEPT ![j] = rc + 1]
  <2>1. /\ u \in [scheduled : SUBSET Jobs, enqueued : Rows, processing : Rows,
                  beats : SUBSET Jobs, old : SUBSET Jobs,
                  processed : SUBSET Jobs, failed : Rows]
        /\ u.processing = [db.processing EXCEPT ![j] = None]
        /\ u.old = db.old \ {j}
        /\ u.scheduled = db.scheduled /\ u.enqueued = db.enqueued
        /\ u.processed = db.processed /\ u.failed = db.failed
    BY <1>1, RemovedState DEF Removed, State
  <2>2. CASE rc = MaxRetry
    BY <2>1, <2>2, RetryAssumption
  <2>3. CASE rc < MaxRetry
    BY <2>1, <2>3, RetryAssumption
  <2>. QED BY <2>2, <2>3
<1>3. Orphans' = Orphans \ {j}
  BY <1>1, <1>2, OrphansMove DEF State, Rows
<1>4. Atomic!Fail(j, rc)
  BY <1>2, <1>3 DEF Atomic!Fail, Atomic!Without
<1>5. rc \in Atomic!RetryCounts
  BY DEF RetryCounts, Atomic!RetryCounts
<1>. QED BY <1>4, <1>5 DEF StoreStep, Atomic!AtomicNext

LEMMA RetryMaps ==
    ASSUME StoreOK, StoreOK', NEW j \in Jobs, db.failed[j] # None,
           NEW u, u = [db EXCEPT !.failed = [db.failed EXCEPT ![j] = None]],
           \/ u.enqueued[j] # None /\ db' = u
           \/ /\ u.enqueued[j] = None
              /\ db' = [u EXCEPT !.enqueued =
                           [u.enqueued EXCEPT ![j] = db.failed[j]]]
    PROVE  StoreStep
<1>1. db \in State
  BY DEF StoreOK
<1>2. /\ db'.failed = [db.failed EXCEPT ![j] = None]
      /\ db'.old = db.old /\ db'.processing = db.processing
      /\ db'.scheduled = db.scheduled /\ db'.processed = db.processed
      /\ db'.enqueued = IF db.enqueued[j] = None
                        THEN [db.enqueued EXCEPT ![j] = db.failed[j]]
                        ELSE db.enqueued
  BY <1>1 DEF State
<1>3. Orphans' = Orphans
  BY <1>2, OrphansMove
<1>4. Atomic!Retry(j, db.failed[j])
  BY <1>2, <1>3 DEF Atomic!Retry, Atomic!Without
<1>5. db.failed[j] \in Atomic!RetryCounts
  BY <1>1 DEF State, Rows, RetryCounts, Atomic!RetryCounts
<1>. QED BY <1>4, <1>5 DEF StoreStep, Atomic!AtomicNext

\* A commit takes effect as one transaction of process.go.
LEMMA CommitMaps ==
    ASSUME Inv, StoreOK', kind' = kind, NEW c \in Clients,
           client[c].pc = "full", FullyDone(client[c], db, db')
    PROVE  StoreStep
<1> DEFINE me == client[c]
           j  == me.job
           rc == me.rc
<1>1. ClientOK(c) /\ StoreOK /\ db \in State
  BY DEF Inv, StoreOK
<1>2. /\ me.op \in Operations
      /\ me.op \in {"complete", "fail", "orphan"} => rc \in RetryCounts
  BY <1>1 DEF ClientOK, InTransaction
<1>3. CASE db' = db
  BY <1>3, NoTransaction
<1>4. CASE /\ me.op \in {"fail", "orphan"} /\ rc = MaxRetry /\ j \in Jobs
           /\ db' = FirstWrites(me.op, db, j)
  BY <1>1, <1>2, <1>4, FailMaps DEF FirstWrites
<1>5. CASE /\ me.op = "retry" /\ j \in Jobs /\ CountOK(me, db)
           /\ db' = FirstWrites(me.op, db, j)
           /\ db'.enqueued[j] # None
  <2>1. db.failed[j] # None
    BY <1>5 DEF CountOK
  <2>. QED BY <1>1, <1>5, <2>1, RetryMaps DEF FirstWrites
<1>6. ASSUME NEW u \in State, j \in Jobs, HalfDone(me, db, u), Free(me, u),
             db' = SecondWrites(me.op, u, j, SecondCount(me.op, rc))
      PROVE  StoreStep
  <2>1. u = FirstWrites(me.op, db, j) /\ CountOK(me, db)
    BY <1>6 DEF HalfDone
  <2>2. CASE me.op = "dequeue"
    <3>1. /\ u = [db EXCEPT !.enqueued = [db.enqueued EXCEPT ![j] = None]]
          /\ db' = [u EXCEPT !.processing = [u.processing EXCEPT ![j] = rc],
                             !.beats = u.beats \cup {j}, !.old = u.old \ {j}]
          /\ rc = db.enqueued[j] /\ rc # None /\ u.processing[j] = None
      BY <1>6, <2>1, <2>2
         DEF FirstWrites, SecondWrites, SecondCount, CountOK, Free
    <3>2. /\ db'.enqueued = [db.enqueued EXCEPT ![j] = None]
          /\ db'.processing = [db.processing EXCEPT ![j] = rc]
          /\ db'.old = db.old \ {j} /\ db.processing[j] = None
          /\ db'.scheduled = db.scheduled /\ db'.processed = db.processed
          /\ db'.failed = db.failed
      BY <1>1, <1>6, <3>1 DEF State
    <3>3. Orphans' = Orphans \ {j}
      BY <1>1, <1>6, <3>2, OrphansMove DEF State, Rows
    <3>4. Atomic!Dequeue(j)
      BY <3>1, <3>2, <3>3 DEF Atomic!Dequeue, Atomic!Without
    <3>. QED BY <1>6, <3>4 DEF StoreStep, Atomic!AtomicNext
  <2>3. CASE me.op = "complete"
    <3>1. /\ u = [db EXCEPT !.processed = db.processed \cup {j}]
          /\ db' = Removed(u, j) /\ j \notin db.processed
      BY <1>6, <2>1, <2>3 DEF FirstWrites, SecondWrites, CountOK
    <3>2. /\ db'.processing = [db.processing EXCEPT ![j] = None]
          /\ db'.processed = db.processed \cup {j}
          /\ db'.old = db.old \ {j} /\ db'.enqueued = db.enqueued
          /\ db'.scheduled = db.scheduled /\ db'.failed = db.failed
      BY <1>1, <1>6, <3>1 DEF State, Removed
    <3>3. Orphans' = Orphans \ {j}
      BY <1>1, <1>6, <3>2, OrphansMove DEF State, Rows
    <3>4. Atomic!Complete(j)
      BY <3>1, <3>2, <3>3 DEF Atomic!Complete, Atomic!Without
    <3>. QED BY <1>6, <3>4 DEF StoreStep, Atomic!AtomicNext
  <2>4. CASE me.op \in {"fail", "orphan"}
    <3>1. /\ u = Removed(db, j) /\ rc < MaxRetry /\ u.failed[j] = None
          /\ db' = [u EXCEPT !.failed = [u.failed EXCEPT ![j] = rc + 1]]
      BY <1>6, <2>1, <2>4
         DEF FirstWrites, SecondWrites, SecondCount, HalfDone, Free
    <3>. QED BY <1>1, <1>2, <1>6, <2>4, <3>1, FailMaps
  <2>5. CASE me.op \in {"retry", "webRetry"}
    <3>1. /\ u = [db EXCEPT !.failed = [db.failed EXCEPT ![j] = None]]
          /\ db.failed[j] # None /\ u.enqueued[j] = None
          /\ db' = [u EXCEPT !.enqueued =
                       [u.enqueued EXCEPT ![j] = db.failed[j]]]
      BY <1>6, <2>1, <2>5
         DEF FirstWrites, SecondWrites, SecondCount, CountOK, Free
    <3>. QED BY <1>1, <1>6, <3>1, RetryMaps
  <2>6. CASE me.op = "move"
    <3>1. /\ u = [db EXCEPT !.scheduled = db.scheduled \ {j}]
          /\ u.enqueued[j] = None
          /\ db' = [u EXCEPT !.enqueued = [u.enqueued EXCEPT ![j] = 0]]
      BY <1>6, <2>1, <2>6
         DEF FirstWrites, SecondWrites, SecondCount, Free
    <3>2. /\ db'.scheduled = db.scheduled \ {j}
          /\ db.enqueued[j] = None
          /\ db'.enqueued = [db.enqueued EXCEPT ![j] = 0]
          /\ db'.old = db.old /\ db'.processing = db.processing
          /\ db'.processed = db.processed /\ db'.failed = db.failed
      BY <1>1, <3>1 DEF State
    <3>3. Orphans' = Orphans
      BY <1>1, <3>2, OrphansMove
    <3>4. Atomic!EnqueueScheduled(j)
      BY <3>2, <3>3 DEF Atomic!EnqueueScheduled
    <3>. QED BY <1>6, <3>4 DEF StoreStep, Atomic!AtomicNext
  <2>. QED BY <1>2, <2>2, <2>3, <2>4, <2>5, <2>6 DEF Operations
<1>. QED BY <1>3, <1>4, <1>5, <1>6 DEF FullyDone

LEMMA ApartMaps ==
    ASSUME Inv, NEW j \in Jobs, EmitHeartbeat(j) \/ Enqueue(j) \/ TimePasses(j)
    PROVE  Inv' /\ StoreStep
<1>1. StoreOK /\ db \in State
  BY DEF Inv, StoreOK
<1>2. CASE EmitHeartbeat(j)
  <2>1. /\ Inv' /\ kind' = kind
        /\ \/ UNCHANGED db
           \/ /\ db'.old = db.old \ {j}
              /\ \A t \in {"scheduled", "enqueued", "processing",
                           "processed", "failed"} : db'[t] = db[t]
    BY <1>2, EmitHeartbeatKeeps
  <2>2. CASE UNCHANGED db
    BY <2>1, <2>2, NoTransaction
  <2>3. CASE ~UNCHANGED db
    <3>1. /\ db'.old = db.old \ {j} /\ db'.processing = db.processing
          /\ db'.scheduled = db.scheduled /\ db'.enqueued = db.enqueued
          /\ db'.processed = db.processed /\ db'.failed = db.failed
      BY <2>1, <2>3
    <3>2. Orphans' = Orphans \ {j}
      BY <1>1, <2>1, <3>1, OrphansMove DEF Inv
    <3>3. Atomic!EmitHeartbeat(j)
      BY <3>1, <3>2 DEF Atomic!EmitHeartbeat
    <3>. QED BY <2>1, <3>3 DEF StoreStep, Atomic!AtomicNext
  <2>. QED BY <2>2, <2>3, <2>1
<1>3. CASE Enqueue(j)
  <2>1. /\ Inv' /\ kind' = kind
        /\ \/ UNCHANGED db
           \/ db' = [db EXCEPT !.scheduled = db.scheduled \cup {j}]
           \/ /\ db.enqueued[j] = None
              /\ db' = [db EXCEPT !.enqueued = [db.enqueued EXCEPT ![j] = 0]]
    BY <1>3, EnqueueKeeps
  <2>2. CASE UNCHANGED db
    BY <2>1, <2>2, NoTransaction
  <2>3. CASE ~UNCHANGED db
    <3>1. /\ db'.old = db.old /\ db'.processing = db.processing
          /\ db'.processed = db.processed /\ db'.failed = db.failed
          /\ \/ /\ db'.scheduled = db.scheduled \cup {j}
                /\ db'.enqueued = db.enqueued
             \/ /\ db.enqueued[j] = None
                /\ db'.scheduled = db.scheduled
                /\ db'.enqueued = [db.enqueued EXCEPT ![j] = 0]
      BY <1>1, <2>1, <2>3 DEF State
    <3>2. Orphans' = Orphans
      BY <1>1, <2>1, <3>1, OrphansMove DEF Inv
    <3>3. Atomic!EnqueueNow(j) \/ Atomic!EnqueueLater(j)
      BY <3>1, <3>2 DEF Atomic!EnqueueNow, Atomic!EnqueueLater
    <3>. QED BY <2>1, <3>3 DEF StoreStep, Atomic!AtomicNext
  <2>. QED BY <2>2, <2>3, <2>1
<1>4. CASE TimePasses(j)
  <2>1. Inv' /\ kind' = kind /\ db' = [db EXCEPT !.old = db.old \cup {j}]
    BY <1>4, TimePassesKeeps
  <2>2. /\ db'.old = db.old \cup {j} /\ db'.processing = db.processing
        /\ db'.scheduled = db.scheduled /\ db'.enqueued = db.enqueued
        /\ db'.processed = db.processed /\ db'.failed = db.failed
    BY <1>1, <2>1 DEF State
  <2>3. /\ Orphans = {k \in db.old : db.processing[k] # None}
        /\ Orphans' = {k \in db'.old : db'.processing[k] # None}
    BY <1>1, <2>1, OrphansAre, OrphansWillBe DEF Inv
  <2>4. Atomic!HeartbeatExpires(j) \/ UNCHANGED Atomic!storeVars
    BY <2>2, <2>3 DEF Atomic!HeartbeatExpires, Atomic!storeVars
  <2>. QED BY <2>1, <2>4 DEF StoreStep, Atomic!AtomicNext
<1>. QED BY <1>2, <1>3, <1>4

LEMMA BeginTxLeaves ==
    ASSUME NEW c, BeginTx(c)
    PROVE  UNCHANGED <<kind, db>>
BY DEF BeginTx, Begin, Memory!Begin, Sql!Begin

LEMMA StepMaps == Inv /\ [Next]_vars => Inv' /\ StoreStep
<1> SUFFICES ASSUME Inv, [Next]_vars PROVE Inv' /\ StoreStep
  OBVIOUS
<1>1. ASSUME NEW c \in Clients, TxStep(c) PROVE Inv' /\ StoreStep
  <2>1. CASE BeginTx(c)
    BY <2>1, BeginTxKeeps, BeginTxLeaves, NoTransaction
  <2>2. CASE First(c)
    BY <2>2, FirstKeeps, NoTransaction DEF First
  <2>3. CASE Second(c)
    BY <2>3, SecondKeeps, NoTransaction DEF Second
  <2>4. CASE StatementFails(c)
    BY <2>4, StatementFailsKeeps, NoTransaction DEF StatementFails
  <2>5. CASE CommitTx(c)
    <3>1. Inv' /\ (UNCHANGED db \/ FullyDone(client[c], db, db'))
      BY <2>5, CommitTxKeeps
    <3>2. StoreOK' /\ kind' = kind /\ client[c].pc = "full"
      BY <2>5, <3>1 DEF CommitTx, Inv
    <3>. QED BY <3>1, <3>2, CommitMaps, NoTransaction
  <2>6. CASE AbortTx(c)
    BY <2>6, AbortTxKeeps, NoTransaction DEF AbortTx
  <2>. QED BY <1>1, <2>1, <2>2, <2>3, <2>4, <2>5, <2>6 DEF TxStep
<1>2. ASSUME NEW w \in Slots, Poll(w) \/ SlotStep(w) PROVE Inv' /\ StoreStep
  BY <1>2, SlotKeeps, NoTransaction
<1>3. ASSUME NEW c \in Sweepers, NEW j \in Jobs, SweepStep(c, j)
      PROVE  Inv' /\ StoreStep
  BY <1>3, SweepKeeps, NoTransaction
<1>4. CASE ScanFails \/ EachBegins
  BY <1>4, ScanFailsKeeps, EachBeginsKeeps, NoTransaction
<1>5. CASE UNCHANGED vars
  <2>1. Inv'
    <3>1. StoreOK'
      BY <1>5 DEF vars, Inv, StoreOK, Sound
    <3>2. \A d \in Clients \ {None} : ClientOK(d)' /\ LockOK(d)' /\ WorkOK(d)'
      BY <1>5, Others DEF vars
    <3>. QED BY <3>1, <3>2, NoneAssumption DEF Inv, Clients
  <2>. QED BY <1>5, <2>1, NoTransaction DEF vars
<1>. QED BY <1>1, <1>2, <1>3, <1>4, <1>5, ApartMaps DEF Next

LEMMA InvTypes == Inv => TypeOK /\ RowsHaveBeats
<1> SUFFICES ASSUME Inv PROVE TypeOK /\ RowsHaveBeats
  OBVIOUS
<1>1. StoreOK
  BY DEF Inv
<1>2. work \in State \cup {None} /\ (work = None <=> holder = None)
  BY <1>1, NoStateAssumption DEF StoreOK
<1>3. open \subseteq {c \in Clients : client[c].pc \in InTransaction}
  BY <1>1 DEF StoreOK, Inv, LockOK
<1>4. ASSUME NEW c \in Clients PROVE client[c] \in {Idle} \cup Client
  BY DEF Inv, ClientOK, Client, Pcs
<1>5. client \in [Clients -> {Idle} \cup Client]
  BY <1>1, <1>4 DEF StoreOK
<1>6. RowsHaveBeats
  BY <1>1 DEF StoreOK, Sound, RowsHaveBeats
<1>. QED BY <1>1, <1>2, <1>3, <1>5, <1>6 DEF StoreOK, TypeOK

LEMMA InitMaps == Init => Atomic!AtomicInit
<1> SUFFICES ASSUME Init PROVE Atomic!AtomicInit
  OBVIOUS
<1>1. StoreOK /\ db = EmptyState
  BY InitInv DEF Inv, Init
<1>2. Orphans = {}
  BY <1>1, OrphansAre DEF EmptyState
<1>. QED BY <1>1, <1>2 DEF EmptyState, NoRow, Atomic!AtomicInit, Atomic!NoRows

-----------------------------------------------------------------------------

\* Every goroutine, the lock, the transaction and the connections are in a
\* state the code can be in, on either adapter (memory.go:76, sql.go:710).
THEOREM AdaptersTypeCorrect == Spec => []TypeOK
<1>1. Inv /\ [Next]_vars => Inv'
  BY StepMaps
<1>. QED BY <1>1, InitInv, InvTypes, PTL DEF Spec

\* No try is ever without the heartbeat that leads the orphan checker to it
\* when its process is gone (memory.go:183, sql.go:330).
THEOREM RowsAlwaysBeat == Spec => []RowsHaveBeats
<1>1. Inv /\ [Next]_vars => Inv'
  BY StepMaps
<1>. QED BY <1>1, InitInv, InvTypes, PTL DEF Spec

\* A transaction of many statements, on a clone behind a mutex (memory.go:76)
\* or in a database with rollback (sql.go:710), is one step of AtomicStore if
\* it commits and none if it does not, whatever runs beside it or fails.
THEOREM AdaptersFollowAtomicStore == Spec => FollowsAtomicStore
<1>1. Inv /\ [Next]_vars => Inv'
  BY StepMaps
<1>2. Inv /\ [Next]_vars => [Atomic!AtomicNext]_(Atomic!storeVars)
  BY StepMaps DEF StoreStep
<1>. QED BY <1>1, <1>2, InitInv, InitMaps, PTL
         DEF Spec, FollowsAtomicStore, Atomic!AtomicSpec

=============================================================================
