------------------------------ MODULE Listing ------------------------------
(***************************************************************************)
(* GET /api/jobs/{jobType} (server.go listJobs): one page of a table, from *)
(* an adapter that answers queries itself (memory.go, sql.go ListJobs) or, *)
(* row limits only, from any other adapter's List methods; and a client    *)
(* that reads page after page while jobs enter and leave the table.        *)
(*                                                                         *)
(* Job IDs are numbers, their order the one of the ID strings.  A search   *)
(* text is abstracted to the set of jobs whose name or ID contains it, the *)
(* default of 25 and the bounds of 100 rows to constants.                  *)
(***************************************************************************)
EXTENDS Integers, FiniteSets, Sequences

CONSTANTS
    Jobs,          \* job IDs
    Queues,        \* queue names
    QueueOf,       \* the queue of each job
    Found,         \* the jobs the search text finds
    DefaultQueue,  \* storage.DefaultQueue
    DefaultLimit,  \* rows of a page when the request does not say
    MaxLimit,      \* most rows a request may ask for
    Times,         \* values of the column a table is ordered by
    MaxMoves,      \* bound: rows that enter and leave during a walk
    None

ASSUME JobAssumption   == Jobs \subseteq Nat /\ IsFiniteSet(Jobs)
ASSUME QueueAssumption == QueueOf \in [Jobs -> Queues] /\ DefaultQueue \in Queues
ASSUME FoundAssumption == Found \subseteq Jobs
ASSUME LimitAssumption == MaxLimit \in Nat /\ DefaultLimit \in 1 .. MaxLimit
ASSUME TimeAssumption  == Times \subseteq Int
ASSUME MovesAssumption == MaxMoves \in Nat
ASSUME NoneAssumption  == None \notin Queues \cup Int

JobTypes == {"scheduled", "enqueued", "processing", "processed", "failed"}
Adapters == {"memory", "sql", "legacy"}

VARIABLES
    adapter,  \* the adapter the processor was given
    jobType,  \* the table the client looks at
    table,    \* the time of each row of that table, None without a row
    walk      \* the client's walk through its pages

vars == <<adapter, jobType, table, walk>>

Present(j) == table[j] # None

-----------------------------------------------------------------------------
(* The order of a table, and a part of it. *)

ById    == [j \in Jobs |-> j]
AnyWay  == { t \in [Jobs -> 1 .. Cardinality(Jobs)] :
               \A j, k \in Jobs : t[j] = t[k] => j = k }

\* Mutant: no query orders rows of the same time.
TiesNever == AnyWay

\* How rows of the same time are ordered: the native queries and the lists of
\* processed jobs order them by ID, the other lists say nothing, and the
\* memory adapter has them in the order of a Go map.
Ties == IF adapter # "legacy" \/ jobType = "processed"
        THEN {ById}
        ELSE AnyWay

Before(j, k, tie) ==
    \/ IF jobType = "enqueued" THEN table[j] < table[k] ELSE table[j] > table[k]
    \/ table[j] = table[k] /\ tie[j] < tie[k]

Sorted(rows, tie) ==
    [i \in 1 .. Cardinality(rows) |->
        CHOOSE j \in rows :
            Cardinality({ k \in rows : Before(k, j, tie) }) = i - 1]

Least(a, b) == IF a < b THEN a ELSE b

\* Mutant: the offset is not applied.
PartFromStart(jobs, limit, offset) == SubSeq(jobs, 1, Least(limit, Len(jobs)))

\* LIMIT and OFFSET, paginate, and slicing.
Part(jobs, limit, offset) ==
    SubSeq(jobs, offset + 1, Least(offset + limit, Len(jobs)))

-----------------------------------------------------------------------------
(* The native queries. *)

\* Mutant: a page that ends at the last row promises another.
PaginateWithMoreAtEnd(jobs, limit, offset) ==
    [jobs |-> Part(jobs, limit, offset),
     hasMore |-> offset < Len(jobs) /\ offset + limit <= Len(jobs)]

\* memory.go: the end of the page is compared with all the rows there are.
PaginateWithMore(jobs, limit, offset) ==
    [jobs |-> Part(jobs, limit, offset),
     hasMore |-> offset < Len(jobs) /\ offset + limit < Len(jobs)]

\* Mutant: a full page always promises another.
TrimLookaheadAlways(jobs, limit) ==
    [jobs |-> SubSeq(jobs, 1, Least(limit, Len(jobs))),
     hasMore |-> Len(jobs) >= limit]

\* sql.go and the legacy lists: one row more than asked for is read, and
\* cut off.
TrimLookahead(jobs, limit) ==
    IF Len(jobs) <= limit
    THEN [jobs |-> jobs, hasMore |-> FALSE]
    ELSE [jobs |-> SubSeq(jobs, 1, limit), hasMore |-> TRUE]

NormalizeLimit(limit) ==
    IF limit = 0 THEN DefaultLimit ELSE Least(limit, MaxLimit)

\* An enqueued list without a queue is the default queue's, unless the
\* query asks for all of them.
WithDefaultQueue(query) ==
    IF jobType = "enqueued" /\ query.queue = None /\ ~query.allQueues
    THEN [query EXCEPT !.queue = DefaultQueue]
    ELSE query

Matches(j, query) ==
    /\ Present(j)
    /\ query.queue = None \/ QueueOf[j] = query.queue
    /\ query.search => j \in Found

\* Memory.ListJobs.
MemoryList(query, tie) ==
    LET q    == WithDefaultQueue(query)
        rows == Sorted({ j \in Jobs : Matches(j, q) }, tie)
    IN PaginateWithMore(rows, NormalizeLimit(q.limit), q.offset)

\* SQL.ListJobs.
SqlList(query, tie) ==
    LET q     == WithDefaultQueue(query)
        limit == NormalizeLimit(q.limit)
        rows  == Sorted({ j \in Jobs : Matches(j, q) }, tie)
    IN TrimLookahead(Part(rows, limit + 1, q.offset), limit)

-----------------------------------------------------------------------------
(* The endpoint. *)

\* listLegacyJobs: the queue is the only filter, and the default applies.
LegacyList(query, tie) ==
    LET queue == IF query.queue = None THEN DefaultQueue ELSE query.queue
        rows  == { j \in Jobs : /\ Present(j)
                                /\ jobType = "enqueued" => QueueOf[j] = queue }
    IN TrimLookahead(Part(Sorted(rows, tie), query.limit + 1, query.offset),
                     query.limit)

BadRequest       == [status |-> 400, jobs |-> <<>>, hasMore |-> FALSE]
Page(page)       == [status |-> 200, jobs |-> page.jobs,
                     hasMore |-> page.hasMore]

\* parseJobQuery on numbers that parse; None where the request has none.
ParsedLimit(limit)    == IF limit = None THEN DefaultLimit ELSE limit
ParsedOffset(offset)  == IF offset = None THEN 0 ELSE offset
LimitAccepted(limit)  == limit # 0 /\ limit <= MaxLimit

\* What listJobs answers to a request with some order of the ties.
ListJobs(request, tie) ==
    LET limit == ParsedLimit(request.limit)
        query == WithDefaultQueue(
                    [request EXCEPT !.limit = limit,
                                    !.offset = ParsedOffset(@)])
    IN CASE ~LimitAccepted(limit) -> BadRequest
         [] LimitAccepted(limit) /\ adapter = "memory" ->
               Page(MemoryList(query, tie))
         [] LimitAccepted(limit) /\ adapter = "sql" ->
               Page(SqlList(query, tie))
         [] LimitAccepted(limit) /\ adapter = "legacy" ->
               IF \/ query.search
                  \/ query.queue # None /\ jobType # "enqueued"
               THEN BadRequest
               ELSE Page(LegacyList(query, tie))

-----------------------------------------------------------------------------
(* A client that walks through the pages of one list, and the processors   *)
(* that move jobs meanwhile.  The history counts, of the rows it asks for, *)
(* those that entered and left the table since it began, and keeps those   *)
(* that were there all the time.  Any table may be there at first, so it   *)
(* moves only during a walk.                                               *)

NoWalk == [pc |-> "idle", request |-> None, seen |-> [j \in Jobs |-> 0],
           stable |-> {}, entered |-> 0, left |-> 0]

Request == [search : BOOLEAN, queue : Queues \cup {None}, allQueues : BOOLEAN,
            limit : (0 .. MaxLimit + 1) \cup {None},
            offset : (0 .. Cardinality(Jobs)) \cup {None}]

\* The rows the server takes a request to be about, wherever its pages begin.
Served(request) ==
    IF adapter = "legacy"
    THEN { j \in Jobs :
             jobType = "enqueued" =>
                 QueueOf[j] = IF request.queue = None THEN DefaultQueue
                                                      ELSE request.queue }
    ELSE LET q == WithDefaultQueue(request)
         IN { j \in Jobs : /\ q.queue = None \/ QueueOf[j] = q.queue
                           /\ q.search => j \in Found }

Moves == walk.pc = "reading" /\ walk.entered + walk.left < MaxMoves

Enter(j, t) ==
    /\ ~Present(j)
    /\ Moves
    /\ table' = [table EXCEPT ![j] = t]
    /\ walk' = IF j \in Served(walk.request) THEN [walk EXCEPT !.entered = @ + 1]
                                           ELSE walk
    /\ UNCHANGED <<adapter, jobType>>

Depart(j) ==
    /\ Present(j)
    /\ Moves
    /\ table' = [table EXCEPT ![j] = None]
    /\ walk' = IF j \in Served(walk.request)
             THEN [walk EXCEPT !.left = @ + 1, !.stable = @ \ {j}]
             ELSE walk
    /\ UNCHANGED <<adapter, jobType>>

BeginWalk(request) ==
    /\ walk.pc = "idle"
    /\ request.offset = 0
    /\ ListJobs(request, ById).status = 200
    /\ walk' = [NoWalk EXCEPT !.pc = "reading", !.request = request,
                              !.stable = { j \in Served(request) : Present(j) }]
    /\ UNCHANGED <<adapter, jobType, table>>

\* The next page, as the dashboard's Next button asks for it.
ReadPage ==
    /\ walk.pc = "reading"
    /\ \E tie \in Ties :
          LET answer == ListJobs(walk.request, tie)
              shown  == { answer.jobs[i] : i \in DOMAIN answer.jobs }
          IN walk' = [walk EXCEPT
                        !.pc = IF answer.hasMore THEN "reading" ELSE "done",
                        !.request.offset =
                            @ + ParsedLimit(walk.request.limit),
                        !.seen = [j \in Jobs |->
                                    IF j \in shown THEN @[j] + 1 ELSE @[j]]]
    /\ UNCHANGED <<adapter, jobType, table>>

Init ==
    /\ adapter \in Adapters
    /\ jobType \in JobTypes
    /\ table \in [Jobs -> Times \cup {None}]
    /\ walk = NoWalk

Next ==
    \/ \E j \in Jobs : Depart(j) \/ \E t \in Times : Enter(j, t)
    \/ \E request \in Request : BeginWalk(request)
    \/ ReadPage

Spec == Init /\ [][Next]_vars

-----------------------------------------------------------------------------

\* A walk ends whatever the pages show (server.go:203): each moves the offset on,
\* and none is asked for past the last job there can be, so that no row is
\* shown more often than there are jobs.
TypeOK ==
    /\ adapter \in Adapters
    /\ jobType \in JobTypes
    /\ table \in [Jobs -> Times \cup {None}]
    /\ walk.pc \in {"idle", "reading", "done"}
    /\ walk.entered + walk.left \in 0 .. MaxMoves
    /\ walk.stable \subseteq { j \in Jobs : Present(j) }
    /\ walk.seen \in [Jobs -> 0 .. Cardinality(Jobs)]
    /\ walk.pc # "idle" =>
          walk.request.offset \in 0 .. Cardinality(Jobs) + MaxLimit

\* A walk by offsets over a table that moves (server.go:203) misses, of the
\* rows that are there all the time, at most one for each row that left, and
\* shows at most one again for each that entered: rows of the same time do
\* not change places between two pages (memory.go:375, sql.go:584).
WalkFollowsMoves ==
    walk.pc = "done" /\ (adapter # "legacy" \/ jobType = "processed") =>
        /\ Cardinality({ j \in walk.stable : walk.seen[j] = 0 }) <= walk.left
        /\ Cardinality({ j \in walk.stable : walk.seen[j] > 1 }) <= walk.entered

\* The rows a request is about, by storage.go:55-60: AllQueues "prevents the web
\* API's legacy default-queue filter".
Asked(request) ==
    LET q == WithDefaultQueue(request)
    IN { j \in Jobs : /\ q.queue = None \/ QueueOf[j] = q.queue
                      /\ q.search => j \in Found }

\* listLegacyJobs (server.go:250) puts that filter back, against storage.go.
Refiltered(request) ==
    /\ adapter = "legacy" /\ jobType = "enqueued"
    /\ request.allQueues /\ request.queue = None

Shows(page, j) == \E i \in DOMAIN page.jobs : page.jobs[i] = j

\* Pages of one table fit together: a page promises more exactly when the next
\* one has a row (the lookahead at its boundary), and each row asked for is on
\* one page, in its place.  The next page is asked for later, when the plain
\* lists may order rows of the same time anew (memory.go:134): only such rows
\* may be on both pages or on neither.
PagesFitTogether ==
    walk.pc = "idle" =>
        \A request \in Request, tie \in Ties, later \in Ties :
            LET limit    == ParsedLimit(request.limit)
                offset   == ParsedOffset(request.offset)
                page     == ListJobs(request, tie)
                next     == ListJobs([request EXCEPT !.offset = offset + limit],
                                     later)
                rest     == { j \in Asked(request) : Present(j) }
            IN page.status = 200 /\ ~Refiltered(request) =>
                  /\ page.hasMore <=> next.jobs # <<>>
                  /\ page.hasMore => Len(page.jobs) = limit
                  /\ \A j \in rest :
                        LET place == Cardinality({ k \in rest :
                                                     Before(k, j, tie) })
                            alone == \A k \in rest :
                                        table[k] = table[j] => k = j
                        IN /\ Shows(page, j)
                              <=> place \in offset .. offset + limit - 1
                           /\ later = tie \/ alone =>
                              (Shows(next, j)
                               <=> place \in offset + limit
                                            .. offset + limit + limit - 1)

\* The two adapters answer every query alike, although one cuts the page out
\* of all rows and the other reads one row more (memory.go:602, sql.go:673);
\* limits out of bounds included, which only the endpoint refuses.
AdaptersAgree ==
    walk.pc = "idle" =>
        \A request \in Request :
            request.limit # None /\ request.offset # None =>
                MemoryList(request, ById) = SqlList(request, ById)

=============================================================================
