---------------------------- MODULE ListingProofs ----------------------------
(***************************************************************************)
(* Theorems about Listing, for any number of jobs and any size of a page:  *)
(* the pages of a table fit together, both adapters cut the same ones, and *)
(* a walk through them misses and repeats rows only as jobs move.          *)
(***************************************************************************)
EXTENDS Listing, TLAPS, FiniteSetTheorems, SequenceTheorems

\* The table, as TypeOK has it.
TableOK ==
    /\ adapter \in Adapters
    /\ jobType \in JobTypes
    /\ table \in [Jobs -> Times \cup {None}]

\* An order of the rows of the same time that tells all of them apart.
Orderly(tie) ==
    /\ tie \in [Jobs -> Int]
    /\ \A j, k \in Jobs : tie[j] = tie[k] => j = k

\* Rows of the table.
HasRows(rows) == rows \subseteq { j \in Jobs : Present(j) }

\* The rows before a row, and so its place, counted from zero.
Earlier(rows, j, tie) == { k \in rows : Before(k, j, tie) }
Place(rows, j, tie)   == Cardinality(Earlier(rows, j, tie))

-----------------------------------------------------------------------------
(* The order of a table. *)

\* ID order and every order of a legacy list tell all rows apart.
LEMMA TiesOrderly ==
    ASSUME NEW tie \in Ties \cup {ById}
    PROVE  Orderly(tie)
<1>1. Orderly(ById)
  BY JobAssumption DEF Orderly, ById
<1>2. ASSUME NEW t \in AnyWay PROVE Orderly(t)
  BY FS_CardinalityType, JobAssumption DEF Orderly, AnyWay
<1>3. QED
  BY <1>1, <1>2 DEF Ties

\* Rows are in a strict total order.
LEMMA RowsOrdered ==
    ASSUME TableOK, NEW tie, Orderly(tie), NEW rows, HasRows(rows)
    PROVE  /\ \A j \in rows : ~Before(j, j, tie)
           /\ \A j, k, l \in rows :
                 Before(j, k, tie) /\ Before(k, l, tie) => Before(j, l, tie)
           /\ \A j, k \in rows : j = k \/ Before(j, k, tie) \/ Before(k, j, tie)
<1>1. \A j \in rows : j \in Jobs /\ table[j] \in Int /\ tie[j] \in Int
  BY TimeAssumption DEF TableOK, HasRows, Present, Orderly
<1>2. \A j, k \in rows : tie[j] = tie[k] => j = k
  BY <1>1 DEF Orderly
<1>. QED
  BY <1>1, <1>2 DEF Before

\* Sets of rows are finite.
LEMMA RowsFinite ==
    ASSUME NEW rows, rows \subseteq Jobs
    PROVE  IsFiniteSet(rows) /\ Cardinality(rows) \in Nat
           /\ Cardinality(rows) <= Cardinality(Jobs)
BY FS_Subset, FS_CardinalityType, JobAssumption

\* Places count from zero and follow the order.
LEMMA PlacesFollowOrder ==
    ASSUME TableOK, NEW tie, Orderly(tie), NEW rows, HasRows(rows)
    PROVE  /\ \A j \in rows : Place(rows, j, tie) \in 0 .. Cardinality(rows) - 1
           /\ \A j, k \in rows :
                 Before(j, k, tie) <=> Place(rows, j, tie) < Place(rows, k, tie)
           /\ \A j, k \in rows :
                 Place(rows, j, tie) = Place(rows, k, tie) => j = k
<1>1. rows \subseteq Jobs
  BY DEF HasRows
<1>2. IsFiniteSet(rows) /\ Cardinality(rows) \in Nat
  BY <1>1, RowsFinite
<1>3. ASSUME NEW j \in rows
      PROVE  /\ IsFiniteSet(Earlier(rows, j, tie))
             /\ Place(rows, j, tie) \in Nat
             /\ Place(rows, j, tie) < Cardinality(rows)
  <2>1. Earlier(rows, j, tie) \in SUBSET rows /\ j \notin Earlier(rows, j, tie)
    BY RowsOrdered DEF Earlier
  <2>2. Earlier(rows, j, tie) # rows
    BY <2>1
  <2>3. /\ IsFiniteSet(Earlier(rows, j, tie))
        /\ Cardinality(Earlier(rows, j, tie)) <= Cardinality(rows)
        /\ Cardinality(Earlier(rows, j, tie)) # Cardinality(rows)
    BY <2>1, <2>2, <1>2, FS_Subset
  <2>4. Cardinality(Earlier(rows, j, tie)) \in Nat
    BY <2>3, FS_CardinalityType
  <2>5. QED
    BY <2>3, <2>4, <1>2 DEF Place
<1>4. ASSUME NEW j \in rows, NEW k \in rows, Before(j, k, tie)
      PROVE  Place(rows, j, tie) < Place(rows, k, tie)
  <2>1. Earlier(rows, j, tie) \in SUBSET Earlier(rows, k, tie)
    BY <1>4, RowsOrdered DEF Earlier
  <2>2. j \in Earlier(rows, k, tie) /\ j \notin Earlier(rows, j, tie)
    BY <1>4, RowsOrdered DEF Earlier
  <2>3. Earlier(rows, j, tie) # Earlier(rows, k, tie)
    BY <2>2
  <2>4. /\ Cardinality(Earlier(rows, j, tie)) <= Cardinality(Earlier(rows, k, tie))
        /\ Cardinality(Earlier(rows, j, tie)) # Cardinality(Earlier(rows, k, tie))
    BY <2>1, <2>3, <1>3, FS_Subset
  <2>5. QED
    BY <2>4, <1>3 DEF Place
<1>5. ASSUME NEW j \in rows, NEW k \in rows
      PROVE  /\ Before(j, k, tie) <=> Place(rows, j, tie) < Place(rows, k, tie)
             /\ Place(rows, j, tie) = Place(rows, k, tie) => j = k
  <2>1. j = k \/ Before(j, k, tie) \/ Before(k, j, tie)
    BY RowsOrdered
  <2>2. ~Before(j, j, tie)
    BY RowsOrdered
  <2>3. Place(rows, j, tie) \in Nat /\ Place(rows, k, tie) \in Nat
    BY <1>3
  <2>4. QED
    BY <2>1, <2>2, <2>3, <1>4
<1>6. \A j \in rows : Place(rows, j, tie) \in 0 .. Cardinality(rows) - 1
  BY <1>2, <1>3
<1>. QED
  BY <1>5, <1>6

\* Every place is taken.
LEMMA PlacesTaken ==
    ASSUME TableOK, NEW tie, Orderly(tie), NEW rows, HasRows(rows),
           NEW p \in 0 .. Cardinality(rows) - 1
    PROVE  \E j \in rows : Place(rows, j, tie) = p
<1> DEFINE places == 0 .. Cardinality(rows) - 1
           place  == [j \in rows |-> Place(rows, j, tie)]
<1>1. IsFiniteSet(rows) /\ Cardinality(rows) \in Nat
  BY RowsFinite DEF HasRows
<1>2. IsFiniteSet(places) /\ Cardinality(places) = Cardinality(rows)
  <2>1. Cardinality(rows) - 1 \in Int /\ 0 \in Int
    BY <1>1
  <2>2. \A b \in Int : /\ IsFiniteSet(0 .. b)
                       /\ Cardinality(0 .. b) = IF 0 > b THEN 0 ELSE b - 0 + 1
    BY FS_Interval
  <2>3. QED
    BY <1>1, <2>1, <2>2
<1>3. place \in Injection(rows, places)
  BY PlacesFollowOrder DEF Injection, IsInjective
<1>4. place \in Surjection(rows, places)
  BY <1>2, <1>3, FS_Injection
<1>. QED
  BY <1>4 DEF Surjection

\* Sorting puts each row in its place.
LEMMA SortedRows ==
    ASSUME TableOK, NEW tie, Orderly(tie), NEW rows, HasRows(rows)
    PROVE  /\ Sorted(rows, tie) \in Seq(rows)
           /\ Len(Sorted(rows, tie)) = Cardinality(rows)
           /\ \A i \in 1 .. Cardinality(rows) :
                 /\ Sorted(rows, tie)[i] \in rows
                 /\ Place(rows, Sorted(rows, tie)[i], tie) = i - 1
           /\ \A j \in rows : Sorted(rows, tie)[Place(rows, j, tie) + 1] = j
<1> DEFINE n == Cardinality(rows)
           at(i) == CHOOSE j \in rows : Place(rows, j, tie) = i - 1
<1>1. n \in Nat
  BY RowsFinite DEF HasRows
<1>2. Sorted(rows, tie) = [i \in 1 .. n |-> at(i)]
  BY DEF Sorted, Place, Earlier
<1>3. ASSUME NEW i \in 1 .. n
      PROVE  at(i) \in rows /\ Place(rows, at(i), tie) = i - 1
  <2>1. i - 1 \in 0 .. Cardinality(rows) - 1
    BY <1>1
  <2>2. \E j \in rows : Place(rows, j, tie) = i - 1
    BY <2>1, PlacesTaken
  <2>3. QED
    BY <2>2
<1>4. [i \in 1 .. n |-> at(i)] \in Seq(rows)
  BY <1>1, <1>3, IsASeq
<1>5. Len([i \in 1 .. n |-> at(i)]) = n
  BY <1>1, <1>4
<1>. HIDE DEF at
<1>6. ASSUME NEW j \in rows, NEW i, i = Place(rows, j, tie) + 1
      PROVE  i \in 1 .. n /\ at(i) = j
  <2>1. Place(rows, j, tie) \in 0 .. n - 1
    BY PlacesFollowOrder
  <2>2. i \in 1 .. n /\ i - 1 = Place(rows, j, tie)
    BY <1>1, <1>6, <2>1
  <2>3. at(i) \in rows /\ Place(rows, at(i), tie) = i - 1
    BY <1>3, <2>2
  <2>4. QED
    BY <2>2, <2>3, PlacesFollowOrder
<1>. QED
  BY <1>2, <1>3, <1>4, <1>5, <1>6

-----------------------------------------------------------------------------
(* Parts of a sequence. *)

\* The shorter of two lengths.
LEMMA LeastOfTwo ==
    ASSUME NEW a \in Int, NEW b \in Int
    PROVE  /\ Least(a, b) \in Int /\ Least(a, b) <= a /\ Least(a, b) <= b
           /\ Least(a, b) = a \/ Least(a, b) = b
BY DEF Least

\* The rows of a sequence after one position and up to another.
LEMMA CutRows ==
    ASSUME NEW S, NEW s \in Seq(S), NEW n, n = Len(s),
           NEW offset \in Nat, NEW last \in Int, last <= n
    PROVE  /\ SubSeq(s, offset + 1, last) \in Seq(S)
           /\ Len(SubSeq(s, offset + 1, last)) =
                 IF offset < last THEN last - offset ELSE 0
           /\ \A i \in Int : 1 <= i /\ i <= last - offset =>
                 SubSeq(s, offset + 1, last)[i] = s[offset + i]
<1>1. n \in Nat /\ \A i \in 1 .. n : s[i] \in S
  BY LenProperties
<1>2. offset + 1 \in Int /\ \A i \in offset + 1 .. last : s[i] \in S
  <2>1. \A i \in offset + 1 .. last : i \in 1 .. n
    BY <1>1
  <2>2. QED
    BY <1>1, <2>1
<1>3. /\ SubSeq(s, offset + 1, last) \in Seq(S)
      /\ Len(SubSeq(s, offset + 1, last)) =
            IF offset + 1 <= last THEN last - (offset + 1) + 1 ELSE 0
      /\ \A i \in 1 .. last - (offset + 1) + 1 :
            SubSeq(s, offset + 1, last)[i] = s[offset + 1 + i - 1]
  BY <1>2, SubSeqProperties
<1>4. ASSUME NEW i \in Int, 1 <= i /\ i <= last - offset
      PROVE  SubSeq(s, offset + 1, last)[i] = s[offset + i]
  <2>1. i \in 1 .. last - (offset + 1) + 1 /\ offset + 1 + i - 1 = offset + i
    BY <1>4
  <2>2. QED
    BY <1>3, <2>1
<1>5. (IF offset + 1 <= last THEN last - (offset + 1) + 1 ELSE 0)
         = IF offset < last THEN last - offset ELSE 0
  OBVIOUS
<1>. QED
  BY <1>3, <1>4, <1>5

\* A sequence that has the rows from an offset on, as many as are asked for and
\* there are.
HasPart(part, s, n, limit, offset) ==
    /\ Len(part) = IF offset + limit <= n THEN limit
                   ELSE IF offset <= n THEN n - offset ELSE 0
    /\ \A i \in 1 .. Len(part) :
          offset + i \in 1 .. n /\ part[i] = s[offset + i]

\* A part of a sequence is one.
LEMMA PartRows ==
    ASSUME NEW S, NEW s \in Seq(S), NEW limit \in Nat, NEW offset \in Nat
    PROVE  /\ Part(s, limit, offset) \in Seq(S)
           /\ HasPart(Part(s, limit, offset), s, Len(s), limit, offset)
<1>. SUFFICES ASSUME NEW n, n = Len(s),
                     NEW part, part = Part(s, limit, offset)
              PROVE  part \in Seq(S) /\ HasPart(part, s, n, limit, offset)
  OBVIOUS
<1>1. n \in Nat
  BY LenProperties
<1>2. PICK last : last = Least(offset + limit, n)
  OBVIOUS
<1>3. /\ last \in Int /\ last <= n /\ last <= offset + limit
      /\ last = n \/ last = offset + limit
  <2>1. offset + limit \in Int /\ n \in Int
    BY <1>1
  <2>2. QED
    BY <1>2, <2>1, LeastOfTwo
<1>4. /\ part \in Seq(S)
      /\ Len(part) = IF offset < last THEN last - offset ELSE 0
      /\ \A i \in Int : 1 <= i /\ i <= last - offset => part[i] = s[offset + i]
  <2>1. part = SubSeq(s, offset + 1, last)
    BY <1>2 DEF Part
  <2>2. last \in Int /\ last <= n
    BY <1>3
  <2>3. QED
    BY <2>1, <2>2, CutRows
<1>5. Len(part) = IF offset + limit <= n THEN limit
                  ELSE IF offset <= n THEN n - offset ELSE 0
  BY <1>1, <1>3, <1>4
<1>6. ASSUME NEW i \in 1 .. Len(part)
      PROVE  offset + i \in 1 .. n /\ 1 <= i /\ i <= last - offset /\ i \in Int
  BY <1>1, <1>3, <1>4
<1>. QED
  BY <1>4, <1>5, <1>6 DEF HasPart

\* Cutting a page out of all rows, and reading one row more than the page has
\* (memory.go:602, sql.go:673), are the same.
LEMMA CutAlike ==
    ASSUME NEW S, NEW s \in Seq(S), NEW limit \in Nat, NEW offset \in Nat
    PROVE  PaginateWithMore(s, limit, offset)
              = TrimLookahead(Part(s, limit + 1, offset), limit)
<1> DEFINE page  == Part(s, limit, offset)
           ahead == Part(s, limit + 1, offset)
           n     == Len(s)
<1>1. n \in Nat /\ limit + 1 \in Nat
  BY LenProperties
<1>. HIDE DEF n
<1>2. page \in Seq(S) /\ HasPart(page, s, n, limit, offset)
  BY PartRows DEF n
<1>3. ahead \in Seq(S) /\ HasPart(ahead, s, n, limit + 1, offset)
  BY <1>1, PartRows DEF n
<1>. HIDE DEF page, ahead
<1>. USE DEF HasPart
<1>4. CASE offset + limit < n
  <2>1. Len(ahead) = limit + 1 /\ Len(page) = limit
    BY <1>1, <1>2, <1>3, <1>4
  <2>2. \A i \in 1 .. limit : ahead[i] \in S
    BY <1>2, <1>3, <2>1
  <2>3. /\ SubSeq(ahead, 1, limit) \in Seq(S)
        /\ Len(SubSeq(ahead, 1, limit)) =
              IF 1 <= limit THEN limit - 1 + 1 ELSE 0
        /\ \A i \in 1 .. limit - 1 + 1 :
              SubSeq(ahead, 1, limit)[i] = ahead[1 + i - 1]
    BY <2>2, SubSeqProperties
  <2>4. Len(SubSeq(ahead, 1, limit)) = limit
    BY <2>3
  <2>5. \A i \in 1 .. limit : SubSeq(ahead, 1, limit)[i] = page[i]
    BY <1>2, <1>3, <2>1, <2>3
  <2>6. SubSeq(ahead, 1, limit) = page
    BY <1>2, <2>1, <2>3, <2>4, <2>5, SeqEqual
  <2>7. ~(Len(ahead) <= limit)
    BY <2>1
  <2>8. (offset < n /\ offset + limit < n) = TRUE
    BY <1>1, <1>4
  <2>9. QED
    BY <2>6, <2>7, <2>8 DEF PaginateWithMore, TrimLookahead, page, ahead, n
<1>5. CASE ~(offset + limit < n)
  <2>1. Len(ahead) = Len(page) /\ Len(ahead) <= limit
    BY <1>1, <1>2, <1>3, <1>5
  <2>2. \A i \in 1 .. Len(ahead) : ahead[i] = page[i]
    BY <1>2, <1>3, <2>1
  <2>3. ahead = page
    BY <1>2, <1>3, <2>1, <2>2, SeqEqual
  <2>4. (offset < n /\ offset + limit < n) = FALSE
    BY <1>5
  <2>5. QED
    BY <2>1, <2>3, <2>4 DEF PaginateWithMore, TrimLookahead, page, ahead, n
<1>. QED
  BY <1>4, <1>5

-----------------------------------------------------------------------------
(* What the endpoint answers. *)

\* Requests for a page that begins anywhere.
AnyRequest == [search : BOOLEAN, queue : Queues \cup {None}, allQueues : BOOLEAN,
               limit : (0 .. MaxLimit + 1) \cup {None},
               offset : Nat \cup {None}]

\* Requests the endpoint does not refuse.
Accepted(request) ==
    /\ LimitAccepted(ParsedLimit(request.limit))
    /\ adapter = "legacy" =>
          ~request.search /\ (request.queue = None \/ jobType = "enqueued")

\* The rows of the table the server takes a request to be about.
Rows(request) == { j \in Served(request) : Present(j) }

\* The query listJobs makes of a request.
QueryOf(request) ==
    WithDefaultQueue([request EXCEPT !.limit = ParsedLimit(request.limit),
                                     !.offset = ParsedOffset(@)])

\* The queue an adapter's query is about.
QueueAsked(request) ==
    IF jobType = "enqueued" /\ request.queue = None /\ ~request.allQueues
    THEN DefaultQueue ELSE request.queue

\* The default queue stands for no queue, and is filled in once only.
LEMMA DefaultQueueOnce ==
    ASSUME NEW query \in AnyRequest
    PROVE  /\ WithDefaultQueue(query) \in AnyRequest
           /\ WithDefaultQueue(query) =
                 [query EXCEPT !.queue = QueueAsked(query)]
           /\ WithDefaultQueue(WithDefaultQueue(query)) = WithDefaultQueue(query)
BY QueueAssumption, NoneAssumption
DEF AnyRequest, WithDefaultQueue, QueueAsked

\* Limits and offsets are numbers once parsed.
LEMMA ParsedNumbers ==
    ASSUME NEW request \in AnyRequest
    PROVE  /\ ParsedLimit(request.limit) \in 0 .. MaxLimit + 1
           /\ ParsedOffset(request.offset) \in Nat
           /\ LimitAccepted(ParsedLimit(request.limit)) =>
                 /\ ParsedLimit(request.limit) \in 1 .. MaxLimit
                 /\ NormalizeLimit(ParsedLimit(request.limit))
                       = ParsedLimit(request.limit)
<1>1. ParsedLimit(request.limit) \in 0 .. MaxLimit + 1
  BY LimitAssumption DEF AnyRequest, ParsedLimit
<1>2. ParsedOffset(request.offset) \in Nat
  BY DEF AnyRequest, ParsedOffset
<1>3. ASSUME NEW limit \in 0 .. MaxLimit + 1, LimitAccepted(limit)
      PROVE  limit \in 1 .. MaxLimit /\ NormalizeLimit(limit) = limit
  BY <1>3, LimitAssumption DEF LimitAccepted, NormalizeLimit, Least
<1>. QED
  BY <1>1, <1>2, <1>3

\* The parts of the query.
LEMMA QueryParts ==
    ASSUME NEW request \in AnyRequest
    PROVE  /\ QueryOf(request) \in AnyRequest
           /\ WithDefaultQueue(QueryOf(request)) = QueryOf(request)
           /\ QueryOf(request).search = request.search
           /\ QueryOf(request).queue = QueueAsked(request)
           /\ QueryOf(request).limit = ParsedLimit(request.limit)
           /\ QueryOf(request).offset = ParsedOffset(request.offset)
<1> DEFINE parsed == [request EXCEPT !.limit = ParsedLimit(request.limit),
                                     !.offset = ParsedOffset(@)]
<1>1. /\ parsed \in AnyRequest
      /\ parsed.search = request.search
      /\ parsed.queue = request.queue
      /\ parsed.allQueues = request.allQueues
      /\ parsed.limit = ParsedLimit(request.limit)
      /\ parsed.offset = ParsedOffset(request.offset)
  BY ParsedNumbers DEF AnyRequest
<1>. HIDE DEF parsed
<1>2. QueryOf(request) = WithDefaultQueue(parsed)
  BY DEF QueryOf, parsed
<1>3. /\ WithDefaultQueue(parsed) \in AnyRequest
      /\ WithDefaultQueue(parsed) = [parsed EXCEPT !.queue = QueueAsked(parsed)]
      /\ WithDefaultQueue(WithDefaultQueue(parsed)) = WithDefaultQueue(parsed)
  BY <1>1, DefaultQueueOnce
<1>4. QueueAsked(parsed) = QueueAsked(request)
  BY <1>1 DEF QueueAsked
<1>. QED
  BY <1>1, <1>2, <1>3, <1>4 DEF AnyRequest

\* The rows the native query matches are those asked for.
LEMMA RowsMatched ==
    ASSUME TableOK, NEW request \in AnyRequest, adapter # "legacy"
    PROVE  { j \in Jobs : Matches(j, QueryOf(request)) } = Rows(request)
<1>1. /\ QueryOf(request).search = request.search
      /\ QueryOf(request).queue = QueueAsked(request)
  BY QueryParts
<1>2. /\ WithDefaultQueue(request).queue = QueueAsked(request)
      /\ WithDefaultQueue(request).search = request.search
  BY DefaultQueueOnce DEF AnyRequest
<1>. QED
  BY <1>1, <1>2 DEF Matches, Rows, Served

\* The page of rows asked for.
PageOf(request, tie) ==
    Page(PaginateWithMore(Sorted(Rows(request), tie),
                          ParsedLimit(request.limit),
                          ParsedOffset(request.offset)))

\* Rows asked for are rows of the table.
LEMMA RowsAsked ==
    ASSUME NEW request
    PROVE  HasRows(Rows(request)) /\ Rows(request) \subseteq Jobs
BY DEF HasRows, Rows, Served

\* Every adapter's answer is the page of the rows asked for; what is refused
\* has status 400.
LEMMA Answered ==
    ASSUME TableOK, NEW request \in AnyRequest, NEW tie, Orderly(tie)
    PROVE  /\ Accepted(request) => ListJobs(request, tie) = PageOf(request, tie)
           /\ ~Accepted(request) => ListJobs(request, tie) = BadRequest
<1> DEFINE limit  == ParsedLimit(request.limit)
           offset == ParsedOffset(request.offset)
           query  == QueryOf(request)
           sorted == Sorted(Rows(request), tie)
<1>1. /\ query \in AnyRequest /\ WithDefaultQueue(query) = query
      /\ query.search = request.search /\ query.queue = QueueAsked(request)
      /\ query.limit = limit /\ query.offset = offset
  BY QueryParts
<1>2. /\ limit \in Nat /\ offset \in Nat
      /\ LimitAccepted(limit) => NormalizeLimit(limit) = limit
  BY ParsedNumbers, LimitAssumption
<1>3. sorted \in Seq(Rows(request))
  BY SortedRows, RowsAsked
<1>4. PaginateWithMore(sorted, limit, offset)
         = TrimLookahead(Part(sorted, limit + 1, offset), limit)
  BY <1>2, <1>3, CutAlike
<1>5. ListJobs(request, tie) =
         CASE ~LimitAccepted(limit) -> BadRequest
           [] LimitAccepted(limit) /\ adapter = "memory" ->
                 Page(MemoryList(query, tie))
           [] LimitAccepted(limit) /\ adapter = "sql" ->
                 Page(SqlList(query, tie))
           [] LimitAccepted(limit) /\ adapter = "legacy" ->
                 IF \/ query.search
                    \/ query.queue # None /\ jobType # "enqueued"
                 THEN BadRequest
                 ELSE Page(LegacyList(query, tie))
  BY DEF ListJobs, QueryOf
<1>. HIDE DEF limit, offset, query, sorted
<1>6. CASE ~LimitAccepted(limit)
  BY <1>5, <1>6 DEF Accepted, limit
<1>7. CASE LimitAccepted(limit) /\ adapter = "memory"
  <2>1. MemoryList(query, tie) = PaginateWithMore(sorted, limit, offset)
    BY <1>1, <1>2, <1>7, RowsMatched DEF MemoryList, query, sorted
  <2>2. Accepted(request)
    BY <1>7 DEF Accepted, limit
  <2>3. ListJobs(request, tie) = Page(MemoryList(query, tie))
    BY <1>5, <1>7
  <2>4. QED
    BY <2>1, <2>2, <2>3 DEF PageOf, limit, offset, sorted
<1>8. CASE LimitAccepted(limit) /\ adapter = "sql"
  <2>1. SqlList(query, tie) = PaginateWithMore(sorted, limit, offset)
    BY <1>1, <1>2, <1>4, <1>8, RowsMatched DEF SqlList, query, sorted
  <2>2. Accepted(request)
    BY <1>8 DEF Accepted, limit
  <2>3. ListJobs(request, tie) = Page(SqlList(query, tie))
    BY <1>5, <1>8
  <2>4. QED
    BY <2>1, <2>2, <2>3 DEF PageOf, limit, offset, sorted
<1>9. CASE LimitAccepted(limit) /\ adapter = "legacy"
  <2>1. ListJobs(request, tie) =
           IF query.search \/ (query.queue # None /\ jobType # "enqueued")
           THEN BadRequest ELSE Page(LegacyList(query, tie))
    BY <1>5, <1>9
  <2>2. Accepted(request) <=>
           ~(query.search \/ (query.queue # None /\ jobType # "enqueued"))
    BY <1>1, <1>9 DEF Accepted, QueueAsked, AnyRequest, limit
  <2>3. jobType = "enqueued" =>
           (IF query.queue = None THEN DefaultQueue ELSE query.queue)
              = IF request.queue = None THEN DefaultQueue ELSE request.queue
    BY <1>1, QueueAssumption, NoneAssumption DEF QueueAsked
  <2>4. { j \in Jobs : /\ Present(j)
                       /\ jobType = "enqueued" =>
                             QueueOf[j] = IF query.queue = None THEN DefaultQueue
                                                                ELSE query.queue }
           = Rows(request)
    BY <1>9, <2>3 DEF Rows, Served
  <2>5. LegacyList(query, tie) = PaginateWithMore(sorted, limit, offset)
    BY <1>1, <1>4, <2>4 DEF LegacyList, sorted
  <2>6. QED
    BY <2>1, <2>2, <2>5 DEF PageOf, limit, offset, sorted
<1>. QED
  BY <1>6, <1>7, <1>8, <1>9 DEF TableOK, Adapters

-----------------------------------------------------------------------------
(* Pages of one table. *)

\* The rows at the places from an offset on.
HasPlaces(jobs, rows, tie, limit, offset) ==
    /\ jobs \in Seq(rows)
    /\ Len(jobs) = IF offset + limit <= Cardinality(rows) THEN limit
                   ELSE IF offset <= Cardinality(rows)
                        THEN Cardinality(rows) - offset ELSE 0
    /\ \A j \in rows : (\E i \in DOMAIN jobs : jobs[i] = j)
                       <=> Place(rows, j, tie) \in offset .. offset + limit - 1

\* A page has them, and promises more when rows are left.
FitPage(answer, rows, tie, limit, offset) ==
    /\ answer.status = 200
    /\ HasPlaces(answer.jobs, rows, tie, limit, offset)
    /\ answer.hasMore = (offset < Cardinality(rows)
                         /\ offset + limit < Cardinality(rows))

\* A part of the sorted rows has those whose places are in it.
LEMMA PartPlaces ==
    ASSUME TableOK, NEW tie, Orderly(tie), NEW rows, HasRows(rows),
           NEW limit \in Nat, NEW offset \in Nat
    PROVE  HasPlaces(Part(Sorted(rows, tie), limit, offset), rows, tie,
                     limit, offset)
<1>. SUFFICES ASSUME NEW part, part = Part(Sorted(rows, tie), limit, offset)
              PROVE  HasPlaces(part, rows, tie, limit, offset)
  OBVIOUS
<1>1. PICK n : n = Cardinality(rows) /\ n \in Nat
  BY RowsFinite DEF HasRows
<1>2. PICK s : s = Sorted(rows, tie)
  OBVIOUS
<1>3. /\ s \in Seq(rows) /\ Len(s) = n
      /\ \A i \in 1 .. n : s[i] \in rows /\ Place(rows, s[i], tie) = i - 1
      /\ \A j \in rows : s[Place(rows, j, tie) + 1] = j
  BY <1>1, <1>2, SortedRows
<1>4. part \in Seq(rows) /\ HasPart(part, s, n, limit, offset)
  BY <1>2, <1>3, PartRows
<1>5. Len(part) \in Nat /\ DOMAIN part = 1 .. Len(part) /\ Len(part) <= limit
  BY <1>1, <1>4, LenProperties DEF HasPart
<1>6. ASSUME NEW j \in rows, NEW i \in DOMAIN part, part[i] = j
      PROVE  Place(rows, j, tie) \in offset .. offset + limit - 1
  <2>1. PICK p : p = offset + i
    OBVIOUS
  <2>2. i \in 1 .. Len(part) /\ p \in 1 .. n /\ j = s[p]
    BY <1>4, <1>5, <1>6, <2>1 DEF HasPart
  <2>3. Place(rows, j, tie) = p - 1
    BY <1>3, <2>2
  <2>4. QED
    BY <1>5, <2>1, <2>2, <2>3
<1>7. ASSUME NEW j \in rows,
             Place(rows, j, tie) \in offset .. offset + limit - 1
      PROVE  \E i \in DOMAIN part : part[i] = j
  <2>1. PICK p : p = Place(rows, j, tie) /\ p \in 0 .. n - 1
    BY <1>1, PlacesFollowOrder
  <2>2. PICK i : i = p + 1 - offset
    OBVIOUS
  <2>3. i \in 1 .. Len(part) /\ offset + i = p + 1
    <3>1. p \in Int /\ offset <= p /\ p <= offset + limit - 1 /\ p <= n - 1
      BY <1>1, <1>7, <2>1
    <3>2. PICK m : m = Len(part)
      OBVIOUS
    <3>3. m = IF offset + limit <= n THEN limit
              ELSE IF offset <= n THEN n - offset ELSE 0
      BY <1>4, <3>2 DEF HasPart
    <3>4. i \in Int /\ 1 <= i /\ i <= m /\ m \in Int /\ offset + i = p + 1
      BY <1>1, <2>2, <3>1, <3>3
    <3>5. QED
      BY <3>2, <3>4
  <2>4. part[i] = s[p + 1] /\ s[p + 1] = j
    BY <1>3, <1>4, <2>1, <2>3 DEF HasPart
  <2>5. QED
    BY <1>5, <2>3, <2>4
<1>. QED
  BY <1>1, <1>4, <1>6, <1>7 DEF HasPart, HasPlaces

\* The answer to an accepted request has the rows asked for whose places are
\* on the page.
LEMMA PageFits ==
    ASSUME TableOK, NEW request \in AnyRequest, Accepted(request),
           NEW tie, Orderly(tie)
    PROVE  FitPage(ListJobs(request, tie), Rows(request), tie,
                   ParsedLimit(request.limit), ParsedOffset(request.offset))
<1>1. PICK rows : rows = Rows(request) /\ HasRows(rows)
  BY RowsAsked
<1>2. PICK limit : limit = ParsedLimit(request.limit) /\ limit \in Nat
  BY ParsedNumbers, LimitAssumption
<1>3. PICK offset : offset = ParsedOffset(request.offset) /\ offset \in Nat
  BY ParsedNumbers
<1>4. PICK part : part = Part(Sorted(rows, tie), limit, offset)
  OBVIOUS
<1>5. PICK n : n = Cardinality(rows) /\ n \in Nat /\ Len(Sorted(rows, tie)) = n
  BY <1>1, SortedRows, RowsFinite DEF HasRows
<1>6. ListJobs(request, tie) = Page([jobs |-> part,
                                     hasMore |-> offset < n /\ offset + limit < n])
  BY <1>1, <1>2, <1>3, <1>4, <1>5, Answered DEF PageOf, PaginateWithMore
<1>7. /\ ListJobs(request, tie).status = 200
      /\ ListJobs(request, tie).jobs = part
      /\ ListJobs(request, tie).hasMore = (offset < n /\ offset + limit < n)
  BY <1>6 DEF Page
<1>8. HasPlaces(part, rows, tie, limit, offset)
  BY <1>1, <1>2, <1>3, <1>4, PartPlaces
<1>9. FitPage(ListJobs(request, tie), rows, tie, limit, offset)
  BY <1>5, <1>7, <1>8 DEF FitPage
<1>. QED
  BY <1>1, <1>2, <1>3, <1>9

\* What a request asks for does not depend on where the page begins.
LEMMA OffsetAside ==
    ASSUME NEW request \in AnyRequest, NEW offset \in Nat
    PROVE  LET next == [request EXCEPT !.offset = offset]
           IN  /\ next \in AnyRequest
               /\ Accepted(next) <=> Accepted(request)
               /\ Served(next) = Served(request)
               /\ Rows(next) = Rows(request)
               /\ ParsedLimit(next.limit) = ParsedLimit(request.limit)
               /\ ParsedOffset(next.offset) = offset
<1> DEFINE next == [request EXCEPT !.offset = offset]
<1>1. /\ next \in AnyRequest
      /\ next.search = request.search /\ next.queue = request.queue
      /\ next.allQueues = request.allQueues /\ next.limit = request.limit
      /\ next.offset = offset
  BY DEF AnyRequest
<1>. HIDE DEF next
<1>2. Accepted(next) <=> Accepted(request)
  BY <1>1 DEF Accepted
<1>3. WithDefaultQueue(next).queue = WithDefaultQueue(request).queue
      /\ WithDefaultQueue(next).search = WithDefaultQueue(request).search
  <2>1. WithDefaultQueue(next) = [next EXCEPT !.queue = QueueAsked(next)]
        /\ WithDefaultQueue(request)
              = [request EXCEPT !.queue = QueueAsked(request)]
    BY <1>1, DefaultQueueOnce
  <2>2. QueueAsked(next) = QueueAsked(request)
    BY <1>1 DEF QueueAsked
  <2>3. QED
    BY <1>1, <2>1, <2>2 DEF AnyRequest
<1>4. Served(next) = Served(request)
  BY <1>1, <1>3 DEF Served
<1>5. Rows(next) = Rows(request)
  BY <1>4 DEF Rows
<1>6. ParsedOffset(next.offset) = offset
  BY <1>1, NoneAssumption DEF ParsedOffset
<1>. QED
  BY <1>1, <1>2, <1>4, <1>5, <1>6 DEF next

\* What the server serves is what storage.go says a request asks for, but for the
\* lists it filters again.
LEMMA ServedAsked ==
    ASSUME NEW request \in AnyRequest, Accepted(request), ~Refiltered(request)
    PROVE  { j \in Asked(request) : Present(j) } = Rows(request)
<1>1. PICK q : q = WithDefaultQueue(request)
  OBVIOUS
<1>2. q = [request EXCEPT !.queue = QueueAsked(request)]
  BY <1>1, DefaultQueueOnce
<1>3. q.queue = QueueAsked(request) /\ q.search = request.search
  BY <1>2 DEF AnyRequest
<1>4. Asked(request) = { j \in Jobs : /\ q.queue = None \/ QueueOf[j] = q.queue
                                      /\ q.search => j \in Found }
  BY <1>1 DEF Asked
<1>5. CASE adapter # "legacy"
  <2>1. Served(request) = Asked(request)
    BY <1>1, <1>4, <1>5 DEF Served
  <2>2. QED
    BY <2>1 DEF Rows
<1>6. CASE adapter = "legacy"
  <2>1. ~request.search /\ (request.queue = None \/ jobType = "enqueued")
    BY <1>6 DEF Accepted
  <2>2. CASE jobType = "enqueued"
    <3>1. q.queue = (IF request.queue = None THEN DefaultQueue ELSE request.queue)
      BY <1>3, <1>6, <2>2 DEF QueueAsked, Refiltered
    <3>2. q.queue # None
      BY <3>1, NoneAssumption, QueueAssumption
    <3>3. Served(request) = Asked(request)
      BY <1>3, <1>4, <1>6, <2>1, <2>2, <3>1, <3>2 DEF Served
    <3>4. QED
      BY <3>3 DEF Rows
  <2>3. CASE jobType # "enqueued"
    <3>1. q.queue = None
      BY <1>3, <2>1, <2>3 DEF QueueAsked
    <3>2. Asked(request) = Jobs
      BY <1>3, <1>4, <2>1, <3>1
    <3>3. Served(request) = Jobs
      BY <1>6, <2>3 DEF Served
    <3>4. QED
      BY <3>2, <3>3 DEF Rows
  <2>4. QED
    BY <2>2, <2>3
<1>7. QED
  BY <1>5, <1>6

\* A row that has its time to itself has the same place in every order.
LEMMA AlonePlace ==
    ASSUME NEW rows, NEW j \in rows, NEW tie, NEW later,
           \A k \in rows : table[k] = table[j] => k = j,
           tie[j] < tie[j] <=> later[j] < later[j]
    PROVE  Place(rows, j, tie) = Place(rows, j, later)
<1>1. \A k \in rows : Before(k, j, tie) <=> Before(k, j, later)
  BY Zenon DEF Before
<1>2. { k \in rows : Before(k, j, tie) } = { k \in rows : Before(k, j, later) }
  BY <1>1, Zenon
<1>. QED
  BY <1>2, Zenon DEF Place, Earlier

\* The pages of a table fit together.
LEMMA PagesFit == TableOK => PagesFitTogether
<1>. SUFFICES ASSUME TableOK, NEW request \in Request,
                     NEW tie \in Ties, NEW later \in Ties
              PROVE  LET limit  == ParsedLimit(request.limit)
                         offset == ParsedOffset(request.offset)
                         page   == ListJobs(request, tie)
                         next   == ListJobs([request EXCEPT
                                                !.offset = offset + limit], later)
                         rest   == { j \in Asked(request) : Present(j) }
                     IN page.status = 200 /\ ~Refiltered(request) =>
                           /\ page.hasMore <=> next.jobs # <<>>
                           /\ page.hasMore => Len(page.jobs) = limit
                           /\ \A j \in rest :
                                 /\ Shows(page, j) <=> Place(rest, j, tie)
                                       \in offset .. offset + limit - 1
                                 /\ later = tie
                                       \/ (\A k \in rest : table[k] = table[j]
                                                              => k = j) =>
                                    (Shows(next, j) <=> Place(rest, j, tie)
                                       \in offset + limit
                                             .. offset + limit + limit - 1)
  BY DEF PagesFitTogether, Place, Earlier
<1> DEFINE limit  == ParsedLimit(request.limit)
           offset == ParsedOffset(request.offset)
           page   == ListJobs(request, tie)
           next   == ListJobs([request EXCEPT !.offset = offset + limit], later)
           rest   == { j \in Asked(request) : Present(j) }
<1>. SUFFICES ASSUME page.status = 200, ~Refiltered(request)
              PROVE  /\ page.hasMore <=> next.jobs # <<>>
                     /\ page.hasMore => Len(page.jobs) = limit
                     /\ \A j \in rest :
                           /\ Shows(page, j) <=> Place(rest, j, tie)
                                 \in offset .. offset + limit - 1
                           /\ later = tie
                                 \/ (\A k \in rest : table[k] = table[j] => k = j) =>
                              (Shows(next, j) <=> Place(rest, j, tie)
                                 \in offset + limit .. offset + limit + limit - 1)
  OBVIOUS
<1>1. request \in AnyRequest /\ Orderly(tie) /\ Orderly(later)
  <2>1. Cardinality(Jobs) \in Nat
    BY RowsFinite
  <2>2. QED
    BY <2>1, TiesOrderly DEF Request, AnyRequest
<1>2. Accepted(request)
  <2>1. BadRequest.status # 200
    BY DEF BadRequest
  <2>2. QED
    BY <1>1, <2>1, Answered
<1>3. limit \in 1 .. MaxLimit /\ offset \in Nat /\ limit \in Nat /\ 1 <= limit
      /\ offset + limit \in Nat
  BY <1>1, <1>2, ParsedNumbers, LimitAssumption DEF Accepted
<1>12. rest = Rows(request)
  BY <1>1, <1>2, ServedAsked
<1>4. FitPage(page, rest, tie, limit, offset)
  BY <1>1, <1>2, <1>12, PageFits
<1>5. FitPage(next, rest, later, limit, offset + limit)
  <2>1. PICK request2 : request2 = [request EXCEPT !.offset = offset + limit]
    OBVIOUS
  <2>2. /\ request2 \in AnyRequest /\ Accepted(request2) /\ Rows(request2) = rest
        /\ ParsedLimit(request2.limit) = limit
        /\ ParsedOffset(request2.offset) = offset + limit
    BY <1>1, <1>2, <1>3, <1>12, <2>1, OffsetAside
  <2>3. FitPage(ListJobs(request2, later), Rows(request2), later,
                ParsedLimit(request2.limit), ParsedOffset(request2.offset))
    BY <1>1, <2>2, PageFits
  <2>4. QED
    BY <2>1, <2>2, <2>3
<1>6. Cardinality(rest) \in Nat
  BY <1>12, RowsAsked, RowsFinite
<1>. HIDE DEF limit, offset, page, next, rest
<1>7. page.hasMore <=> offset + limit < Cardinality(rest)
  <2>1. page.hasMore = (offset < Cardinality(rest)
                        /\ offset + limit < Cardinality(rest))
    BY <1>4 DEF FitPage
  <2>2. (offset < Cardinality(rest) /\ offset + limit < Cardinality(rest))
           <=> offset + limit < Cardinality(rest)
    BY <1>3, <1>6
  <2>3. QED
    BY <2>1, <2>2, Zenon
<1>8. page.hasMore <=> next.jobs # <<>>
  <2>1. page.hasMore <=> offset + limit < Cardinality(rest)
    BY <1>7
  <2>2. next.jobs \in Seq(rest)
        /\ Len(next.jobs) = IF offset + limit + limit <= Cardinality(rest) THEN limit
                            ELSE IF offset + limit <= Cardinality(rest)
                                 THEN Cardinality(rest) - (offset + limit) ELSE 0
    BY <1>5 DEF FitPage, HasPlaces
  <2>3. offset + limit < Cardinality(rest) <=> Len(next.jobs) # 0
    BY <1>3, <1>6, <2>2
  <2>4. Len(next.jobs) # 0 <=> next.jobs # <<>>
    BY <2>2, EmptySeq
  <2>5. QED
    BY <2>1, <2>3, <2>4
<1>9. page.hasMore => Len(page.jobs) = limit
  <2>1. Len(page.jobs) = IF offset + limit <= Cardinality(rest) THEN limit
                         ELSE IF offset <= Cardinality(rest)
                              THEN Cardinality(rest) - offset ELSE 0
    BY <1>4 DEF FitPage, HasPlaces
  <2>2. offset + limit < Cardinality(rest) => Len(page.jobs) = limit
    BY <1>3, <1>6, <2>1
  <2>3. QED
    BY <1>7, <2>2
<1>10. ASSUME NEW j \in rest
       PROVE  /\ Shows(page, j) <=> Place(rest, j, tie)
                    \in offset .. offset + limit - 1
              /\ Shows(next, j) <=> Place(rest, j, later)
                    \in offset + limit .. offset + limit + limit - 1
  BY <1>4, <1>5 DEF FitPage, HasPlaces, Shows
<1>11. ASSUME NEW j \in rest,
              later = tie \/ \A k \in rest : table[k] = table[j] => k = j
       PROVE  Place(rest, j, tie) = Place(rest, j, later)
  <2>1. CASE later = tie
    BY <2>1
  <2>2. CASE \A k \in rest : table[k] = table[j] => k = j
    <3>1. j \in Jobs
      BY <1>12 DEF Rows, Served
    <3>2. tie[j] < tie[j] <=> later[j] < later[j]
      BY <1>1, <3>1 DEF Orderly
    <3>3. QED
      BY <2>2, <3>2, AlonePlace
  <2>3. QED
    BY <1>11, <2>1, <2>2
<1>. QED
  BY <1>8, <1>9, <1>10, <1>11

\* The two adapters cut the same page out of the same rows, also where the
\* limit is out of bounds.
LEMMA AnswersAlike == TableOK => AdaptersAgree
<1>. SUFFICES ASSUME TableOK, NEW request \in Request,
                     request.limit # None, request.offset # None
              PROVE  MemoryList(request, ById) = SqlList(request, ById)
  BY DEF AdaptersAgree
<1>1. Cardinality(Jobs) \in Nat
  BY RowsFinite
<1>2. PICK q : q = WithDefaultQueue(request) /\ q \in AnyRequest
               /\ q.limit = request.limit /\ q.offset = request.offset
  <2>1. request \in AnyRequest
    BY <1>1 DEF Request, AnyRequest
  <2>2. QED
    BY <2>1, DefaultQueueOnce DEF AnyRequest
<1>3. PICK limit : limit = NormalizeLimit(q.limit) /\ limit \in Nat
  BY <1>2, LimitAssumption DEF NormalizeLimit, Least, AnyRequest
<1>4. q.offset \in Nat
  BY <1>2 DEF AnyRequest
<1>5. PICK rows : rows = { j \in Jobs : Matches(j, q) } /\ HasRows(rows)
  BY DEF HasRows, Matches
<1>6. Sorted(rows, ById) \in Seq(rows)
  BY <1>5, TiesOrderly, SortedRows
<1>7. PaginateWithMore(Sorted(rows, ById), limit, q.offset)
         = TrimLookahead(Part(Sorted(rows, ById), limit + 1, q.offset), limit)
  BY <1>3, <1>4, <1>6, CutAlike
<1>. QED
  BY <1>2, <1>3, <1>5, <1>7 DEF MemoryList, SqlList

-----------------------------------------------------------------------------
(* A walk: what it has missed and what it may show again.  A row of the     *)
(* table's is behind the walk or ahead of it, by its place.                 *)

\* Rows that were there all the time, are behind the walk, and were not shown.
Missed(stable, seen, place, offset) ==
    { j \in stable : seen[j] = 0 /\ place[j] < offset }

\* Rows that were shown again, and rows that may be: shown, and ahead.
Again(stable, seen) == { j \in stable : seen[j] > 1 }
Due(stable, seen, place, offset) ==
    { j \in stable : seen[j] >= 1 /\ place[j] >= offset }

\* The places of those rows among all the rows the walk is about.
Places(stable, rows) == [j \in stable |-> Place(rows, j, ById)]

\* What moves account for, while a walk goes on.
Accounted(stable, seen, place, offset, entered, left) ==
    /\ Cardinality(Missed(stable, seen, place, offset)) <= left
    /\ Cardinality(Again(stable, seen))
          + Cardinality(Due(stable, seen, place, offset)) <= entered

\* A part of a set of jobs has no more members than the whole.
LEMMA NoMore ==
    ASSUME NEW some \in SUBSET Jobs, NEW all \in SUBSET Jobs, some \subseteq all
    PROVE  Cardinality(some) <= Cardinality(all)
BY RowsFinite, FS_Subset

\* A set of jobs whose members are in another, but for one, has at most one more.
LEMMA OneMore ==
    ASSUME NEW some \in SUBSET Jobs, NEW all \in SUBSET Jobs, NEW extra,
           \A j \in some : j \in all \/ j = extra
    PROVE  Cardinality(some) <= Cardinality(all) + 1
<1>1. IsFiniteSet(all) /\ Cardinality(all) \in Nat
  BY RowsFinite
<1>2. /\ IsFiniteSet(all \cup {extra})
      /\ Cardinality(all \cup {extra}) =
            IF extra \in all THEN Cardinality(all) ELSE Cardinality(all) + 1
  BY <1>1, FS_AddElement
<1>3. some \in SUBSET (all \cup {extra})
  OBVIOUS
<1>4. Cardinality(some) <= Cardinality(all \cup {extra})
  BY <1>2, <1>3, FS_Subset
<1>5. Cardinality(some) \in Nat
  BY RowsFinite
<1>. QED
  BY <1>1, <1>2, <1>4, <1>5

\* Two sets of jobs without a common one, within two others.
LEMMA TwoParts ==
    ASSUME NEW one \in SUBSET Jobs, NEW two \in SUBSET Jobs, one \cap two = {},
           NEW all \in SUBSET Jobs, one \subseteq all, two \subseteq all
    PROVE  Cardinality(one) + Cardinality(two) <= Cardinality(all)
<1>1. IsFiniteSet(one) /\ IsFiniteSet(two)
      /\ Cardinality(one) \in Nat /\ Cardinality(two) \in Nat
  BY RowsFinite
<1>2. Cardinality(one \cap two) = 0
  BY FS_EmptySet
<1>3. Cardinality(one \cup two)
         = Cardinality(one) + Cardinality(two) - Cardinality(one \cap two)
  BY <1>1, FS_Union
<1>4. Cardinality(one \cup two) <= Cardinality(all)
  BY NoMore
<1>. QED
  BY <1>1, <1>2, <1>3, <1>4

\* A page moves the rows it shows behind the walk: no row is missed by that, and
\* one shown again was due.
LEMMA PageAccounted ==
    ASSUME NEW stable \in SUBSET Jobs, NEW place \in [stable -> Nat],
           NEW seen \in [Jobs -> Nat], NEW seen2 \in [Jobs -> Nat],
           NEW offset \in Nat, NEW limit \in Nat, NEW entered \in Nat, NEW left \in Nat,
           \A j \in stable :
              seen2[j] = IF place[j] \in offset .. offset + limit - 1
                         THEN seen[j] + 1 ELSE seen[j],
           Accounted(stable, seen, place, offset, entered, left)
    PROVE  Accounted(stable, seen2, place, offset + limit, entered, left)
<1> DEFINE missed  == Missed(stable, seen, place, offset)
           again   == Again(stable, seen)
           due     == Due(stable, seen, place, offset)
           missed2 == Missed(stable, seen2, place, offset + limit)
           again2  == Again(stable, seen2)
           due2    == Due(stable, seen2, place, offset + limit)
           onPage  == { j \in due : place[j] < offset + limit }
<1>1. \A j \in stable : /\ place[j] \in Nat /\ seen[j] \in Nat /\ seen2[j] \in Nat
                        /\ j \in Jobs
  OBVIOUS
<1>2. missed2 \subseteq missed
  BY <1>1 DEF Missed
<1>3. \A j \in again2 : j \in again \/ j \in onPage
  BY <1>1 DEF Again, Due
<1>4. due2 \subseteq due /\ due2 \cap onPage = {} /\ onPage \subseteq due
  BY <1>1 DEF Due
<1>5. /\ missed \in SUBSET Jobs /\ missed2 \in SUBSET Jobs
      /\ again \in SUBSET Jobs /\ again2 \in SUBSET Jobs
      /\ due \in SUBSET Jobs /\ due2 \in SUBSET Jobs /\ onPage \in SUBSET Jobs
  BY DEF Missed, Again, Due
<1>6. /\ Cardinality(missed) <= left
      /\ Cardinality(again) + Cardinality(due) <= entered
  BY DEF Accounted
<1>. HIDE DEF missed, again, due, missed2, again2, due2, onPage
<1>7. Cardinality(missed2) <= Cardinality(missed)
  BY <1>2, <1>5, NoMore
<1>8. Cardinality(due2) + Cardinality(onPage) <= Cardinality(due)
  BY <1>4, <1>5, TwoParts
<1>9. Cardinality(again2) <= Cardinality(again) + Cardinality(onPage)
  <2>1. again \cup onPage \in SUBSET Jobs /\ again2 \subseteq again \cup onPage
    BY <1>3, <1>5
  <2>2. Cardinality(again2) <= Cardinality(again \cup onPage)
    BY <1>5, <2>1, NoMore
  <2>3. /\ IsFiniteSet(again) /\ IsFiniteSet(onPage)
        /\ IsFiniteSet(again \cap onPage)
    BY <1>5, RowsFinite, FS_Intersection
  <2>4. Cardinality(again \cup onPage)
           = Cardinality(again) + Cardinality(onPage)
             - Cardinality(again \cap onPage)
    BY <2>3, FS_Union
  <2>5. /\ Cardinality(again \cap onPage) \in Nat
        /\ Cardinality(again \cup onPage) \in Nat
        /\ Cardinality(again2) \in Nat /\ Cardinality(again) \in Nat
        /\ Cardinality(onPage) \in Nat
    BY <1>5, <2>1, <2>3, RowsFinite, FS_CardinalityType
  <2>6. QED
    BY <2>2, <2>4, <2>5
<1>10. /\ Cardinality(missed) \in Nat /\ Cardinality(missed2) \in Nat
       /\ Cardinality(again) \in Nat /\ Cardinality(again2) \in Nat
       /\ Cardinality(due) \in Nat /\ Cardinality(due2) \in Nat
       /\ Cardinality(onPage) \in Nat
  BY <1>5, RowsFinite
<1>11. /\ Cardinality(missed2) <= left
       /\ Cardinality(again2) + Cardinality(due2) <= entered
  BY <1>6, <1>7, <1>8, <1>9, <1>10
<1>. QED
  BY <1>11 DEF Accounted, missed2, again2, due2

\* A row that enters moves others one place back at most, so that one of them
\* comes from behind the walk to be ahead of it.
LEMMA EntryAccounted ==
    ASSUME NEW stable \in SUBSET Jobs,
           NEW place \in [stable -> Int], NEW place2 \in [stable -> Int],
           NEW seen \in [Jobs -> Nat],
           NEW offset \in Nat, NEW entered \in Nat, NEW left \in Nat,
           \A j, k \in stable : place[j] = place[k] => j = k,
           \A j \in stable : place2[j] = place[j] \/ place2[j] = place[j] + 1,
           Accounted(stable, seen, place, offset, entered, left)
    PROVE  Accounted(stable, seen, place2, offset, entered + 1, left)
<1> DEFINE missed  == Missed(stable, seen, place, offset)
           again   == Again(stable, seen)
           due     == Due(stable, seen, place, offset)
           missed2 == Missed(stable, seen, place2, offset)
           due2    == Due(stable, seen, place2, offset)
<1>1. \A j \in stable : /\ place[j] \in Int /\ place2[j] \in Int /\ seen[j] \in Nat
                        /\ j \in Jobs
  OBVIOUS
<1>2. missed2 \subseteq missed
  BY <1>1 DEF Missed
<1>3. PICK extra : \A j \in due2 : j \in due \/ j = extra
  <2>1. CASE \E j \in stable : place[j] = offset - 1
    <3>1. PICK j \in stable : place[j] = offset - 1
      BY <2>1
    <3>2. \A k \in due2 : k \in due \/ k = j
      BY <1>1, <3>1 DEF Due
    <3>3. QED
      BY <3>2
  <2>2. CASE ~\E j \in stable : place[j] = offset - 1
    BY <1>1, <2>2 DEF Due
  <2>3. QED
    BY <2>1, <2>2
<1>4. /\ missed \in SUBSET Jobs /\ missed2 \in SUBSET Jobs
      /\ again \in SUBSET Jobs /\ due \in SUBSET Jobs /\ due2 \in SUBSET Jobs
  BY DEF Missed, Again, Due
<1>5. /\ Cardinality(missed) <= left
      /\ Cardinality(again) + Cardinality(due) <= entered
  BY DEF Accounted
<1>. HIDE DEF missed, again, due, missed2, due2
<1>6. Cardinality(missed2) <= Cardinality(missed)
  BY <1>2, <1>4, NoMore
<1>7. Cardinality(due2) <= Cardinality(due) + 1
  BY <1>3, <1>4, OneMore
<1>8. /\ Cardinality(missed) \in Nat /\ Cardinality(missed2) \in Nat
      /\ Cardinality(again) \in Nat
      /\ Cardinality(due) \in Nat /\ Cardinality(due2) \in Nat
  BY <1>4, RowsFinite
<1>9. /\ Cardinality(missed2) <= left
      /\ Cardinality(again) + Cardinality(due2) <= entered + 1
  BY <1>5, <1>6, <1>7, <1>8
<1>. QED
  BY <1>9 DEF Accounted, missed2, again, due2

\* A row that leaves moves others one place forward at most, so that one of them
\* comes from ahead of the walk to be behind it.
LEMMA DepartureAccounted ==
    ASSUME NEW stable \in SUBSET Jobs, NEW stable2 \in SUBSET stable,
           NEW place \in [stable -> Int], NEW place2 \in [stable2 -> Int],
           NEW seen \in [Jobs -> Nat],
           NEW offset \in Nat, NEW entered \in Nat, NEW left \in Nat,
           \A j, k \in stable : place[j] = place[k] => j = k,
           \A j \in stable2 : place2[j] = place[j] \/ place2[j] = place[j] - 1,
           Accounted(stable, seen, place, offset, entered, left)
    PROVE  Accounted(stable2, seen, place2, offset, entered, left + 1)
<1> DEFINE missed  == Missed(stable, seen, place, offset)
           again   == Again(stable, seen)
           due     == Due(stable, seen, place, offset)
           missed2 == Missed(stable2, seen, place2, offset)
           again2  == Again(stable2, seen)
           due2    == Due(stable2, seen, place2, offset)
<1>1. /\ \A j \in stable : place[j] \in Int /\ seen[j] \in Nat /\ j \in Jobs
      /\ \A j \in stable2 : place2[j] \in Int /\ j \in stable
  OBVIOUS
<1>2. due2 \subseteq due /\ again2 \subseteq again
  BY <1>1 DEF Due, Again
<1>3. PICK extra : \A j \in missed2 : j \in missed \/ j = extra
  <2>1. CASE \E j \in stable : place[j] = offset
    <3>1. PICK j \in stable : place[j] = offset
      BY <2>1
    <3>2. \A k \in missed2 : k \in missed \/ k = j
      BY <1>1, <3>1 DEF Missed
    <3>3. QED
      BY <3>2
  <2>2. CASE ~\E j \in stable : place[j] = offset
    BY <1>1, <2>2 DEF Missed
  <2>3. QED
    BY <2>1, <2>2
<1>4. /\ missed \in SUBSET Jobs /\ missed2 \in SUBSET Jobs
      /\ again \in SUBSET Jobs /\ again2 \in SUBSET Jobs
      /\ due \in SUBSET Jobs /\ due2 \in SUBSET Jobs
  BY DEF Missed, Again, Due
<1>5. /\ Cardinality(missed) <= left
      /\ Cardinality(again) + Cardinality(due) <= entered
  BY DEF Accounted
<1>. HIDE DEF missed, again, due, missed2, again2, due2
<1>6. Cardinality(missed2) <= Cardinality(missed) + 1
  BY <1>3, <1>4, OneMore
<1>7. Cardinality(due2) <= Cardinality(due) /\ Cardinality(again2) <= Cardinality(again)
  BY <1>2, <1>4, NoMore
<1>8. /\ Cardinality(missed) \in Nat /\ Cardinality(missed2) \in Nat
      /\ Cardinality(again) \in Nat /\ Cardinality(again2) \in Nat
      /\ Cardinality(due) \in Nat /\ Cardinality(due2) \in Nat
  BY <1>4, RowsFinite
<1>9. /\ Cardinality(missed2) <= left + 1
      /\ Cardinality(again2) + Cardinality(due2) <= entered
  BY <1>5, <1>6, <1>7, <1>8
<1>. QED
  BY <1>9 DEF Accounted, missed2, again2, due2

-----------------------------------------------------------------------------
(* Places, as rows enter and leave.                                        *)

\* Places do not change while the table does not.
LEMMA PlacesKept ==
    ASSUME TableOK, jobType' = jobType, NEW rows, NEW tie, NEW k \in rows,
           \A j \in rows : table'[j] = table[j]
    PROVE  Place(rows, k, tie)' = Place(rows, k, tie)
<1>1. \A j \in rows : Before(j, k, tie)' <=> Before(j, k, tie)
  BY DEF Before
<1>2. Earlier(rows, k, tie)' = Earlier(rows, k, tie)
  BY <1>1 DEF Earlier
<1>. QED
  BY <1>2 DEF Place

\* A row that enters moves another one place back, or does not move it.
LEMMA PlacesAtEntry ==
    ASSUME TableOK, jobType' = jobType, NEW rows, HasRows(rows), NEW tie,
           NEW k \in rows, NEW j, j \notin rows,
           \A l \in rows : table'[l] = table[l]
    PROVE  \/ Place(rows \cup {j}, k, tie)' = Place(rows, k, tie)
           \/ Place(rows \cup {j}, k, tie)' = Place(rows, k, tie) + 1
<1> DEFINE before == Earlier(rows, k, tie)
<1>1. \A l \in rows : Before(l, k, tie)' <=> Before(l, k, tie)
  BY DEF Before
<1>2. \/ Earlier(rows \cup {j}, k, tie)' = before
      \/ Earlier(rows \cup {j}, k, tie)' = before \cup {j}
  BY <1>1 DEF Earlier
<1>3. IsFiniteSet(before) /\ j \notin before
  BY RowsFinite DEF HasRows, Earlier
<1>4. Cardinality(before \cup {j}) = Cardinality(before) + 1
  BY <1>3, FS_AddElement
<1>. QED
  BY <1>2, <1>4 DEF Place

\* A row that leaves moves another one place forward, or does not move it.
LEMMA PlacesAtDeparture ==
    ASSUME TableOK, jobType' = jobType, NEW rows, HasRows(rows), NEW tie,
           NEW j, NEW k \in rows \ {j},
           \A l \in rows \ {j} : table'[l] = table[l]
    PROVE  \/ Place(rows \ {j}, k, tie)' = Place(rows, k, tie)
           \/ Place(rows \ {j}, k, tie)' = Place(rows, k, tie) - 1
<1> DEFINE before == Earlier(rows, k, tie)
<1>1. \A l \in rows \ {j} : Before(l, k, tie)' <=> Before(l, k, tie)
  BY DEF Before
<1>2. Earlier(rows \ {j}, k, tie)' = before \ {j}
  BY <1>1 DEF Earlier
<1>3. IsFiniteSet(before)
  BY RowsFinite DEF HasRows, Earlier
<1>4. \/ Cardinality(before \ {j}) = Cardinality(before)
      \/ Cardinality(before \ {j}) = Cardinality(before) - 1
  BY <1>3, FS_RemoveElement
<1>. QED
  BY <1>2, <1>4 DEF Place

-----------------------------------------------------------------------------
(* The invariant of a walk.                                                *)

WalkTyped ==
    walk \in [pc : {"idle", "reading", "done"}, request : AnyRequest \cup {None},
              seen : [Jobs -> 0 .. Cardinality(Jobs)], stable : SUBSET Jobs,
              entered : Nat, left : Nat]

\* While a walk goes on, its offset is that of a page there can be, and no row
\* was shown on more pages than the offset has passed.
WalkBounded ==
    /\ walk.entered + walk.left <= MaxMoves
    /\ walk.stable \subseteq { j \in Jobs : Present(j) }
    /\ walk.pc # "idle" =>
          /\ walk.request \in AnyRequest
          /\ walk.request.offset \in 0 .. Cardinality(Jobs) + MaxLimit
          /\ Accepted(walk.request)
          /\ walk.stable \subseteq Rows(walk.request)
    /\ walk.pc = "reading" =>
          /\ walk.request.offset = 0 \/ walk.request.offset < Cardinality(Jobs)
          /\ \A j \in Jobs : walk.seen[j] <= walk.request.offset

\* Rows of the same time keep their order between two pages.
Steady == adapter # "legacy" \/ jobType = "processed"

WalkAccounted ==
    Steady =>
        /\ walk.pc = "reading" =>
              Accounted(walk.stable, walk.seen,
                        Places(walk.stable, Rows(walk.request)),
                        walk.request.offset, walk.entered, walk.left)
        /\ WalkFollowsMoves

WalkInv == TableOK /\ WalkTyped /\ WalkBounded /\ WalkAccounted

\* What the runs check follows.
LEMMA WalkInvImplies == WalkInv => TypeOK /\ WalkFollowsMoves
<1>. SUFFICES ASSUME WalkInv PROVE TypeOK /\ WalkFollowsMoves
  OBVIOUS
<1>1. WalkFollowsMoves
  BY DEF WalkInv, WalkAccounted, Steady, WalkFollowsMoves
<1>2. /\ walk.pc \in {"idle", "reading", "done"}
      /\ walk.entered \in Nat /\ walk.left \in Nat
      /\ walk.seen \in [Jobs -> 0 .. Cardinality(Jobs)]
  BY DEF WalkInv, WalkTyped
<1>3. walk.entered + walk.left \in 0 .. MaxMoves
  BY <1>2, MovesAssumption DEF WalkInv, WalkBounded
<1>. QED
  BY <1>1, <1>2, <1>3 DEF WalkInv, TableOK, WalkBounded, TypeOK

\* No walk has begun.
LEMMA WalkInvInit == Init => WalkInv
<1>. SUFFICES ASSUME Init PROVE WalkInv
  OBVIOUS
<1>1. TableOK
  BY DEF Init, TableOK
<1>2. 0 \in 0 .. Cardinality(Jobs)
  BY RowsFinite
<1>3. WalkTyped
  BY <1>2 DEF Init, NoWalk, WalkTyped
<1>4. WalkBounded
  BY MovesAssumption DEF Init, NoWalk, WalkBounded
<1>5. WalkAccounted
  BY DEF Init, NoWalk, WalkAccounted, WalkFollowsMoves
<1>. QED
  BY <1>1, <1>3, <1>4, <1>5 DEF WalkInv

\* What a request is about does not change.
LEMMA AskedKept ==
    ASSUME adapter' = adapter, jobType' = jobType
    PROVE  \A request : /\ Served(request)' = Served(request)
                        /\ Accepted(request)' <=> Accepted(request)
BY DEF Served, WithDefaultQueue, Accepted

\* The places the next state has.
LEMMA PlacesNext ==
    ASSUME NEW stable2, walk'.stable = stable2,
           NEW rows2, Rows(walk.request)' = rows2
    PROVE  Places(walk.stable, Rows(walk.request))'
              = [j \in stable2 |-> Place(rows2, j, ById)']
BY DEF Places, Place, Earlier

\* A walk begins at the first row, and nothing is missed or due.
LEMMA BeginKeepsInv ==
    ASSUME WalkInv, NEW request \in Request, BeginWalk(request)
    PROVE  WalkInv'
<1>1. request \in AnyRequest /\ Orderly(ById) /\ TableOK /\ request.offset = 0
  <2>1. Cardinality(Jobs) \in Nat
    BY RowsFinite
  <2>2. QED
    BY <2>1, TiesOrderly DEF Request, AnyRequest, WalkInv, BeginWalk
<1>2. Accepted(request)
  <2>1. ListJobs(request, ById).status = 200 /\ BadRequest.status # 200
    BY DEF BeginWalk, BadRequest
  <2>2. QED
    BY <1>1, <2>1, Answered
<1>3. adapter' = adapter /\ jobType' = jobType /\ table' = table
  BY DEF BeginWalk
<1>4. PICK rows : rows = Rows(request) /\ HasRows(rows) /\ rows \subseteq Jobs
  BY RowsAsked
<1>5. /\ walk' = [pc |-> "reading", request |-> request,
                  seen |-> [j \in Jobs |-> 0], stable |-> rows,
                  entered |-> 0, left |-> 0]
      /\ walk'.pc = "reading" /\ walk'.request = request
      /\ walk'.seen = [j \in Jobs |-> 0] /\ walk'.stable = rows
      /\ walk'.entered = 0 /\ walk'.left = 0
  BY <1>4 DEF BeginWalk, NoWalk, Rows
<1>6. Rows(walk.request)' = rows /\ Accepted(walk.request)'
  BY <1>2, <1>3, <1>4, <1>5, AskedKept DEF Rows, Present, Accepted
<1>7. TableOK'
  BY <1>1, <1>3 DEF TableOK
<1>8. WalkTyped'
  <2>1. 0 \in 0 .. Cardinality(Jobs)
    BY RowsFinite
  <2>2. QED
    BY <1>1, <1>4, <1>5, <2>1 DEF WalkTyped
<1>9. WalkBounded'
  <2>1. Cardinality(Jobs) \in Nat
    BY RowsFinite
  <2>2. walk'.request.offset \in 0 .. Cardinality(Jobs) + MaxLimit
    BY <1>1, <1>5, <2>1, LimitAssumption
  <2>3. rows \subseteq { j \in Jobs : Present(j)' }
    BY <1>3, <1>4 DEF HasRows, Present
  <2>4. QED
    BY <1>1, <1>5, <1>6, <2>2, <2>3, MovesAssumption DEF WalkBounded
<1>10. WalkAccounted'
  <2>1. PICK place : place = [j \in rows |-> Place(rows, j, ById)']
    OBVIOUS
  <2>2. Places(walk.stable, Rows(walk.request))' = place
    BY <1>5, <1>6, <2>1, PlacesNext
  <2>3. \A j \in rows : place[j] \in Nat
    <3>1. \A j \in rows : Place(rows, j, ById)' = Place(rows, j, ById)
      BY <1>1, <1>3, PlacesKept
    <3>2. \A j \in rows : Place(rows, j, ById) \in 0 .. Cardinality(rows) - 1
      BY <1>1, <1>4, PlacesFollowOrder
    <3>3. QED
      BY <1>4, <2>1, <3>1, <3>2, RowsFinite
  <2>4. Accounted(rows, [j \in Jobs |-> 0], place, 0, 0, 0)
    <3>1. /\ Missed(rows, [j \in Jobs |-> 0], place, 0) = {}
          /\ Again(rows, [j \in Jobs |-> 0]) = {}
          /\ Due(rows, [j \in Jobs |-> 0], place, 0) = {}
      BY <1>4, <2>3 DEF Missed, Again, Due
    <3>2. QED
      BY <3>1, FS_EmptySet DEF Accounted
  <2>5. QED
    BY <1>1, <1>5, <2>2, <2>4 DEF WalkAccounted, WalkFollowsMoves
<1>. QED
  BY <1>7, <1>8, <1>9, <1>10 DEF WalkInv

\* A row that enters may make one row due.
LEMMA EnterKeepsInv ==
    ASSUME WalkInv, NEW j \in Jobs, NEW t \in Times, Enter(j, t)
    PROVE  WalkInv'
<1>1. /\ adapter' = adapter /\ jobType' = jobType
      /\ table' = [table EXCEPT ![j] = t] /\ ~Present(j)
      /\ walk.pc = "reading" /\ walk.entered + walk.left < MaxMoves
  BY DEF Enter, Moves
<1>2. TableOK /\ TableOK'
  BY <1>1 DEF WalkInv, TableOK
<1>3. /\ Present(j)'
      /\ \A k \in Jobs \ {j} : table'[k] = table[k] /\ (Present(k)' <=> Present(k))
  BY <1>1, <1>2, TimeAssumption, NoneAssumption DEF TableOK, Present
<1>4. PICK request, rows, stable, seen, offset :
         /\ request \in AnyRequest
         /\ request = walk.request /\ offset = request.offset /\ offset \in Nat
         /\ rows = Rows(request) /\ HasRows(rows) /\ rows \subseteq Jobs
         /\ stable = walk.stable /\ stable \subseteq rows
         /\ seen = walk.seen /\ seen \in [Jobs -> Nat]
  <2>1. /\ walk.request \in AnyRequest /\ walk.stable \subseteq Rows(walk.request)
        /\ walk.request.offset \in 0 .. Cardinality(Jobs) + MaxLimit
        /\ walk.seen \in [Jobs -> 0 .. Cardinality(Jobs)]
    BY <1>1 DEF WalkInv, WalkBounded, WalkTyped
  <2>2. walk.request.offset \in Nat /\ walk.seen \in [Jobs -> Nat]
    BY <2>1
  <2>3. HasRows(Rows(walk.request)) /\ Rows(walk.request) \subseteq Jobs
    BY RowsAsked
  <2>4. QED
    BY <2>1, <2>2, <2>3
<1>5. PICK entered, left : /\ entered = walk.entered /\ left = walk.left
                           /\ entered \in Nat /\ left \in Nat
                           /\ entered + left < MaxMoves
  BY <1>1 DEF WalkInv, WalkTyped
<1>6. j \notin rows /\ j \notin stable
  BY <1>1, <1>4 DEF HasRows
<1>7. PICK entered2 :
         /\ entered2 = walk'.entered
         /\ entered2 = IF j \in Served(request) THEN entered + 1 ELSE entered
         /\ walk' \in [pc : {"idle", "reading", "done"},
                       request : AnyRequest \cup {None},
                       seen : [Jobs -> 0 .. Cardinality(Jobs)],
                       stable : SUBSET Jobs, entered : Nat, left : Nat]
         /\ walk'.pc = "reading" /\ walk'.request = request
         /\ walk'.seen = seen /\ walk'.stable = stable /\ walk'.left = left
  BY <1>1, <1>4, <1>5 DEF Enter, WalkInv, WalkTyped
<1>8. Rows(walk.request)' = IF j \in Served(request) THEN rows \cup {j} ELSE rows
  <2>1. Rows(walk.request)' = { k \in Served(request) : Present(k)' }
    BY <1>1, <1>7, AskedKept DEF Rows, Served, WithDefaultQueue
  <2>2. Served(request) \subseteq Jobs
    BY DEF Served
  <2>3. QED
    BY <1>1, <1>3, <1>4, <2>1, <2>2 DEF Rows
<1>9. WalkTyped'
  BY <1>7 DEF WalkTyped
<1>10. WalkBounded'
  <2>1. walk'.entered + walk'.left <= MaxMoves
    BY <1>5, <1>7, MovesAssumption
  <2>2. stable \subseteq { k \in Jobs : Present(k)' }
    BY <1>3, <1>4, <1>6 DEF HasRows
  <2>3. Accepted(walk.request)'
    BY <1>1, <1>4, <1>7 DEF WalkInv, WalkBounded, Accepted
  <2>4. stable \subseteq Rows(walk.request)'
    BY <1>4, <1>8
  <2>5. QED
    BY <1>1, <1>4, <1>7, <2>1, <2>2, <2>3, <2>4 DEF WalkInv, WalkBounded
<1>11. WalkAccounted'
  <2>. SUFFICES ASSUME Steady
                PROVE  Accounted(walk.stable, walk.seen,
                                 Places(walk.stable, Rows(walk.request)),
                                 walk.request.offset, walk.entered, walk.left)'
    BY <1>1, <1>7 DEF WalkAccounted, WalkFollowsMoves, Steady
  <2>1. PICK place, place2, rows2 :
           /\ place = Places(stable, rows)
           /\ rows2 = Rows(walk.request)'
           /\ place2 = [k \in stable |-> Place(rows2, k, ById)']
    OBVIOUS
  <2>2. Accounted(stable, seen, place, offset, entered, left)
    BY <1>1, <1>4, <1>5, <2>1 DEF WalkInv, WalkAccounted
  <2>3. Orderly(ById)
    BY TiesOrderly
  <2>4. \A k \in stable : Place(rows, k, ById) \in 0 .. Cardinality(rows) - 1
    BY <1>2, <1>4, <2>3, PlacesFollowOrder
  <2>5. place \in [stable -> Int] /\ \A k \in stable : place[k] = Place(rows, k, ById)
    BY <1>4, <2>1, <2>4, RowsFinite DEF Places
  <2>6. \A k, l \in stable : place[k] = place[l] => k = l
    BY <1>2, <1>4, <2>3, <2>5, PlacesFollowOrder
  <2>7. \A k \in rows : table'[k] = table[k]
    BY <1>3, <1>4, <1>6
  <2>8. Places(walk.stable, Rows(walk.request))' = place2
    BY <1>7, <2>1, PlacesNext
  <2>9. CASE j \in Served(request)
    <3>1. \A k \in stable : place2[k] = place[k] \/ place2[k] = place[k] + 1
      BY <1>1, <1>2, <1>4, <1>6, <1>8, <2>1, <2>5, <2>7, <2>9, PlacesAtEntry
    <3>2. place2 \in [stable -> Int]
      BY <2>1, <2>5, <3>1
    <3>3. Accounted(stable, seen, place2, offset, entered + 1, left)
      BY <1>4, <1>5, <2>2, <2>5, <2>6, <3>1, <3>2, EntryAccounted
    <3>4. QED
      BY <1>4, <1>7, <2>8, <2>9, <3>3 DEF Accounted
  <2>10. CASE j \notin Served(request)
    <3>1. \A k \in stable : place2[k] = place[k]
      BY <1>1, <1>2, <1>4, <1>8, <2>1, <2>5, <2>7, <2>10, PlacesKept
    <3>2. place2 = place
      BY <2>1, <3>1 DEF Places
    <3>3. QED
      BY <1>4, <1>7, <2>2, <2>8, <2>10, <3>2 DEF Accounted
  <2>11. QED
    BY <2>9, <2>10
<1>. QED
  BY <1>2, <1>9, <1>10, <1>11 DEF WalkInv

\* A row that leaves may make one row missed.
LEMMA DepartKeepsInv ==
    ASSUME WalkInv, NEW j \in Jobs, Depart(j)
    PROVE  WalkInv'
<1>1. /\ adapter' = adapter /\ jobType' = jobType
      /\ table' = [table EXCEPT ![j] = None] /\ Present(j)
      /\ walk.pc = "reading" /\ walk.entered + walk.left < MaxMoves
  BY DEF Depart, Moves
<1>2. TableOK /\ TableOK'
  BY <1>1 DEF WalkInv, TableOK
<1>3. /\ ~Present(j)'
      /\ \A k \in Jobs \ {j} : table'[k] = table[k] /\ (Present(k)' <=> Present(k))
  BY <1>1, <1>2 DEF TableOK, Present
<1>4. PICK request, rows, stable, seen, offset :
         /\ request \in AnyRequest
         /\ request = walk.request /\ offset = request.offset /\ offset \in Nat
         /\ rows = Rows(request) /\ HasRows(rows) /\ rows \subseteq Jobs
         /\ stable = walk.stable /\ stable \subseteq rows
         /\ seen = walk.seen /\ seen \in [Jobs -> Nat]
  <2>1. /\ walk.request \in AnyRequest /\ walk.stable \subseteq Rows(walk.request)
        /\ walk.request.offset \in 0 .. Cardinality(Jobs) + MaxLimit
        /\ walk.seen \in [Jobs -> 0 .. Cardinality(Jobs)]
    BY <1>1 DEF WalkInv, WalkBounded, WalkTyped
  <2>2. walk.request.offset \in Nat /\ walk.seen \in [Jobs -> Nat]
    BY <2>1
  <2>3. HasRows(Rows(walk.request)) /\ Rows(walk.request) \subseteq Jobs
    BY RowsAsked
  <2>4. QED
    BY <2>1, <2>2, <2>3
<1>5. PICK entered, left : /\ entered = walk.entered /\ left = walk.left
                           /\ entered \in Nat /\ left \in Nat
                           /\ entered + left < MaxMoves
  BY <1>1 DEF WalkInv, WalkTyped
<1>6. PICK left2, stable2 :
         /\ left2 = walk'.left /\ stable2 = walk'.stable
         /\ left2 = IF j \in Served(request) THEN left + 1 ELSE left
         /\ stable2 = IF j \in Served(request) THEN stable \ {j} ELSE stable
         /\ walk' \in [pc : {"idle", "reading", "done"},
                       request : AnyRequest \cup {None},
                       seen : [Jobs -> 0 .. Cardinality(Jobs)],
                       stable : SUBSET Jobs, entered : Nat, left : Nat]
         /\ walk'.pc = "reading" /\ walk'.request = request
         /\ walk'.seen = seen /\ walk'.entered = entered
  <2>1. WalkTyped
    BY DEF WalkInv
  <2>2. CASE j \in Served(request)
    <3>1. walk' = [walk EXCEPT !.left = left + 1, !.stable = stable \ {j}]
      BY <1>4, <1>5, <2>2 DEF Depart
    <3>2. /\ walk'.left = left + 1 /\ walk'.stable = stable \ {j}
          /\ walk'.pc = "reading" /\ walk'.request = request
          /\ walk'.seen = seen /\ walk'.entered = entered
      BY <1>1, <1>4, <1>5, <2>1, <3>1 DEF WalkTyped
    <3>3. walk' \in [pc : {"idle", "reading", "done"},
                     request : AnyRequest \cup {None},
                     seen : [Jobs -> 0 .. Cardinality(Jobs)],
                     stable : SUBSET Jobs, entered : Nat, left : Nat]
      <4>1. left + 1 \in Nat /\ stable \ {j} \in SUBSET Jobs
        BY <1>4, <1>5
      <4>2. QED
        BY <2>1, <3>1, <4>1 DEF WalkTyped
    <3>4. QED
      BY <2>2, <3>2, <3>3
  <2>3. CASE j \notin Served(request)
    <3>1. walk' = walk
      BY <1>4, <2>3 DEF Depart
    <3>2. QED
      BY <1>1, <1>4, <1>5, <2>1, <2>3, <3>1 DEF WalkTyped
  <2>4. QED
    BY <2>2, <2>3
<1>7. Rows(walk.request)' = rows \ {j}
  <2>1. Rows(walk.request)' = { k \in Served(request) : Present(k)' }
    BY <1>1, <1>6, AskedKept DEF Rows, Served, WithDefaultQueue
  <2>2. Served(request) \subseteq Jobs
    BY DEF Served
  <2>3. QED
    BY <1>1, <1>3, <1>4, <2>1, <2>2 DEF Rows
<1>8. j \in rows <=> j \in Served(request)
  BY <1>1, <1>4 DEF Rows
<1>9. stable2 \subseteq rows \ {j} /\ stable2 \subseteq stable
  BY <1>4, <1>6, <1>8
<1>10. WalkTyped'
  BY <1>6 DEF WalkTyped
<1>11. WalkBounded'
  <2>1. walk'.entered + walk'.left <= MaxMoves
    BY <1>5, <1>6, MovesAssumption
  <2>2. stable2 \subseteq { k \in Jobs : Present(k)' }
    BY <1>3, <1>4, <1>9 DEF HasRows
  <2>3. Accepted(walk.request)'
    BY <1>1, <1>4, <1>6 DEF WalkInv, WalkBounded, Accepted
  <2>4. QED
    BY <1>1, <1>4, <1>6, <1>7, <1>9, <2>1, <2>2, <2>3 DEF WalkInv, WalkBounded
<1>12. WalkAccounted'
  <2>. SUFFICES ASSUME Steady
                PROVE  Accounted(walk.stable, walk.seen,
                                 Places(walk.stable, Rows(walk.request)),
                                 walk.request.offset, walk.entered, walk.left)'
    BY <1>1, <1>6 DEF WalkAccounted, WalkFollowsMoves, Steady
  <2>1. PICK place, place2, rows2 :
           /\ place = Places(stable, rows)
           /\ rows2 = Rows(walk.request)'
           /\ place2 = [k \in stable2 |-> Place(rows2, k, ById)']
    OBVIOUS
  <2>2. Accounted(stable, seen, place, offset, entered, left)
    BY <1>1, <1>4, <1>5, <2>1 DEF WalkInv, WalkAccounted
  <2>3. Orderly(ById)
    BY TiesOrderly
  <2>4. \A k \in stable : Place(rows, k, ById) \in 0 .. Cardinality(rows) - 1
    BY <1>2, <1>4, <2>3, PlacesFollowOrder
  <2>5. place \in [stable -> Int] /\ \A k \in stable : place[k] = Place(rows, k, ById)
    BY <1>4, <2>1, <2>4, RowsFinite DEF Places
  <2>6. \A k, l \in stable : place[k] = place[l] => k = l
    BY <1>2, <1>4, <2>3, <2>5, PlacesFollowOrder
  <2>7. Places(walk.stable, Rows(walk.request))' = place2
    <3>1. walk'.stable = stable2
      BY <1>6
    <3>2. Rows(walk.request)' = rows2
      BY <2>1
    <3>3. Places(walk.stable, Rows(walk.request))'
             = [k \in stable2 |-> Place(rows2, k, ById)']
      BY <3>1, <3>2, PlacesNext
    <3>4. QED
      BY <2>1, <3>3
  <2>8. CASE j \in Served(request)
    <3>1. \A k \in rows \ {j} : table'[k] = table[k]
      BY <1>3, <1>4
    <3>2. \A k \in stable2 : place2[k] = place[k] \/ place2[k] = place[k] - 1
      <4>. SUFFICES ASSUME NEW k \in stable2
                    PROVE  place2[k] = place[k] \/ place2[k] = place[k] - 1
        OBVIOUS
      <4>1. k \in rows \ {j} /\ k \in stable
        BY <1>9
      <4>2. \/ Place(rows \ {j}, k, ById)' = Place(rows, k, ById)
            \/ Place(rows \ {j}, k, ById)' = Place(rows, k, ById) - 1
        BY <1>1, <1>2, <1>4, <3>1, <4>1, PlacesAtDeparture
      <4>3. place2[k] = Place(rows \ {j}, k, ById)'
        BY <1>7, <2>1
      <4>4. QED
        BY <2>5, <4>1, <4>2, <4>3
    <3>3. place2 \in [stable2 -> Int]
      BY <1>9, <2>1, <2>5, <3>2
    <3>4. Accounted(stable2, seen, place2, offset, entered, left + 1)
      BY <1>4, <1>5, <1>9, <2>2, <2>5, <2>6, <3>2, <3>3, DepartureAccounted
    <3>5. QED
      BY <1>4, <1>6, <2>7, <2>8, <3>4 DEF Accounted
  <2>9. CASE j \notin Served(request)
    <3>1. rows2 = rows /\ stable2 = stable
      BY <1>6, <1>7, <1>8, <2>1, <2>9
    <3>2. \A k \in rows : table'[k] = table[k]
      BY <1>3, <1>4, <1>8, <2>9
    <3>3. \A k \in stable : place2[k] = place[k]
      BY <1>1, <1>2, <1>4, <2>1, <2>5, <3>1, <3>2, PlacesKept
    <3>4. place2 = place
      BY <2>1, <3>1, <3>3 DEF Places
    <3>5. QED
      BY <1>4, <1>6, <2>2, <2>7, <2>9, <3>1, <3>4 DEF Accounted
  <2>10. QED
    BY <2>8, <2>9
<1>. QED
  BY <1>2, <1>10, <1>11, <1>12 DEF WalkInv

\* A page moves the walk on.
LEMMA ReadKeepsInv ==
    ASSUME WalkInv, ReadPage
    PROVE  WalkInv'
<1>1. /\ adapter' = adapter /\ jobType' = jobType /\ table' = table
      /\ walk.pc = "reading" /\ TableOK
  BY DEF ReadPage, WalkInv
<1>2. TableOK'
  BY <1>1 DEF TableOK
<1>3. PICK request, rows, stable, seen, offset, limit, jobs :
         /\ request \in AnyRequest
         /\ request = walk.request /\ offset = request.offset /\ offset \in Nat
         /\ rows = Rows(request) /\ HasRows(rows) /\ rows \subseteq Jobs
         /\ stable = walk.stable /\ stable \subseteq rows
         /\ seen = walk.seen /\ seen \in [Jobs -> 0 .. Cardinality(Jobs)]
         /\ \A j \in Jobs : seen[j] <= offset
         /\ limit = ParsedLimit(request.limit) /\ limit \in 1 .. MaxLimit
         /\ jobs = Cardinality(Jobs) /\ jobs \in Nat
         /\ offset = 0 \/ offset < jobs
         /\ Accepted(request)
  <2>1. /\ walk.request \in AnyRequest /\ walk.stable \subseteq Rows(walk.request)
        /\ walk.request.offset \in 0 .. Cardinality(Jobs) + MaxLimit
        /\ walk.request.offset = 0 \/ walk.request.offset < Cardinality(Jobs)
        /\ \A j \in Jobs : walk.seen[j] <= walk.request.offset
        /\ walk.seen \in [Jobs -> 0 .. Cardinality(Jobs)]
        /\ Accepted(walk.request)
    BY <1>1 DEF WalkInv, WalkBounded, WalkTyped
  <2>2. walk.request.offset \in Nat
    BY <2>1
  <2>3. HasRows(Rows(walk.request)) /\ Rows(walk.request) \subseteq Jobs
    BY RowsAsked
  <2>4. ParsedLimit(walk.request.limit) \in 1 .. MaxLimit
    BY <2>1, ParsedNumbers DEF Accepted
  <2>5. Cardinality(Jobs) \in Nat
    BY RowsFinite
  <2>6. QED
    BY <2>1, <2>2, <2>3, <2>4, <2>5
<1>4. PICK tie \in Ties :
         LET answer == ListJobs(walk.request, tie)
             shown  == { answer.jobs[i] : i \in DOMAIN answer.jobs }
         IN walk' = [walk EXCEPT
                       !.pc = IF answer.hasMore THEN "reading" ELSE "done",
                       !.request.offset =
                           @ + ParsedLimit(walk.request.limit),
                       !.seen = [j \in Jobs |->
                                   IF j \in shown THEN @[j] + 1 ELSE @[j]]]
  BY DEF ReadPage
<1>5. limit \in Nat /\ 1 <= limit /\ limit <= MaxLimit /\ Orderly(tie)
  BY <1>3, TiesOrderly, LimitAssumption
<1>6. PICK answer, shown, request2, seen2 :
         /\ answer = ListJobs(request, tie)
         /\ shown = { answer.jobs[i] : i \in DOMAIN answer.jobs }
         /\ request2 = [request EXCEPT !.offset = offset + limit]
         /\ seen2 = [j \in Jobs |-> IF j \in shown THEN seen[j] + 1 ELSE seen[j]]
  OBVIOUS
<1>7. FitPage(answer, rows, tie, limit, offset)
  <2>1. ParsedOffset(request.offset) = offset
    BY <1>3, NoneAssumption DEF ParsedOffset
  <2>2. QED
    BY <1>1, <1>3, <1>5, <1>6, <2>1, PageFits
<1>8. WalkTyped
  BY DEF WalkInv
<1>9. /\ walk' = [walk EXCEPT !.pc = IF answer.hasMore THEN "reading" ELSE "done",
                              !.request = request2, !.seen = seen2]
      /\ walk'.pc = (IF answer.hasMore THEN "reading" ELSE "done")
      /\ walk'.request = request2 /\ walk'.seen = seen2
      /\ walk'.stable = stable
      /\ walk'.entered = walk.entered /\ walk'.left = walk.left
  <2>1. walk' = [walk EXCEPT !.pc = IF answer.hasMore THEN "reading" ELSE "done",
                             !.request = request2, !.seen = seen2]
    BY <1>3, <1>4, <1>6
  <2>2. QED
    BY <1>3, <1>8, <2>1 DEF WalkTyped
<1>10. /\ request2 \in AnyRequest /\ request2.offset = offset + limit
       /\ Accepted(request2) /\ Rows(request2) = rows
  <2>1. offset + limit \in Nat
    BY <1>3, <1>5
  <2>2. QED
    BY <1>3, <1>6, <2>1, OffsetAside DEF AnyRequest
<1>11. Accepted(walk.request)' /\ Rows(walk.request)' = rows
  BY <1>1, <1>9, <1>10, AskedKept DEF Rows, Present, Accepted
<1>12. \A j \in Jobs : /\ seen[j] \in Nat /\ seen[j] <= offset
                       /\ seen2[j] = IF j \in shown THEN seen[j] + 1 ELSE seen[j]
  BY <1>3, <1>6
<1>13. answer.hasMore => offset + limit < jobs
  <2>1. Cardinality(rows) \in Nat /\ Cardinality(rows) <= jobs
    BY <1>3, RowsFinite
  <2>2. answer.hasMore = (offset < Cardinality(rows)
                          /\ offset + limit < Cardinality(rows))
    BY <1>7 DEF FitPage
  <2>3. offset + limit < Cardinality(rows) => offset + limit < jobs
    BY <1>3, <1>5, <2>1
  <2>4. QED
    BY <2>2, <2>3, Zenon
<1>14. seen2 \in [Jobs -> 0 .. jobs] /\ seen2 \in [Jobs -> Nat]
       /\ \A j \in Jobs : seen2[j] <= offset + limit
  <2>1. ASSUME NEW j \in Jobs
        PROVE  seen2[j] \in Nat /\ seen2[j] <= jobs /\ seen2[j] <= offset + limit
    <3>1. 1 <= jobs
      <4>1. Jobs # {} /\ IsFiniteSet(Jobs)
        BY JobAssumption
      <4>2. jobs # 0
        BY <1>3, <4>1, FS_EmptySet
      <4>3. QED
        BY <1>3, <4>2
    <3>2. seen[j] + 1 <= jobs
      BY <1>3, <1>12, <3>1
    <3>3. QED
      BY <1>3, <1>5, <1>12, <3>2
  <2>2. seen2 = [j \in Jobs |-> seen2[j]]
    BY <1>6
  <2>3. QED
    BY <1>3, <2>1, <2>2
<1>15. WalkTyped'
  BY <1>3, <1>9, <1>10, <1>14 DEF WalkInv, WalkTyped
<1>16. WalkBounded'
  <2>1. walk'.request.offset \in 0 .. Cardinality(Jobs) + MaxLimit
    BY <1>3, <1>5, <1>9, <1>10, LimitAssumption
  <2>2. /\ walk'.entered + walk'.left <= MaxMoves
        /\ stable \subseteq { j \in Jobs : Present(j)' }
    BY <1>1, <1>3, <1>9 DEF WalkInv, WalkBounded, Present
  <2>3. walk'.pc = "reading" =>
           /\ walk'.request.offset < Cardinality(Jobs)
           /\ \A j \in Jobs : walk'.seen[j] <= walk'.request.offset
    BY <1>3, <1>9, <1>10, <1>13, <1>14
  <2>4. QED
    BY <1>3, <1>9, <1>10, <1>11, <2>1, <2>2, <2>3 DEF WalkBounded
<1>17. WalkAccounted'
  <2>. SUFFICES ASSUME Steady PROVE WalkAccounted'
    BY <1>1 DEF WalkAccounted, Steady
  <2>1. tie = ById
    BY DEF Ties, Steady
  <2>2. PICK place, entered, left :
           /\ place = Places(stable, rows)
           /\ entered = walk.entered /\ left = walk.left
           /\ entered \in Nat /\ left \in Nat
    BY DEF WalkInv, WalkTyped
  <2>3. /\ \A j \in rows : Place(rows, j, ById) \in 0 .. Cardinality(rows) - 1
        /\ Cardinality(rows) \in Nat
    BY <1>1, <1>3, <1>5, <2>1, PlacesFollowOrder, RowsFinite
  <2>4. place \in [stable -> Nat] /\ \A j \in stable : place[j] = Place(rows, j, ById)
    BY <1>3, <2>2, <2>3 DEF Places
  <2>5. \A j \in stable :
           seen2[j] = IF place[j] \in offset .. offset + limit - 1
                      THEN seen[j] + 1 ELSE seen[j]
    <3>1. \A j \in rows : j \in shown
                          <=> Place(rows, j, ById) \in offset .. offset + limit - 1
      BY <1>6, <1>7, <2>1 DEF FitPage, HasPlaces
    <3>2. QED
      BY <1>3, <1>12, <2>4, <3>1
  <2>6. Accounted(stable, seen, place, offset, entered, left)
    BY <1>1, <1>3, <2>2 DEF WalkInv, WalkAccounted
  <2>7. Accounted(stable, seen2, place, offset + limit, entered, left)
    <3>1. /\ stable \in SUBSET Jobs /\ seen \in [Jobs -> Nat]
          /\ offset \in Nat /\ limit \in Nat
      BY <1>3, <1>5
    <3>2. seen2 \in [Jobs -> Nat] /\ place \in [stable -> Nat]
      BY <1>14, <2>4
    <3>3. QED
      BY <2>2, <2>5, <2>6, <3>1, <3>2, PageAccounted
  <2>8. Places(walk.stable, Rows(walk.request))' = place
    <3>1. Places(walk.stable, Rows(walk.request))'
             = [j \in stable |-> Place(rows, j, ById)']
      BY <1>9, <1>11, PlacesNext
    <3>2. \A j \in stable : Place(rows, j, ById)' = Place(rows, j, ById)
      BY <1>1, <1>3, PlacesKept
    <3>3. QED
      BY <2>2, <3>1, <3>2 DEF Places
  <2>9. Accounted(walk.stable, walk.seen, Places(walk.stable, Rows(walk.request)),
                  walk.request.offset, walk.entered, walk.left)'
    BY <1>9, <1>10, <2>2, <2>7, <2>8 DEF Accounted
  <2>10. ASSUME walk'.pc = "done"
         PROVE  /\ Cardinality({ j \in stable : seen2[j] = 0 }) <= left
                /\ Cardinality({ j \in stable : seen2[j] > 1 }) <= entered
    <3>1. Cardinality(rows) <= offset + limit
      <4>1. ~answer.hasMore
        BY <1>9, <2>10
      <4>2. answer.hasMore = (offset < Cardinality(rows)
                              /\ offset + limit < Cardinality(rows))
        BY <1>7 DEF FitPage
      <4>3. ~(offset < Cardinality(rows) /\ offset + limit < Cardinality(rows))
        BY <4>1, <4>2, Zenon
      <4>4. QED
        BY <1>3, <1>5, <2>3, <4>3
    <3>2. \A j \in stable : place[j] < offset + limit
      BY <1>3, <1>5, <2>3, <2>4, <3>1
    <3>3. Missed(stable, seen2, place, offset + limit)
             = { j \in stable : seen2[j] = 0 }
      BY <3>2 DEF Missed
    <3>4. /\ Cardinality(Again(stable, seen2)) \in Nat
          /\ Cardinality(Due(stable, seen2, place, offset + limit)) \in Nat
      <4>1. /\ Again(stable, seen2) \subseteq Jobs
            /\ Due(stable, seen2, place, offset + limit) \subseteq Jobs
        BY <1>3 DEF Again, Due
      <4>2. QED
        BY <4>1, RowsFinite
    <3>5. /\ Cardinality(Missed(stable, seen2, place, offset + limit)) <= left
          /\ Cardinality(Again(stable, seen2)) <= entered
      BY <2>2, <2>7, <3>4 DEF Accounted
    <3>6. QED
      BY <3>3, <3>5 DEF Again
  <2>11. WalkFollowsMoves'
    BY <1>9, <2>2, <2>10 DEF WalkFollowsMoves
  <2>12. QED
    BY <2>9, <2>11 DEF WalkAccounted
<1>. QED
  BY <1>2, <1>15, <1>16, <1>17 DEF WalkInv

-----------------------------------------------------------------------------
(* The theorems.                                                           *)

\* The invariant of a walk holds always.
LEMMA WalkInvAlways == Spec => []WalkInv
<1>1. WalkInv /\ [Next]_vars => WalkInv'
  <2>. SUFFICES ASSUME WalkInv, [Next]_vars PROVE WalkInv'
    OBVIOUS
  <2>1. CASE \E j \in Jobs : Depart(j)
    BY <2>1, DepartKeepsInv
  <2>2. CASE \E j \in Jobs : \E t \in Times : Enter(j, t)
    BY <2>2, EnterKeepsInv
  <2>3. CASE \E request \in Request : BeginWalk(request)
    BY <2>3, BeginKeepsInv
  <2>4. CASE ReadPage
    BY <2>4, ReadKeepsInv
  <2>5. CASE UNCHANGED vars
    <3>1. adapter' = adapter /\ jobType' = jobType /\ table' = table /\ walk' = walk
      BY <2>5 DEF vars
    <3>2. TableOK' /\ WalkTyped'
      BY <3>1 DEF WalkInv, TableOK, WalkTyped
    <3>3. WalkBounded'
      BY <3>1 DEF WalkInv, WalkBounded, Present, Accepted, Rows, Served,
                  WithDefaultQueue
    <3>4. WalkAccounted'
      BY <3>1 DEF WalkInv, WalkAccounted, WalkFollowsMoves, Steady, Accounted,
                  Places, Place, Earlier, Before, Rows, Served, Present,
                  WithDefaultQueue
    <3>5. QED
      BY <3>2, <3>3, <3>4 DEF WalkInv
  <2>6. QED
    BY <2>1, <2>2, <2>3, <2>4, <2>5 DEF Next
<1>2. QED
  BY <1>1, WalkInvInit, PTL DEF Spec

\* Types, and that a walk ends: it asks for no page past the last job there can
\* be, in whatever order a legacy adapter's lists have the rows
\* (server.go listJobs, listLegacyJobs).
THEOREM ListingTypeCorrect == Spec => []TypeOK
BY WalkInvAlways, WalkInvImplies, PTL

\* A walk misses at most one of the rows that were there all the time for each row
\* that left, and repeats at most one for each that entered (memory.go ListJobs,
\* sql.go ListJobs).
THEOREM WalksFollowMoves == Spec => []WalkFollowsMoves
BY WalkInvAlways, WalkInvImplies, PTL

\* Pages of one table fit together, from every adapter and in every order of rows
\* of the same time.
THEOREM PagesAlwaysFit == Spec => []PagesFitTogether
<1>1. WalkInv => PagesFitTogether
  BY PagesFit DEF WalkInv
<1>2. QED
  BY <1>1, WalkInvAlways, PTL

\* The two adapters answer every query alike.
THEOREM AdaptersAlwaysAgree == Spec => []AdaptersAgree
<1>1. WalkInv => AdaptersAgree
  BY AnswersAlike DEF WalkInv
<1>2. QED
  BY <1>1, WalkInvAlways, PTL
=============================================================================
