----------------------------- MODULE Dashboard -----------------------------
(***************************************************************************)
(* The state of the dashboard page (static/index.js): one tab of jobs with *)
(* a filter and a page number, list requests whose answers come in any     *)
(* order, a refresh of counters and list, and the panel with one job's     *)
(* details from which a failed job is retried.                             *)
(*                                                                         *)
(* A step is one task of the browser's event loop: a click, a timer, or    *)
(* the arrival of an answer with everything that runs on it before the     *)
(* next task.  The panel is a bootstrap Offcanvas: hide() takes effect at  *)
(* once, its hidden event comes when the transition is over.               *)
(***************************************************************************)
EXTENDS Naturals, FiniteSets

CONSTANTS
    Jobs,       \* job IDs
    Tabs,       \* the job types shown, among them "failed" and "enqueued"
    Filters,    \* queue filters one can type in
    LastPage,   \* no tab has more pages than LastPage + 1
    Query,      \* the storage adapter can search (JobQueryAdapter)
    MaxLoads,   \* bound: list requests in flight, the refresh's not counted
    MaxHides,   \* bound: hidden events outstanding, counting an open panel
    None        \* no job, no tab, no filter, no list

ASSUME TabAssumption == {"failed", "enqueued"} \subseteq Tabs
ASSUME NoneOfThem    == None \notin Jobs \cup Tabs \cup Filters
ASSUME QueryIsBoolean == Query \in BOOLEAN
ASSUME BoundsAreNat  ==
    LastPage \in Nat /\ MaxLoads \in Nat /\ MaxHides \in Nat

VARIABLES
    booting,   \* capabilities have not been answered yet
    caps,      \* appState.capabilities: which of "query" and "retry"
    view,      \* jobType, queue and offset of appState
    list,      \* jobs, jobsLoaded, jobsLoading, hasMore; .of: what they list
    requests,  \* list requests in flight; .newest: requestID is the latest
    refresh,   \* refreshAll: its two promises, and refreshQueued
    status,    \* lastUpdatedAt and lastRefreshFailed
    details,   \* selectedJob and its type, the panel, the retry prompt's job
    retrying   \* retrySelectedJob: where it waits, and for which job

vars == <<booting, caps, view, list, requests, refresh, status, details,
          retrying>>

Filter == Filters \cup {None}
Views  == [tab : Tabs, filter : Filter, page : 0 .. LastPage]

NoList == [jobs |-> {}, loaded |-> FALSE, loading |-> FALSE, more |-> FALSE,
           of |-> None]
Calm   == [counts |-> "idle", jobs |-> "idle", queued |-> FALSE]
Closed == [job |-> None, tab |-> None, prompt |-> None, shown |-> FALSE,
           hides |-> 0]
AtRest == [pc |-> "idle", job |-> None]

Lists     == [jobs : SUBSET Jobs, loaded : BOOLEAN, loading : BOOLEAN,
              more : BOOLEAN, of : Views \cup {None}]
Requests  == [of : Views, by : {"load", "refresh"}, newest : BOOLEAN]
Refreshes == [counts : {"idle", "wait", "ok", "error"},
              jobs : {"idle", "wait", "ok", "error", "superseded"},
              queued : BOOLEAN]
Panels    == [job : Jobs \cup {None}, tab : Tabs \cup {None},
              prompt : Jobs \cup {None}, shown : BOOLEAN,
              hides : 0 .. MaxHides]
Retries   == [pc : {"idle", "posting", "capabilities", "refreshing"},
              job : Jobs \cup {None}]

TypeOK ==
    /\ booting \in BOOLEAN
    /\ caps \subseteq {"query", "retry"}
    /\ view \in Views
    /\ list \in Lists
    /\ requests \subseteq Requests
    /\ refresh \in Refreshes
    /\ status \in {"none", "updated", "failed"}
    /\ details \in Panels
    /\ retrying \in Retries

\* readUrlState: the URL may name any view.
Init ==
    /\ booting = TRUE
    /\ caps = {}
    /\ view \in Views
    /\ list = NoList
    /\ requests = {}
    /\ refresh = Calm
    /\ status = "none"
    /\ details = Closed
    /\ retrying = AtRest

-----------------------------------------------------------------------------
(* Views and requests. *)

FilterAllowed(tab, c) == "query" \in c \/ tab = "enqueued"

\* normalizeFiltersForCapabilities.
Normal(v, c) == IF v.filter = None \/ FilterAllowed(v.tab, c)
                THEN v
                ELSE [v EXCEPT !.filter = None, !.page = 0]

\* The parameters refreshJobs sends for a view.
Sent(v, c) == IF FilterAllowed(v.tab, c) THEN v
                                         ELSE [v EXCEPT !.filter = None]

\* refreshJobs up to its first await, given the requests in flight.
Issue(inFlight, by, v, c) ==
    { [r EXCEPT !.newest = FALSE] : r \in inFlight }
        \cup {[of |-> Sent(v, c), by |-> by, newest |-> TRUE]}

Reloading(l) == [l EXCEPT !.loading = TRUE, !.more = FALSE]

\* loadSelectedState and the end of selectJobType, for a view chosen by the
\* user: the list is emptied and asked for.
Load(v) ==
    /\ Cardinality({ r \in requests : r.by = "load" }) < MaxLoads
    /\ view' = v
    /\ list' = Reloading(NoList)
    /\ requests' = Issue(requests, "load", v, caps)
    /\ UNCHANGED <<booting, caps, refresh, status, retrying>>

Refreshing == refresh.counts # "idle"

\* refreshAll up to its first await.
RefreshAll(v, c) ==
    IF Refreshing
    THEN /\ refresh' = [refresh EXCEPT !.queued = TRUE]
         /\ UNCHANGED <<requests, list>>
    ELSE /\ refresh' = [refresh EXCEPT !.counts = "wait", !.jobs = "wait"]
         /\ requests' = Issue(requests, "refresh", v, c)
         /\ list' = Reloading(list)

-----------------------------------------------------------------------------
(* The details panel. *)

Hide(d) == IF d.shown THEN [d EXCEPT !.shown = FALSE, !.hides = @ + 1] ELSE d

Visible(d) == d.shown \/ d.hides > 0

Unprompted(d) == [d EXCEPT !.prompt = None]
Unselected(d) == [d EXCEPT !.job = None, !.tab = None]

\* closeOpenJobDetails.
CloseOpen(d) == CASE d.job = None -> d
                  [] d.job # None /\ Visible(d) -> Hide(d)
                  [] d.job # None /\ ~Visible(d) -> Unselected(d)

-----------------------------------------------------------------------------
(* The user chooses what to see. *)

SelectTab(t) ==
    /\ Load(Normal([view EXCEPT !.tab = t, !.page = 0], caps))
    /\ details' = IF t # view.tab THEN CloseOpen(details) ELSE details

\* The filter form, or its clear button.
ChangeFilter(f) ==
    /\ f = None \/ FilterAllowed(view.tab, caps)
    /\ Load([view EXCEPT !.filter = f, !.page = 0])
    /\ UNCHANGED details

PreviousPage ==
    /\ ~list.loading
    /\ view.page > 0
    /\ Load([view EXCEPT !.page = @ - 1])
    /\ UNCHANGED details

\* Mutant: the button does not wait for an answer that promises more.
NextPageAlways ==
    /\ Load([view EXCEPT !.page = @ + 1])
    /\ UNCHANGED details

NextPage ==
    /\ ~list.loading
    /\ list.more
    /\ Load([view EXCEPT !.page = @ + 1])
    /\ UNCHANGED details

\* Back and forward: readUrlState of some other view.
PopState(v) ==
    /\ Load(Normal(v, caps))
    /\ details' = IF v.tab # view.tab THEN CloseOpen(details) ELSE details

\* The button, the ten-second timer, or the page becoming visible.
Refresh ==
    /\ RefreshAll(view, caps)
    /\ UNCHANGED <<booting, caps, view, status, details, retrying>>

-----------------------------------------------------------------------------
(* Answers. *)

\* Mutant: an answer is taken for the newest one if the tab is the same.
SupersededByTab(r, answer) == answer = "ok" /\ r.of.tab # view.tab

\* A newer request was made since; an error does not look at the tab.
Superseded(r, answer) ==
    ~r.newest \/ (answer = "ok" /\ r.of.tab # view.tab)

\* Mutants: a queued refresh is forgotten; the button comes back only after
\* a refresh without error.
QueueDropped == FALSE
FinallyIfOK(counts, jobs) ==
    IF counts = "ok" /\ jobs = "ok" THEN AtRest ELSE retrying

\* refreshAll looks at refreshQueued when it is done.
QueueWaits == refresh.queued

\* The finally of a retrySelectedJob that awaited the refresh now done.
Finally(counts, jobs) ==
    IF retrying.pc = "refreshing" THEN AtRest ELSE retrying

\* The rest of refreshAll when both promises are settled, given the requests
\* and the list the last answer leaves.
Settle(counts, jobs, inFlight, l) ==
    IF "wait" \in {counts, jobs}
    THEN /\ refresh' = [refresh EXCEPT !.counts = counts, !.jobs = jobs]
         /\ requests' = inFlight
         /\ list' = l
         /\ UNCHANGED <<status, retrying>>
    ELSE /\ status' = CASE jobs = "superseded" -> status
                        [] counts = "ok" /\ jobs = "ok" -> "updated"
                        [] OTHER -> "failed"
         /\ retrying' = Finally(counts, jobs)
         /\ IF QueueWaits
            THEN /\ refresh' = [Calm EXCEPT !.counts = "wait", !.jobs = "wait"]
                 /\ requests' = Issue(inFlight, "refresh", view, caps)
                 /\ list' = Reloading(l)
            ELSE /\ refresh' = [refresh EXCEPT !.counts = "idle",
                                               !.jobs = "idle"]
                 /\ requests' = inFlight
                 /\ list' = l

\* Whoever asked for the list hears how it went.
Report(r, result, l) ==
    IF r.by = "refresh"
    THEN Settle(refresh.counts, result, requests \ {r}, l)
    ELSE /\ requests' = requests \ {r}
         /\ list' = l
         /\ status' = CASE result = "superseded" -> status
                        [] result = "ok" -> "updated"
                        [] result = "error" -> "failed"
         /\ UNCHANGED <<refresh, retrying>>

\* Mutant: a job that left the list stays in the panel.
SelectionKept(found) == details

\* The panel follows the list it was opened from.
Selection(found) ==
    IF details.job # None /\ details.tab = view.tab /\ details.job \notin found
    THEN CloseOpen(details)
    ELSE details

ListAnswered(r) ==
    /\ ~Superseded(r, "ok")
    /\ \E found \in SUBSET Jobs, more \in BOOLEAN :
          /\ more => r.of.page < LastPage
          /\ Report(r, "ok", [jobs |-> found, loaded |-> TRUE,
                              loading |-> FALSE, more |-> more, of |-> r.of])
          /\ details' = Selection(found)
    /\ UNCHANGED <<booting, caps, view>>

ListFailed(r) ==
    /\ ~Superseded(r, "error")
    /\ Report(r, "error", [list EXCEPT !.loading = FALSE, !.more = FALSE])
    /\ UNCHANGED <<booting, caps, view, details>>

ListSuperseded(r) ==
    /\ Superseded(r, "ok") \/ Superseded(r, "error")
    /\ Report(r, "superseded", list)
    /\ UNCHANGED <<booting, caps, view, details>>

\* The last of the five counters.
CountsAnswered ==
    /\ refresh.counts = "wait"
    /\ \E answer \in {"ok", "error"} :
          Settle(answer, refresh.jobs, requests, list)
    /\ UNCHANGED <<booting, caps, view, details>>

\* What refreshCapabilities sets: the server's answer, where web actions
\* are switched at run time, or nothing after an error.
CapabilityAnswers ==
    LET always == IF Query THEN {"query"} ELSE {}
    IN {{}, always, always \cup {"retry"}}

\* DOMContentLoaded after its first await.
Booted ==
    /\ booting
    /\ booting' = FALSE
    /\ \E c \in CapabilityAnswers :
          /\ caps' = c
          /\ view' = Normal(view, c)
          /\ RefreshAll(Normal(view, c), c)
    /\ UNCHANGED <<status, details, retrying>>

-----------------------------------------------------------------------------
(* Details and retry. *)

\* Mutant: the prompt of the job before stays.
OpenKeepingPrompt(j) ==
    /\ j \in list.jobs
    /\ details.hides + (IF details.shown THEN 1 ELSE 0) < MaxHides
    /\ details' = [details EXCEPT !.job = j, !.tab = view.tab, !.shown = TRUE]
    /\ UNCHANGED <<booting, caps, view, list, requests, refresh, status,
                   retrying>>

OpenDetails(j) ==
    /\ j \in list.jobs
    /\ details.hides + (IF details.shown THEN 1 ELSE 0) < MaxHides
    /\ details' = [Unprompted(details) EXCEPT !.job = j, !.tab = view.tab,
                                              !.shown = TRUE]
    /\ UNCHANGED <<booting, caps, view, list, requests, refresh, status,
                   retrying>>

CloseDetails ==
    /\ details.shown
    /\ details' = Hide(details)
    /\ UNCHANGED <<booting, caps, view, list, requests, refresh, status,
                   retrying>>

\* hidden.bs.offcanvas.
Hidden ==
    /\ details.hides > 0
    /\ details' = [Unselected(Unprompted(details)) EXCEPT !.hides = @ - 1]
    /\ UNCHANGED <<booting, caps, view, list, requests, refresh, status,
                   retrying>>

MayRetry == /\ details.job # None
            /\ details.tab = "failed"
            /\ "retry" \in caps

ShowRetryConfirmation ==
    /\ Visible(details)
    /\ MayRetry
    /\ details' = [details EXCEPT !.prompt = details.job]
    /\ UNCHANGED <<booting, caps, view, list, requests, refresh, status,
                   retrying>>

CancelRetry ==
    /\ details.prompt # None
    /\ details' = Unprompted(details)
    /\ UNCHANGED <<booting, caps, view, list, requests, refresh, status,
                   retrying>>

\* The confirm button; it is disabled while a retry is under way.
ConfirmRetry ==
    /\ Visible(details) /\ details.prompt # None
    /\ retrying.pc = "idle"
    /\ MayRetry
    /\ retrying' = [pc |-> "posting", job |-> details.job]
    /\ UNCHANGED <<booting, caps, view, list, requests, refresh, status,
                   details>>

\* retrySelectedJob awaits its refresh; one that is only queued is no wait.
AwaitRefresh == IF Refreshing THEN AtRest
                              ELSE [AtRest EXCEPT !.pc = "refreshing"]

\* Whichever job's details are shown by now are closed.
RetrySucceeded ==
    /\ retrying.pc = "posting"
    /\ details' = Unselected(Hide(Unprompted(details)))
    /\ RefreshAll(view, caps)
    /\ retrying' = AwaitRefresh
    /\ UNCHANGED <<booting, caps, view, status>>

RetryFailed ==
    /\ retrying.pc = "posting"
    /\ RefreshAll(view, caps)
    /\ retrying' = AwaitRefresh
    /\ UNCHANGED <<booting, caps, view, status, details>>

\* A 403: what is allowed has changed, and is asked for first.
RetryForbidden ==
    /\ retrying.pc = "posting"
    /\ retrying' = [AtRest EXCEPT !.pc = "capabilities"]
    /\ UNCHANGED <<booting, caps, view, list, requests, refresh, status,
                   details>>

CapabilitiesAfterRetry ==
    /\ retrying.pc = "capabilities"
    /\ \E c \in CapabilityAnswers :
          /\ caps' = c
          /\ view' = Normal(view, c)
          /\ RefreshAll(Normal(view, c), c)
    /\ details' = Unprompted(details)
    /\ retrying' = AwaitRefresh
    /\ UNCHANGED <<booting, status>>

-----------------------------------------------------------------------------

ChooseView ==
    \/ \E t \in Tabs : SelectTab(t)
    \/ \E f \in Filter : ChangeFilter(f)
    \/ PreviousPage
    \/ NextPage
    \/ \E v \in Views : PopState(v)

UsePanel ==
    \/ \E j \in Jobs : OpenDetails(j)
    \/ CloseDetails
    \/ Hidden
    \/ ShowRetryConfirmation
    \/ CancelRetry
    \/ ConfirmRetry

ListAnswer(r) == ListAnswered(r) \/ ListFailed(r) \/ ListSuperseded(r)

RetryAnswer == RetrySucceeded \/ RetryFailed \/ RetryForbidden

Next ==
    \/ ChooseView
    \/ Refresh
    \/ UsePanel
    \/ \E r \in requests : ListAnswer(r)
    \/ CountsAnswered
    \/ Booted
    \/ RetryAnswer
    \/ CapabilitiesAfterRetry

Spec == Init /\ [][Next]_vars

-----------------------------------------------------------------------------
(* Safety. *)

\* Jobs in the table are an answer to what is selected.  When a change of
\* capabilities changed the selection they may be older, but then a refresh
\* is under way, or the status says that it failed (index.js:385).
ShownIsSelected ==
    list.loaded /\ list.of # Sent(view, caps)
    => Refreshing \/ status = "failed"

\* The panel is open only on a job of the selected tab that the last list
\* contained, whatever answers arrive while it opens and closes
\* (index.js:416).
DetailsInList ==
    details.shown /\ details.job # None
    => /\ details.tab = view.tab
       /\ list.loaded => details.job \in list.jobs

\* The job the server is asked to retry is the one the prompt named
\* (index.js:791), although selectedJob changes under an open prompt.
RetriesConfirmedJob ==
    [][retrying.pc = "idle" /\ retrying'.pc = "posting"
       => retrying'.job = details.prompt]_vars

-----------------------------------------------------------------------------
(* Liveness: every request is answered or fails in the end (the server     *)
(* times out after five seconds); the user owes nothing.                   *)

Fairness ==
    /\ WF_vars(\E r \in requests : r.by = "refresh" /\ ListAnswer(r))
    /\ WF_vars(CountsAnswered)
    /\ WF_vars(Booted)
    /\ WF_vars(RetryAnswer)
    /\ WF_vars(CapabilitiesAfterRetry)

FairSpec == Spec /\ Fairness

\* A refresh asked for while another runs is made up for: so a list that a
\* retry outdated is loaded again (index.js:305).
QueuedRefreshRuns == refresh.queued ~> ~refresh.queued

\* Every retry ends with the button enabled again, whatever fails on the
\* way (index.js:861).
RetryEnds == retrying.pc # "idle" ~> retrying.pc = "idle"

=============================================================================
