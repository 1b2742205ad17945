-------------------------- MODULE DashboardProofs --------------------------
(***************************************************************************)
(* Theorems about Dashboard: types and bounds, and that the job the server *)
(* is asked to retry is the one the user confirmed.                        *)
(***************************************************************************)
EXTENDS Dashboard, TLAPS

\* The next-page button leads to a page that exists, ...
MorePages == list.more => view.page < LastPage

\* ... and so it stays when the newest answer arrives: a change of
\* capabilities in between may only have gone back to the first page.
NewestPages == \A r \in requests : r.newest => view.page <= r.of.page

PageOK ==
    /\ booting \in BOOLEAN
    /\ caps \subseteq {"query", "retry"}
    /\ view \in Views
    /\ list \in Lists
    /\ requests \subseteq Requests
    /\ refresh \in Refreshes
    /\ status \in {"none", "updated", "failed"}
    /\ retrying \in Retries
    /\ MorePages
    /\ NewestPages

\* A panel: an open one is counted among the hidden events it will lead to,
\* and an open prompt names the selected job, if one is selected.
PanelOK(d) ==
    /\ d \in Panels
    /\ d.shown => d.hides < MaxHides
    /\ d.prompt # None => d.job \in {None, d.prompt}

DashboardInv == PageOK /\ PanelOK(details)

-----------------------------------------------------------------------------
(* The operators on views, requests and lists. *)

\* What is sent for a view is a view of the same page.
LEMMA SentView ==
    ASSUME NEW v \in Views, NEW c
    PROVE  Sent(v, c) \in Views /\ Sent(v, c).page = v.page
BY DEF Sent, Views, Filter

\* Normalising a view may only go back to the first page.
LEMMA NormalView ==
    ASSUME NEW v \in Views, NEW c
    PROVE  Normal(v, c) \in Views /\ Normal(v, c).page <= v.page
<1>1. v.page \in 0 .. LastPage /\ 0 \in 0 .. LastPage
  BY BoundsAreNat DEF Views
<1>2. CASE Normal(v, c) = v
  BY <1>1, <1>2
<1>3. CASE Normal(v, c) = [v EXCEPT !.filter = None, !.page = 0]
  <2>1. Normal(v, c) = [tab |-> v.tab, filter |-> None, page |-> 0]
    BY <1>3 DEF Views
  <2>. QED BY <1>1, <2>1 DEF Views, Filter
<1>. QED BY <1>2, <1>3 DEF Normal

\* Choosing a tab or a filter, on its first page.
LEMMA FirstPage ==
    ASSUME NEW v \in Views, NEW t \in Tabs, NEW f \in Filter
    PROVE  /\ [v EXCEPT !.tab = t, !.page = 0] \in Views
           /\ [v EXCEPT !.filter = f, !.page = 0] \in Views
<1>1. /\ [v EXCEPT !.tab = t] \in Views
      /\ [v EXCEPT !.filter = f] \in Views
  BY DEF Views
<1>2. ASSUME NEW w \in Views PROVE [w EXCEPT !.page = 0] \in Views
  <2>1. 0 \in 0 .. LastPage
    BY BoundsAreNat
  <2>. QED BY <2>1 DEF Views
<1>3. /\ [v EXCEPT !.tab = t, !.page = 0]
            = [[v EXCEPT !.tab = t] EXCEPT !.page = 0]
      /\ [v EXCEPT !.filter = f, !.page = 0]
            = [[v EXCEPT !.filter = f] EXCEPT !.page = 0]
  OBVIOUS
<1>. QED BY <1>1, <1>2, <1>3

\* A new request is the only newest one, and for the page asked for.
LEMMA Issued ==
    ASSUME NEW inFlight \in SUBSET Requests, NEW by \in {"load", "refresh"},
           NEW v \in Views, NEW c
    PROVE  /\ Issue(inFlight, by, v, c) \subseteq Requests
           /\ \A r \in Issue(inFlight, by, v, c) :
                 r.newest => r.of.page = v.page
<1>1. ASSUME NEW r \in Issue(inFlight, by, v, c)
      PROVE  r \in Requests /\ (r.newest => r.of.page = v.page)
  <2>1. CASE \E q \in inFlight : r = [q EXCEPT !.newest = FALSE]
    BY <2>1 DEF Requests
  <2>2. CASE r = [of |-> Sent(v, c), by |-> by, newest |-> TRUE]
    BY <2>2, SentView DEF Requests
  <2>. QED BY <1>1, <2>1, <2>2 DEF Issue
<1>. QED BY <1>1

\* A list being loaded promises no further page.
LEMMA ReloadedList ==
    ASSUME NEW l \in Lists
    PROVE  Reloading(l) \in Lists /\ ~Reloading(l).more
BY DEF Reloading, Lists

\* The empty list is a list.
LEMMA NoListIsList == NoList \in Lists
BY DEF NoList, Lists

-----------------------------------------------------------------------------
(* The operators on the panel. *)

\* Hiding an open panel leaves room for its hidden event.
LEMMA PanelHide == ASSUME NEW d, PanelOK(d) PROVE PanelOK(Hide(d))
<1>1. CASE ~d.shown
  BY <1>1 DEF Hide
<1>2. CASE d.shown
  <2>1. /\ d.job \in Jobs \cup {None} /\ d.tab \in Tabs \cup {None}
        /\ d.prompt \in Jobs \cup {None} /\ d.hides + 1 \in 0 .. MaxHides
    BY <1>2, BoundsAreNat DEF PanelOK, Panels
  <2>2. Hide(d) = [job |-> d.job, tab |-> d.tab, prompt |-> d.prompt,
                   shown |-> FALSE, hides |-> d.hides + 1]
    BY <1>2 DEF Hide, PanelOK, Panels
  <2>. QED BY <2>1, <2>2 DEF PanelOK, Panels
<1>. QED BY <1>1, <1>2

\* Closing the prompt keeps the panel's invariant.
LEMMA PanelUnprompted ==
    ASSUME NEW d, PanelOK(d) PROVE PanelOK(Unprompted(d))
BY DEF Unprompted, PanelOK, Panels

\* So does dropping the selection.
LEMMA PanelUnselected ==
    ASSUME NEW d, PanelOK(d) PROVE PanelOK(Unselected(d))
BY DEF Unselected, PanelOK, Panels

\* So does closeOpenJobDetails.
LEMMA PanelCloseOpen ==
    ASSUME NEW d, PanelOK(d) PROVE PanelOK(CloseOpen(d))
BY PanelHide, PanelUnselected DEF CloseOpen

-----------------------------------------------------------------------------
(* The page's part of the invariant. *)

\* Loading a view.
LEMMA PageLoad ==
    ASSUME PageOK, NEW v \in Views, Load(v)
    PROVE  PageOK'
<1>1. /\ UNCHANGED <<booting, caps, refresh, status, retrying>>
      /\ view' = v
      /\ list' = Reloading(NoList)
      /\ requests' = Issue(requests, "load", v, caps)
  BY DEF Load
<1>2. list' \in Lists /\ ~list'.more
  BY <1>1, NoListIsList, ReloadedList
<1>3. /\ requests' \subseteq Requests
      /\ \A r \in requests' : r.newest => r.of.page = v.page
  BY <1>1, Issued DEF PageOK
<1>4. MorePages' /\ NewestPages'
  BY <1>1, <1>2, <1>3, BoundsAreNat DEF MorePages, NewestPages, Views
<1>. QED BY <1>1, <1>2, <1>3, <1>4 DEF PageOK

\* refreshAll, for the old view or one that capabilities changed.
LEMMA PageRefreshAll ==
    ASSUME PageOK, NEW v \in Views, v.page <= view.page, NEW c,
           view' = v, RefreshAll(v, c)
    PROVE  /\ refresh' \in Refreshes
           /\ requests' \subseteq Requests
           /\ list' \in Lists
           /\ MorePages'
           /\ NewestPages'
<1>0. v.page \in Nat /\ view.page \in Nat
  BY DEF PageOK, Views
<1>1. CASE Refreshing
  <2>1. /\ refresh' = [refresh EXCEPT !.queued = TRUE]
        /\ UNCHANGED <<requests, list>>
    BY <1>1 DEF RefreshAll
  <2>2. refresh' \in Refreshes
    BY <2>1 DEF PageOK, Refreshes
  <2>3. MorePages'
    BY <1>0, <2>1, BoundsAreNat DEF PageOK, MorePages
  <2>4. NewestPages'
    <3>1. ASSUME NEW r \in requests, r.newest PROVE v.page <= r.of.page
      <4>1. r.of.page \in Nat
        BY DEF PageOK, Requests, Views
      <4>2. view.page <= r.of.page
        BY <3>1 DEF PageOK, NewestPages
      <4>. QED BY <1>0, <4>1, <4>2
    <3>. QED BY <2>1, <3>1 DEF NewestPages
  <2>. QED BY <2>1, <2>2, <2>3, <2>4 DEF PageOK
<1>2. CASE ~Refreshing
  <2>1. /\ refresh' = [refresh EXCEPT !.counts = "wait", !.jobs = "wait"]
        /\ requests' = Issue(requests, "refresh", v, c)
        /\ list' = Reloading(list)
    BY <1>2 DEF RefreshAll
  <2>2. refresh' \in Refreshes
    BY <2>1 DEF PageOK, Refreshes
  <2>3. /\ requests' \subseteq Requests
        /\ \A r \in requests' : r.newest => r.of.page = v.page
    BY <2>1, Issued DEF PageOK
  <2>4. list' \in Lists /\ ~list'.more
    BY <2>1, ReloadedList DEF PageOK
  <2>5. MorePages' /\ NewestPages'
    BY <1>0, <2>3, <2>4 DEF MorePages, NewestPages
  <2>. QED BY <2>2, <2>3, <2>4, <2>5
<1>. QED BY <1>1, <1>2

\* What the last answer of a refresh, or one before it, leaves.
LEMMA PageSettle ==
    ASSUME PageOK,
           NEW counts \in {"idle", "wait", "ok", "error"},
           NEW jobs \in {"idle", "wait", "ok", "error", "superseded"},
           NEW inFlight \in SUBSET requests,
           NEW l \in Lists, l.more => view.page < LastPage,
           Settle(counts, jobs, inFlight, l),
           UNCHANGED <<booting, caps, view>>
    PROVE  PageOK'
<1>0. view.page \in Nat /\ inFlight \subseteq Requests
  BY DEF PageOK, Views
<1>1. refresh' \in Refreshes
  BY DEF Settle, PageOK, Refreshes, Calm
<1>2. status' \in {"none", "updated", "failed"}
  BY DEF Settle, PageOK
<1>3. retrying' \in Retries
  BY DEF Settle, PageOK, Finally, Retries, AtRest
<1>4. \/ requests' = inFlight /\ list' = l
      \/ requests' = Issue(inFlight, "refresh", view, caps)
         /\ list' = Reloading(l)
  BY DEF Settle
<1>5. /\ list' \in Lists /\ requests' \subseteq Requests
      /\ MorePages' /\ NewestPages'
  <2>1. CASE requests' = inFlight /\ list' = l
    BY <1>0, <2>1 DEF PageOK, MorePages, NewestPages
  <2>2. CASE /\ requests' = Issue(inFlight, "refresh", view, caps)
             /\ list' = Reloading(l)
    <3>1. list' \in Lists /\ ~list'.more
      BY <2>2, ReloadedList
    <3>2. /\ requests' \subseteq Requests
          /\ \A r \in requests' : r.newest => r.of.page = view.page
      BY <1>0, <2>2, Issued DEF PageOK
    <3>. QED BY <1>0, <3>1, <3>2 DEF MorePages, NewestPages
  <2>. QED BY <1>4, <2>1, <2>2
<1>. QED BY <1>1, <1>2, <1>3, <1>5 DEF PageOK

\* An answer to a list request.
LEMMA PageReport ==
    ASSUME PageOK, NEW r \in requests,
           NEW result \in {"ok", "error", "superseded"},
           NEW l \in Lists, l.more => view.page < LastPage,
           Report(r, result, l),
           UNCHANGED <<booting, caps, view>>
    PROVE  PageOK'
<1>1. CASE r.by = "refresh"
  <2>1. Settle(refresh.counts, result, requests \ {r}, l)
    BY <1>1 DEF Report
  <2>2. refresh.counts \in {"idle", "wait", "ok", "error"}
    BY DEF PageOK, Refreshes
  <2>. QED BY <2>1, <2>2, PageSettle
<1>2. CASE r.by # "refresh"
  <2>1. /\ requests' = requests \ {r}
        /\ list' = l
        /\ UNCHANGED <<refresh, retrying>>
        /\ status' \in {"none", "updated", "failed"}
    BY <1>2 DEF Report, PageOK
  <2>. QED BY <2>1 DEF PageOK, MorePages, NewestPages
<1>. QED BY <1>1, <1>2

\* Whatever one answer does.
LEMMA PageListAnswer ==
    ASSUME PageOK, NEW r \in requests, ListAnswer(r)
    PROVE  PageOK'
<1>0. /\ r \in Requests /\ r.of \in Views /\ r.of.page \in Nat
      /\ view.page \in Nat
  BY DEF PageOK, Requests, Views
<1>1. CASE ListAnswered(r)
  <2>1. PICK found \in SUBSET Jobs, more \in BOOLEAN :
           /\ more => r.of.page < LastPage
           /\ Report(r, "ok", [jobs |-> found, loaded |-> TRUE,
                               loading |-> FALSE, more |-> more,
                               of |-> r.of])
    BY <1>1 DEF ListAnswered
  <2>2. UNCHANGED <<booting, caps, view>> /\ r.newest
    BY <1>1 DEF ListAnswered, Superseded
  <2> DEFINE l == [jobs |-> found, loaded |-> TRUE, loading |-> FALSE,
                   more |-> more, of |-> r.of]
  <2>3. l \in Lists /\ l.more = more
    BY <1>0 DEF Lists
  <2>4. more => view.page < LastPage
    BY <1>0, <2>1, <2>2, BoundsAreNat DEF PageOK, NewestPages
  <2>5. Report(r, "ok", l)
    BY <2>1
  <2>. HIDE DEF l
  <2>. QED BY <2>2, <2>3, <2>4, <2>5, PageReport
<1>2. CASE ListFailed(r)
  <2> DEFINE l == [list EXCEPT !.loading = FALSE, !.more = FALSE]
  <2>1. Report(r, "error", l) /\ UNCHANGED <<booting, caps, view>>
    BY <1>2 DEF ListFailed
  <2>2. l \in Lists /\ ~l.more
    BY DEF PageOK, Lists
  <2>. HIDE DEF l
  <2>. QED BY <2>1, <2>2, PageReport
<1>3. CASE ListSuperseded(r)
  <2>1. Report(r, "superseded", list) /\ UNCHANGED <<booting, caps, view>>
    BY <1>3 DEF ListSuperseded
  <2>2. list \in Lists /\ (list.more => view.page < LastPage)
    BY DEF PageOK, MorePages
  <2>. QED BY <2>1, <2>2, PageReport
<1>. QED BY <1>1, <1>2, <1>3 DEF ListAnswer

\* Choosing a view.
LEMMA PageChooseView ==
    ASSUME PageOK, ChooseView
    PROVE  PageOK'
<1>0. view \in Views /\ view.page \in Nat
  BY DEF PageOK, Views
<1>1. ASSUME NEW t \in Tabs, SelectTab(t) PROVE PageOK'
  <2>1. [view EXCEPT !.tab = t, !.page = 0] \in Views
    BY <1>0, FirstPage DEF Filter
  <2>. QED BY <1>1, <2>1, NormalView, PageLoad DEF SelectTab
<1>2. ASSUME NEW f \in Filter, ChangeFilter(f) PROVE PageOK'
  <2>1. [view EXCEPT !.filter = f, !.page = 0] \in Views
    BY <1>0, FirstPage, TabAssumption
  <2>. QED BY <1>2, <2>1, PageLoad DEF ChangeFilter
<1>3. CASE PreviousPage
  <2>1. [view EXCEPT !.page = @ - 1] \in Views
    BY <1>0, <1>3, BoundsAreNat DEF PreviousPage, Views
  <2>. QED BY <1>3, <2>1, PageLoad DEF PreviousPage
<1>4. CASE NextPage
  <2>1. view.page < LastPage
    BY <1>4 DEF NextPage, PageOK, MorePages
  <2>2. [view EXCEPT !.page = @ + 1] \in Views
    BY <1>0, <2>1, BoundsAreNat DEF Views
  <2>. QED BY <1>4, <2>2, PageLoad DEF NextPage
<1>5. ASSUME NEW v \in Views, PopState(v) PROVE PageOK'
  BY <1>5, NormalView, PageLoad DEF PopState
<1>. QED BY <1>1, <1>2, <1>3, <1>4, <1>5 DEF ChooseView

\* Capabilities arrive, at the start or after a retry was forbidden.
LEMMA PageCapabilities ==
    ASSUME PageOK, NEW c \in CapabilityAnswers,
           caps' = c, view' = Normal(view, c), RefreshAll(Normal(view, c), c),
           booting' \in BOOLEAN, status' = status, retrying' \in Retries
    PROVE  PageOK'
<1>1. Normal(view, c) \in Views /\ Normal(view, c).page <= view.page
  BY NormalView DEF PageOK
<1>2. c \subseteq {"query", "retry"}
  BY DEF CapabilityAnswers
<1>. QED BY <1>1, <1>2, PageRefreshAll DEF PageOK

\* Where a retry waits after its answer.
LEMMA AwaitTyped == ASSUME PageOK PROVE AwaitRefresh \in Retries
BY DEF AwaitRefresh, AtRest, Retries

\* A refresh for the view as it is.
LEMMA PageRefreshSame ==
    ASSUME PageOK, RefreshAll(view, caps), retrying' \in Retries,
           UNCHANGED <<booting, caps, view, status>>
    PROVE  PageOK'
<1>1. view \in Views /\ view.page <= view.page
  BY DEF PageOK, Views
<1>2. view' = view
  OBVIOUS
<1>. QED BY <1>1, <1>2, PageRefreshAll DEF PageOK

\* Every step keeps the page's part.
LEMMA PageStep ==
    ASSUME DashboardInv, Next
    PROVE  PageOK'
<1>0. PageOK /\ PanelOK(details)
  BY DEF DashboardInv
<1>1. CASE ChooseView
  BY <1>0, <1>1, PageChooseView
<1>2. CASE Refresh
  <2>1. retrying' \in Retries
    BY <1>0, <1>2 DEF Refresh, PageOK
  <2>. QED BY <1>0, <1>2, <2>1, PageRefreshSame DEF Refresh
<1>3. CASE UsePanel
  <2>1. retrying' \in Retries
    <3>1. CASE UNCHANGED retrying
      BY <1>0, <3>1 DEF PageOK
    <3>2. CASE retrying' = [pc |-> "posting", job |-> details.job]
      <4>1. details.job \in Jobs \cup {None}
        BY <1>0 DEF PanelOK, Panels
      <4>. QED BY <3>2, <4>1 DEF Retries
    <3>. QED BY <1>3, <3>1, <3>2
             DEF UsePanel, OpenDetails, CloseDetails, Hidden,
                 ShowRetryConfirmation, CancelRetry, ConfirmRetry
  <2>2. UNCHANGED <<booting, caps, view, list, requests, refresh, status>>
    BY <1>3 DEF UsePanel, OpenDetails, CloseDetails, Hidden,
                ShowRetryConfirmation, CancelRetry, ConfirmRetry
  <2>. QED BY <1>0, <2>1, <2>2 DEF PageOK, MorePages, NewestPages
<1>4. ASSUME NEW r \in requests, ListAnswer(r) PROVE PageOK'
  BY <1>0, <1>4, PageListAnswer
<1>5. CASE CountsAnswered
  <2>1. PICK answer \in {"ok", "error"} :
           Settle(answer, refresh.jobs, requests, list)
    BY <1>5 DEF CountsAnswered
  <2>2. UNCHANGED <<booting, caps, view>>
    BY <1>5 DEF CountsAnswered
  <2>3. /\ refresh.jobs \in {"idle", "wait", "ok", "error", "superseded"}
        /\ list \in Lists /\ (list.more => view.page < LastPage)
    BY <1>0 DEF PageOK, MorePages, Refreshes
  <2>. QED BY <1>0, <2>1, <2>2, <2>3, PageSettle
<1>6. CASE Booted
  <2>1. booting' \in BOOLEAN /\ status' = status /\ retrying' \in Retries
    BY <1>0, <1>6 DEF Booted, PageOK
  <2>. QED BY <1>0, <1>6, <2>1, PageCapabilities DEF Booted
<1>7. CASE RetrySucceeded \/ RetryFailed
  <2>1. /\ RefreshAll(view, caps) /\ retrying' = AwaitRefresh
        /\ UNCHANGED <<booting, caps, view, status>>
    BY <1>7 DEF RetrySucceeded, RetryFailed
  <2>. QED BY <1>0, <2>1, AwaitTyped, PageRefreshSame
<1>8. CASE RetryForbidden
  <2>1. /\ retrying' = [AtRest EXCEPT !.pc = "capabilities"]
        /\ UNCHANGED <<booting, caps, view, list, requests, refresh, status>>
    BY <1>8 DEF RetryForbidden
  <2>2. retrying' \in Retries
    BY <2>1 DEF AtRest, Retries
  <2>. QED BY <1>0, <2>1, <2>2 DEF PageOK, MorePages, NewestPages
<1>9. CASE CapabilitiesAfterRetry
  <2>1. booting' \in BOOLEAN /\ status' = status /\ retrying' \in Retries
    BY <1>0, <1>9, AwaitTyped DEF CapabilitiesAfterRetry, PageOK
  <2>. QED BY <1>0, <1>9, <2>1, PageCapabilities DEF CapabilitiesAfterRetry
<1>. QED BY <1>1, <1>2, <1>3, <1>4, <1>5, <1>6, <1>7, <1>8, <1>9
         DEF Next, RetryAnswer

-----------------------------------------------------------------------------
(* The panel's part. *)

\* Every step keeps the panel's part.
LEMMA PanelStep ==
    ASSUME DashboardInv, Next
    PROVE  PanelOK(details)'
<1>0. PageOK /\ PanelOK(details)
  BY DEF DashboardInv
<1>1. CASE ChooseView
  <2>1. details' \in {details, CloseOpen(details)}
    BY <1>1 DEF ChooseView, SelectTab, ChangeFilter, PreviousPage, NextPage,
                PopState
  <2>. QED BY <1>0, <2>1, PanelCloseOpen DEF PanelOK
<1>2. CASE UsePanel
  <2>1. ASSUME NEW j \in Jobs, OpenDetails(j) PROVE PanelOK(details')
    <3>1. view.tab \in Tabs
      BY <1>0 DEF PageOK, Views
    <3>2. details.hides < MaxHides
      BY <1>0, <2>1, BoundsAreNat DEF OpenDetails, PanelOK, Panels
    <3>3. details' = [Unprompted(details) EXCEPT !.job = j, !.tab = view.tab,
                                                 !.shown = TRUE]
      BY <2>1 DEF OpenDetails
    <3>. QED BY <1>0, <3>1, <3>2, <3>3 DEF Unprompted, PanelOK, Panels
  <2>2. CASE CloseDetails
    BY <1>0, <2>2, PanelHide DEF CloseDetails
  <2>3. CASE Hidden
    <3> DEFINE d == Unselected(Unprompted(details))
    <3>1. PanelOK(d) /\ d.hides = details.hides
      BY <1>0, PanelUnprompted, PanelUnselected
         DEF Unselected, Unprompted, PanelOK, Panels
    <3>2. details' = [d EXCEPT !.hides = @ - 1] /\ details.hides > 0
      BY <2>3 DEF Hidden
    <3>. HIDE DEF d
    <3>. QED BY <3>1, <3>2, BoundsAreNat DEF PanelOK, Panels
  <2>4. CASE ShowRetryConfirmation
    BY <1>0, <2>4 DEF ShowRetryConfirmation, PanelOK, Panels
  <2>5. CASE CancelRetry
    BY <1>0, <2>5, PanelUnprompted DEF CancelRetry
  <2>6. CASE ConfirmRetry
    BY <1>0, <2>6 DEF ConfirmRetry
  <2>7. PanelOK(details')
    BY <1>2, <2>1, <2>2, <2>3, <2>4, <2>5, <2>6 DEF UsePanel
  <2>. QED BY <2>7 DEF PanelOK
<1>3. ASSUME NEW r \in requests, ListAnswer(r) PROVE PanelOK(details)'
  <2>1. details' \in {details, CloseOpen(details)}
    BY <1>3 DEF ListAnswer, ListAnswered, ListFailed, ListSuperseded,
                Selection
  <2>. QED BY <1>0, <2>1, PanelCloseOpen DEF PanelOK
<1>4. CASE RetrySucceeded
  <2>1. details' = Unselected(Hide(Unprompted(details)))
    BY <1>4 DEF RetrySucceeded
  <2>2. PanelOK(Unselected(Hide(Unprompted(details))))
    BY <1>0, PanelUnprompted, PanelHide, PanelUnselected
  <2>. QED BY <2>1, <2>2 DEF PanelOK
<1>5. CASE CapabilitiesAfterRetry
  <2>1. details' = Unprompted(details)
    BY <1>5 DEF CapabilitiesAfterRetry
  <2>. QED BY <1>0, <2>1, PanelUnprompted DEF PanelOK
<1>6. CASE UNCHANGED details
  BY <1>0, <1>6 DEF PanelOK
<1>. QED BY <1>1, <1>2, <1>3, <1>4, <1>5, <1>6
         DEF Next, Refresh, CountsAnswered, Booted, RetryAnswer, RetryFailed,
             RetryForbidden

-----------------------------------------------------------------------------
(* The theorems. *)

\* The invariant holds from the start.
LEMMA DashboardInit == Init => DashboardInv
<1> SUFFICES ASSUME Init PROVE DashboardInv
  OBVIOUS
<1>1. list \in Lists /\ ~list.more
  BY DEF Init, NoList, Lists
<1>2. refresh \in Refreshes
  BY DEF Init, Calm, Refreshes
<1>3. retrying \in Retries
  BY DEF Init, AtRest, Retries
<1>4. PanelOK(details)
  BY BoundsAreNat DEF Init, Closed, PanelOK, Panels
<1>. QED BY <1>1, <1>2, <1>3, <1>4
         DEF Init, DashboardInv, PageOK, MorePages, NewestPages

\* And every step keeps it.
LEMMA DashboardStep == DashboardInv /\ [Next]_vars => DashboardInv'
<1> SUFFICES ASSUME DashboardInv, [Next]_vars PROVE DashboardInv'
  OBVIOUS
<1>1. CASE Next
  BY <1>1, PageStep, PanelStep DEF DashboardInv
<1>2. CASE UNCHANGED vars
  BY <1>2 DEF vars, DashboardInv, PageOK, MorePages, NewestPages, PanelOK
<1>. QED BY <1>1, <1>2

\* The invariant holds in every state.
LEMMA DashboardInvariant == Spec => []DashboardInv
BY DashboardInit, DashboardStep, PTL DEF Spec

\* Types and bounds hold for any sets of jobs, tabs and filters: in
\* particular no button leads past the last page.
THEOREM DashboardTypeCorrect == Spec => []TypeOK
<1>1. DashboardInv => TypeOK
  BY DEF DashboardInv, PageOK, PanelOK, TypeOK
<1>. QED BY <1>1, DashboardInvariant, PTL

\* The server is asked to retry the job the prompt named, in whatever order
\* answers, transitions of the panel and clicks come.
THEOREM ConfirmedJobRetried == Spec => RetriesConfirmedJob
<1>1. ASSUME DashboardInv, [Next]_vars
      PROVE  [retrying.pc = "idle" /\ retrying'.pc = "posting"
              => retrying'.job = details.prompt]_vars
  <2> SUFFICES ASSUME Next, retrying.pc = "idle", retrying'.pc = "posting"
               PROVE  retrying'.job = details.prompt
    BY <1>1
  <2>1. CASE ConfirmRetry
    BY <1>1, <2>1 DEF ConfirmRetry, MayRetry, DashboardInv, PanelOK
  <2>2. CASE UNCHANGED retrying
    BY <2>2
  <2>3. ASSUME NEW counts, NEW jobs, retrying' = Finally(counts, jobs)
        PROVE  FALSE
    BY <2>3 DEF Finally, AtRest
  <2>4. ASSUME NEW counts, NEW jobs, NEW inFlight, NEW l,
               Settle(counts, jobs, inFlight, l)
        PROVE  FALSE
    BY <2>3, <2>4 DEF Settle
  <2>5. CASE CountsAnswered
    BY <2>4, <2>5 DEF CountsAnswered
  <2>6. ASSUME NEW r \in requests, ListAnswer(r) PROVE FALSE
    BY <2>4, <2>6 DEF ListAnswer, ListAnswered, ListFailed, ListSuperseded,
                      Report
  <2>7. CASE RetryAnswer \/ CapabilitiesAfterRetry
    BY <2>7 DEF RetryAnswer, RetrySucceeded, RetryFailed, RetryForbidden,
                CapabilitiesAfterRetry
  <2>. QED BY <2>1, <2>2, <2>5, <2>6, <2>7
           DEF Next, ChooseView, SelectTab, ChangeFilter, PreviousPage,
               NextPage, PopState, Load, Refresh, UsePanel, OpenDetails,
               CloseDetails, Hidden, ShowRetryConfirmation, CancelRetry,
               Booted
<1>. QED BY <1>1, DashboardInvariant, PTL DEF Spec, RetriesConfirmedJob

=============================================================================
