-------------------------- MODULE DashboardListProofs --------------------------
(***************************************************************************)
(* Theorems about what Dashboard shows: the jobs of the table belong to    *)
(* the view that is selected, and the panel to a job of the table, in      *)
(* whatever order answers and clicks come.                                 *)
(***************************************************************************)
EXTENDS DashboardProofs

\* A list that is not the one of the selected view.
OldList(l) == l.loaded /\ l.of # Sent(view, caps)

\* The two promises of a refresh are made together, and a refresh is queued
\* only behind another.
RefreshOK ==
    /\ refresh.jobs = "idle" <=> refresh.counts = "idle"
    /\ refresh.queued => Refreshing

\* A refresh has one list request, while it waits for it.
OneRefresh(inFlight, jobs) ==
    \A r \in inFlight :
        r.by = "refresh" =>
            /\ jobs = "wait"
            /\ \A q \in inFlight : q.by = "refresh" => q = r

\* The newest request is about the selected view; if it is not, capabilities
\* changed since, and a refresh is queued.
NewestSent(inFlight) ==
    \A r \in inFlight :
        r.newest => r.of = Sent(view, caps) \/ refresh.queued

\* An old list is on its way out, or its refresh failed.
Excused(inFlight, jobs, l) ==
    /\ jobs = "ok" /\ OldList(l) => refresh.queued
    /\ OldList(l) => \/ status = "failed"
                     \/ refresh.queued
                     \/ jobs = "error"
                     \/ \E r \in inFlight : r.by = "refresh" /\ r.newest

ListInv ==
    /\ RefreshOK
    /\ OneRefresh(requests, refresh.jobs)
    /\ NewestSent(requests)
    /\ Excused(requests, refresh.jobs, list)

-----------------------------------------------------------------------------

\* Capabilities change the filter and the page, never the tab.
LEMMA SameTab ==
    ASSUME NEW v \in Views, NEW c
    PROVE  Normal(v, c).tab = v.tab /\ Sent(v, c).tab = v.tab
BY DEF Normal, Sent, Views

\* A new request beside those in flight.
LEMMA IssuedRequests ==
    ASSUME NEW inFlight \in SUBSET Requests, NEW by, NEW v, NEW c,
           NEW new, new = Issue(inFlight, by, v, c)
    PROVE  /\ \A r \in new : r.newest => r.of = Sent(v, c) /\ r.by = by
           /\ \E r \in new : r.by = by /\ r.newest
           /\ \A r, q \in new : r.newest /\ q.newest => q = r
           /\ \A r \in new :
                 r.newest \/ \E q \in inFlight :
                                r.by = q.by /\ r = [q EXCEPT !.newest = FALSE]
<1> DEFINE mine   == [of |-> Sent(v, c), by |-> by, newest |-> TRUE]
           old(q) == [q EXCEPT !.newest = FALSE]
<1>1. mine \in new /\ \A r \in new : r = mine \/ \E q \in inFlight : r = old(q)
  BY DEF Issue
<1>2. mine.of = Sent(v, c) /\ mine.by = by /\ mine.newest
  OBVIOUS
<1>3. ASSUME NEW q \in inFlight PROVE old(q).by = q.by /\ ~old(q).newest
  BY DEF Requests
<1>. HIDE DEF mine
<1>4. ASSUME NEW r \in new
      PROVE  \/ r = mine
             \/ ~r.newest /\ \E q \in inFlight : r.by = q.by /\ r = old(q)
  BY <1>1, <1>3
<1>. HIDE DEF old
<1>5. \A r \in new : r.newest => r = mine
  BY <1>4
<1>6. \A r \in new :
         r.newest \/ \E q \in inFlight : r.by = q.by /\ r = old(q)
  BY <1>2, <1>4
<1>. QED BY <1>1, <1>2, <1>5, <1>6 DEF old

\* One that is no refresh's, and one that is the only refresh's.
LEMMA IssuedLoad ==
    ASSUME NEW inFlight \in SUBSET Requests, NEW v, NEW c, NEW jobs,
           OneRefresh(inFlight, jobs),
           NEW new, new = Issue(inFlight, "load", v, c)
    PROVE  OneRefresh(new, jobs)
<1>1. ASSUME NEW r \in new, r.by = "refresh"
      PROVE  \E q \in inFlight :
                q.by = "refresh" /\ r = [q EXCEPT !.newest = FALSE]
  <2>1. ~r.newest
    BY <1>1, IssuedRequests
  <2>. QED BY <1>1, <2>1, IssuedRequests
<1>. QED BY <1>1 DEF OneRefresh

LEMMA IssuedRefresh ==
    ASSUME NEW inFlight \in SUBSET Requests, NEW v, NEW c,
           \A r \in inFlight : r.by # "refresh",
           NEW new, new = Issue(inFlight, "refresh", v, c)
    PROVE  OneRefresh(new, "wait")
<1>1. ASSUME NEW r \in new, r.by = "refresh"
      PROVE  r.newest
  <2>1. r.newest \/ \E q \in inFlight : r.by = q.by
    BY IssuedRequests
  <2>. QED BY <1>1, <2>1
<1>2. \A r, q \in new : r.newest /\ q.newest => q = r
  BY IssuedRequests
<1>. QED BY <1>1, <1>2 DEF OneRefresh

\* The user chooses a view: the list is emptied.
LEMMA LoadKeepsList ==
    ASSUME PageOK, ListInv, NEW v \in Views, Load(v)
    PROVE  ListInv'
<1>1. /\ UNCHANGED <<caps, refresh, status>> /\ view' = v
      /\ list' = Reloading(NoList)
      /\ requests' = Issue(requests, "load", v, caps)
  BY DEF Load
<1>2. ~list'.loaded
  BY <1>1 DEF Reloading, NoList
<1>3. OneRefresh(requests', refresh.jobs)
  BY <1>1, IssuedLoad DEF PageOK, ListInv
<1>4. \A r \in requests' : r.newest => r.of = Sent(v, caps)
  BY <1>1, IssuedRequests DEF PageOK
<1>. QED BY <1>1, <1>2, <1>3, <1>4
         DEF ListInv, RefreshOK, Refreshing, OneRefresh, NewestSent, Excused,
             OldList

\* A refresh, for the view and the capabilities there are now.
LEMMA RefreshKeepsList ==
    ASSUME PageOK, ListInv, NEW v \in Views, NEW c,
           view' = v, caps' = c, RefreshAll(v, c), UNCHANGED status
    PROVE  ListInv'
<1>0. refresh \in Refreshes /\ list \in Lists /\ requests \subseteq Requests
  BY DEF PageOK
<1>1. CASE Refreshing
  <2>1. /\ refresh' = [refresh EXCEPT !.queued = TRUE]
        /\ UNCHANGED <<requests, list>>
    BY <1>1 DEF RefreshAll
  <2>2. /\ refresh'.queued /\ refresh'.jobs = refresh.jobs
        /\ refresh'.counts = refresh.counts
    BY <1>0, <2>1 DEF Refreshes
  <2>. QED BY <1>1, <2>1, <2>2
           DEF ListInv, RefreshOK, Refreshing, OneRefresh, NewestSent, Excused
<1>2. CASE ~Refreshing
  <2>1. /\ refresh' = [refresh EXCEPT !.counts = "wait", !.jobs = "wait"]
        /\ requests' = Issue(requests, "refresh", v, c)
        /\ list' = Reloading(list)
    BY <1>2 DEF RefreshAll
  <2>2. /\ ~refresh'.queued /\ refresh'.jobs = "wait"
        /\ refresh'.counts = "wait"
    BY <1>0, <1>2, <2>1 DEF Refreshes, ListInv, RefreshOK
  <2>3. \A r \in requests : r.by # "refresh"
    BY <1>2 DEF ListInv, RefreshOK, OneRefresh, Refreshing
  <2>4. OneRefresh(requests', refresh'.jobs)
    BY <1>0, <2>1, <2>2, <2>3, IssuedRefresh
  <2>5. /\ \A r \in requests' : r.newest => r.of = Sent(v, c)
        /\ \E r \in requests' : r.by = "refresh" /\ r.newest
    BY <1>0, <2>1, IssuedRequests
  <2>. QED BY <2>2, <2>4, <2>5
           DEF ListInv, RefreshOK, Refreshing, OneRefresh, NewestSent, Excused
<1>. QED BY <1>1, <1>2

\* A promise of the refresh is settled.
LEMMA SettleKeepsList ==
    ASSUME PageOK, UNCHANGED <<view, caps>>,
           NEW counts \in {"wait", "ok", "error"},
           NEW jobs \in {"wait", "ok", "error", "superseded"},
           NEW inFlight \in SUBSET Requests, NEW l \in Lists,
           Settle(counts, jobs, inFlight, l),
           Refreshing,
           OneRefresh(inFlight, jobs), NewestSent(inFlight),
           Excused(inFlight, jobs, l)
    PROVE  ListInv'
<1>0. refresh \in Refreshes
  BY DEF PageOK
<1>1. CASE "wait" \in {counts, jobs}
  <2>1. /\ refresh' = [refresh EXCEPT !.counts = counts, !.jobs = jobs]
        /\ requests' = inFlight /\ list' = l /\ status' = status
    BY <1>1 DEF Settle
  <2>2. /\ refresh'.queued = refresh.queued /\ refresh'.jobs = jobs
        /\ refresh'.counts = counts
    BY <1>0, <2>1 DEF Refreshes
  <2>. QED BY <2>1, <2>2
           DEF ListInv, RefreshOK, Refreshing, OneRefresh, NewestSent,
               Excused, OldList
<1>2. CASE "wait" \notin {counts, jobs}
  <2>1. status' = CASE jobs = "superseded" -> status
                    [] counts = "ok" /\ jobs = "ok" -> "updated"
                    [] OTHER -> "failed"
    BY <1>2 DEF Settle
  <2>2. CASE QueueWaits
    <3>1. /\ refresh' = [Calm EXCEPT !.counts = "wait", !.jobs = "wait"]
          /\ requests' = Issue(inFlight, "refresh", view, caps)
      BY <1>2, <2>2 DEF Settle
    <3>2. /\ ~refresh'.queued /\ refresh'.jobs = "wait"
          /\ refresh'.counts = "wait"
      BY <3>1 DEF Calm
    <3>3. OneRefresh(requests', refresh'.jobs)
      BY <1>2, <3>1, <3>2, IssuedRefresh DEF OneRefresh
    <3>4. /\ \A r \in requests' : r.newest => r.of = Sent(view, caps)
          /\ \E r \in requests' : r.by = "refresh" /\ r.newest
      BY <3>1, IssuedRequests
    <3>. QED BY <3>2, <3>3, <3>4
             DEF ListInv, RefreshOK, Refreshing, OneRefresh, NewestSent, Excused
  <2>3. CASE ~QueueWaits
    <3>1. /\ refresh' = [refresh EXCEPT !.counts = "idle", !.jobs = "idle"]
          /\ requests' = inFlight /\ list' = l
      BY <1>2, <2>3 DEF Settle
    <3>2. /\ ~refresh'.queued /\ refresh'.jobs = "idle" /\ ~refresh.queued
          /\ refresh'.counts = "idle"
      BY <1>0, <2>3, <3>1 DEF Refreshes, QueueWaits
    <3>3. \A r \in inFlight : r.by # "refresh"
      BY <1>2 DEF OneRefresh
    <3>4. OldList(l) => status' = "failed"
      <4>1. CASE jobs = "superseded"
        BY <2>1, <3>2, <3>3, <4>1 DEF Excused
      <4>2. CASE jobs = "ok"
        BY <3>2, <4>2 DEF Excused
      <4>3. CASE jobs = "error"
        BY <2>1, <4>3
      <4>. QED BY <1>2, <4>1, <4>2, <4>3
    <3>. QED BY <3>1, <3>2, <3>3, <3>4
             DEF ListInv, RefreshOK, Refreshing, OneRefresh, NewestSent,
                 Excused, OldList
  <2>. QED BY <2>2, <2>3
<1>. QED BY <1>1, <1>2

\* An answer to a list request, which leaves the list l.
LEMMA ReportKeepsList ==
    ASSUME PageOK, ListInv, UNCHANGED <<view, caps>>,
           NEW r \in requests, NEW result \in {"ok", "error", "superseded"},
           NEW l \in Lists, Report(r, result, l),
           result = "ok" => l.of = r.of /\ r.newest,
           result = "error" /\ OldList(l) => OldList(list),
           result = "superseded" => l = list /\ Superseded(r, "ok")
    PROVE  ListInv'
<1> DEFINE others == requests \ {r}
<1>0. others \in SUBSET Requests /\ r \in Requests /\ refresh \in Refreshes
  BY DEF PageOK
<1>1. NewestSent(others)
  BY DEF ListInv, NewestSent
<1>2. result = "ok" => ~OldList(l) \/ refresh.queued
  BY DEF ListInv, NewestSent, OldList
\* A newest request that is superseded was made for another tab.
<1>3. result = "superseded" => ~r.newest \/ refresh.queued
  <2>1. view \in Views
    BY DEF PageOK
  <2>. QED BY <2>1, SameTab DEF ListInv, NewestSent, Superseded
<1>4. CASE r.by = "refresh"
  <2>1. refresh.jobs = "wait" /\ \A q \in others : q.by # "refresh"
    BY <1>4 DEF ListInv, OneRefresh
  <2>2. OneRefresh(others, result)
    BY <2>1 DEF OneRefresh
  <2>3. refresh.counts \in {"wait", "ok", "error"} /\ Refreshing
    BY <1>0, <2>1 DEF ListInv, RefreshOK, Refreshes, Refreshing
  <2>4. Excused(others, result, l)
    <3>1. CASE result = "ok"
      BY <1>2, <3>1 DEF Excused
    <3>2. CASE result = "error"
      BY <3>2 DEF Excused
    <3>3. CASE result = "superseded"
      BY <1>3, <1>4, <2>1, <3>3 DEF Excused, ListInv, OneRefresh
    <3>. QED BY <3>1, <3>2, <3>3
  <2>5. Settle(refresh.counts, result, others, l)
    BY <1>4 DEF Report
  <2>. HIDE DEF others
  <2>. QED BY <1>0, <1>1, <2>2, <2>3, <2>4, <2>5, SettleKeepsList
<1>5. CASE r.by # "refresh"
  <2>1. /\ requests' = others /\ list' = l /\ UNCHANGED refresh
        /\ status' = CASE result = "superseded" -> status
                       [] result = "ok" -> "updated"
                       [] result = "error" -> "failed"
    BY <1>5 DEF Report
  <2>2. OneRefresh(others, refresh.jobs) /\ RefreshOK
    BY DEF ListInv, OneRefresh
  <2>3. Excused(requests, refresh.jobs, list)
    BY DEF ListInv
  <2>4. Excused(others, refresh.jobs, l)'
    <3>1. CASE result = "ok"
      BY <1>2, <2>1, <3>1 DEF Excused, OldList
    <3>2. CASE result = "error"
      BY <2>1, <2>3, <3>2 DEF Excused, OldList
    <3>3. CASE result = "superseded"
      BY <1>5, <2>1, <2>3, <3>3 DEF Excused, OldList
    <3>. QED BY <3>1, <3>2, <3>3
  <2>. QED BY <1>1, <2>1, <2>2, <2>4
           DEF ListInv, RefreshOK, Refreshing, OneRefresh, NewestSent, Excused,
               OldList
<1>. QED BY <1>4, <1>5

LEMMA AnswerKeepsList ==
    ASSUME PageOK, ListInv, NEW r \in requests, ListAnswer(r)
    PROVE  ListInv'
<1>0. r \in Requests /\ list \in Lists
  BY DEF PageOK
<1>1. CASE ListAnswered(r)
  <2>1. PICK found \in SUBSET Jobs, more \in BOOLEAN :
           Report(r, "ok", [jobs |-> found, loaded |-> TRUE,
                            loading |-> FALSE, more |-> more,
                            of |-> r.of])
    BY <1>1 DEF ListAnswered
  <2> DEFINE l == [jobs |-> found, loaded |-> TRUE, loading |-> FALSE,
                   more |-> more, of |-> r.of]
  <2>2. l \in Lists /\ l.of = r.of
    BY <1>0 DEF Lists, Requests
  <2>3. UNCHANGED <<view, caps>> /\ r.newest /\ Report(r, "ok", l)
    BY <1>1, <2>1 DEF ListAnswered, Superseded
  <2>. HIDE DEF l
  <2>. QED BY <2>2, <2>3, ReportKeepsList
<1>2. CASE ListFailed(r)
  <2> DEFINE l == [list EXCEPT !.loading = FALSE, !.more = FALSE]
  <2>1. l \in Lists /\ (OldList(l) => OldList(list))
    BY <1>0 DEF Lists, OldList
  <2>2. UNCHANGED <<view, caps>> /\ Report(r, "error", l)
    BY <1>2 DEF ListFailed
  <2>. HIDE DEF l
  <2>. QED BY <2>1, <2>2, ReportKeepsList
<1>3. CASE ListSuperseded(r)
  <2>1. Superseded(r, "ok")
    BY <1>3 DEF ListSuperseded, Superseded
  <2>2. UNCHANGED <<view, caps>> /\ Report(r, "superseded", list)
    BY <1>3 DEF ListSuperseded
  <2>. QED BY <1>0, <2>1, <2>2, ReportKeepsList
<1>. QED BY <1>1, <1>2, <1>3 DEF ListAnswer

LEMMA CountsKeepList ==
    ASSUME PageOK, ListInv, CountsAnswered
    PROVE  ListInv'
<1>1. PICK answer \in {"ok", "error"} :
         Settle(answer, refresh.jobs, requests, list)
  BY DEF CountsAnswered
<1>2. /\ UNCHANGED <<view, caps>> /\ Refreshing
      /\ refresh.jobs \in {"wait", "ok", "error", "superseded"}
  BY DEF CountsAnswered, Refreshing, ListInv, RefreshOK, PageOK, Refreshes
<1>. QED BY <1>1, <1>2, SettleKeepsList DEF ListInv, PageOK

LEMMA StepKeepsList ==
    ASSUME PageOK, ListInv, [Next]_vars
    PROVE  ListInv'
<1>0. view \in Views
  BY DEF PageOK
<1>1. CASE ChooseView
  <2>1. \E v \in Views : Load(v)
    <3>1. ASSUME NEW t \in Tabs, SelectTab(t) PROVE \E v \in Views : Load(v)
      <4>1. [view EXCEPT !.tab = t, !.page = 0] \in Views
        BY <1>0, FirstPage DEF Filter
      <4>. QED BY <3>1, <4>1, NormalView DEF SelectTab
    <3>2. ASSUME NEW f \in Filter, ChangeFilter(f)
          PROVE  \E v \in Views : Load(v)
      <4>1. [view EXCEPT !.filter = f, !.page = 0] \in Views
        BY <1>0, FirstPage, TabAssumption
      <4>. QED BY <3>2, <4>1 DEF ChangeFilter
    <3>3. CASE PreviousPage
      <4>1. [view EXCEPT !.page = @ - 1] \in Views
        BY <1>0, <3>3, BoundsAreNat DEF PreviousPage, Views
      <4>. QED BY <3>3, <4>1 DEF PreviousPage
    <3>4. CASE NextPage
      <4>1. view.page < LastPage
        BY <3>4 DEF NextPage, PageOK, MorePages
      <4>2. [view EXCEPT !.page = @ + 1] \in Views
        BY <1>0, <4>1, BoundsAreNat DEF Views
      <4>. QED BY <3>4, <4>2 DEF NextPage
    <3>5. ASSUME NEW v \in Views, PopState(v) PROVE \E w \in Views : Load(w)
      BY <3>5, NormalView DEF PopState
    <3>. QED BY <1>1, <3>1, <3>2, <3>3, <3>4, <3>5 DEF ChooseView
  <2>. QED BY <2>1, LoadKeepsList
<1>2. CASE Refresh \/ RetrySucceeded \/ RetryFailed
  <2>1. RefreshAll(view, caps) /\ UNCHANGED <<view, caps, status>>
    BY <1>2 DEF Refresh, RetrySucceeded, RetryFailed
  <2>2. view' = view /\ caps' = caps
    BY <2>1
  <2>. QED BY <1>0, <2>1, <2>2, RefreshKeepsList
<1>3. CASE Booted \/ CapabilitiesAfterRetry
  <2>1. PICK c \in CapabilityAnswers :
           /\ caps' = c /\ view' = Normal(view, c)
           /\ RefreshAll(Normal(view, c), c)
    BY <1>3 DEF Booted, CapabilitiesAfterRetry
  <2>2. Normal(view, c) \in Views /\ UNCHANGED status
    BY <1>0, <1>3, NormalView DEF Booted, CapabilitiesAfterRetry
  <2>. QED BY <2>1, <2>2, RefreshKeepsList
<1>4. CASE UNCHANGED <<caps, view, list, requests, refresh, status>>
  BY <1>4 DEF ListInv, RefreshOK, Refreshing, OneRefresh, NewestSent, Excused,
              OldList
<1>5. CASE UsePanel \/ RetryForbidden \/ UNCHANGED vars
  BY <1>4, <1>5 DEF UsePanel, OpenDetails, CloseDetails, Hidden, vars,
              ShowRetryConfirmation, CancelRetry, ConfirmRetry, RetryForbidden
<1>. QED BY <1>1, <1>2, <1>3, <1>5, AnswerKeepsList, CountsKeepList
         DEF Next, RetryAnswer

LEMMA ListInvInit == Init => ListInv
BY DEF Init, ListInv, RefreshOK, Refreshing, OneRefresh, NewestSent, Excused,
       OldList, NoList, Calm

\* The jobs in the table belong to the selected view, or the refresh that
\* will replace them is under way or has failed and the status says so, for
\* any number of requests in flight (index.js:385).
THEOREM ShownJobsSelected == Spec => []ShownIsSelected
<1>1. DashboardInv /\ ListInv /\ [Next]_vars => ListInv'
  BY StepKeepsList DEF DashboardInv
<1>2. ListInv => ShownIsSelected
  BY DEF ListInv, RefreshOK, OneRefresh, Excused, OldList, Refreshing,
         ShownIsSelected
<1>. QED BY <1>1, <1>2, ListInvInit, DashboardInvariant, PTL DEF Spec

-----------------------------------------------------------------------------
(* The panel. *)

\* What happens to the jobs of the table when no answer brings new ones.
LEMMA SameJobs ==
    ASSUME PageOK,
           NEW v, NEW c, RefreshAll(v, c)
    PROVE  list'.jobs = list.jobs /\ list'.loaded = list.loaded
BY DEF RefreshAll, Reloading, PageOK, Lists

LEMMA ReportedJobs ==
    ASSUME NEW r, NEW result, NEW l \in Lists, Report(r, result, l)
    PROVE  list'.jobs = l.jobs /\ list'.loaded = l.loaded
BY DEF Report, Settle, Reloading, Lists

\* Whatever closes an open panel leaves it closed.
LEMMA ClosedPanel ==
    ASSUME NEW d \in Panels
    PROVE  d.job # None => ~CloseOpen(d).shown
BY DEF CloseOpen, Hide, Visible, Unselected, Panels

LEMMA DetailsStep == DashboardInv /\ DetailsInList /\ [Next]_vars => DetailsInList'
<1> SUFFICES ASSUME DashboardInv, DetailsInList, [Next]_vars
             PROVE  DetailsInList'
  OBVIOUS
<1>0. PageOK /\ details \in Panels /\ view \in Views /\ list \in Lists
  BY DEF DashboardInv, PageOK, PanelOK
<1>1. CASE ChooseView
  <2>1. ~list'.loaded
    BY <1>1 DEF ChooseView, SelectTab, ChangeFilter, PreviousPage, NextPage,
                PopState, Load, Reloading, NoList
  <2>2. \/ details' = CloseOpen(details)
        \/ details' = details /\ view'.tab = view.tab
    <3>1. ASSUME NEW t \in Tabs, SelectTab(t), t = view.tab
          PROVE  view'.tab = view.tab
      <4>1. [view EXCEPT !.tab = t, !.page = 0] \in Views
        BY <1>0, FirstPage DEF Filter
      <4>2. [view EXCEPT !.tab = t, !.page = 0].tab = t
        BY <1>0 DEF Views
      <4>. QED BY <3>1, <4>1, <4>2, SameTab DEF SelectTab, Load
    <3>2. ASSUME NEW v \in Views, PopState(v), v.tab = view.tab
          PROVE  view'.tab = view.tab
      BY <3>2, SameTab DEF PopState, Load
    <3>3. ASSUME (\E f \in Filter : ChangeFilter(f)) \/ PreviousPage \/ NextPage
          PROVE  view'.tab = view.tab /\ details' = details
      BY <1>0, <3>3 DEF ChangeFilter, PreviousPage, NextPage, Load, Views
    <3>4. ASSUME NEW t \in Tabs, SelectTab(t)
          PROVE  \/ details' = CloseOpen(details)
                 \/ details' = details /\ t = view.tab
      BY <3>4 DEF SelectTab
    <3>5. ASSUME NEW v \in Views, PopState(v)
          PROVE  \/ details' = CloseOpen(details)
                 \/ details' = details /\ v.tab = view.tab
      BY <3>5 DEF PopState
    <3>. QED BY <1>1, <3>1, <3>2, <3>3, <3>4, <3>5 DEF ChooseView
  <2>3. CASE details' = CloseOpen(details) /\ details.job # None
    BY <1>0, <2>3, ClosedPanel DEF DetailsInList
  <2>4. CASE details' = details /\ view'.tab = view.tab
    BY <2>1, <2>4 DEF DetailsInList
  <2>5. details.job = None => CloseOpen(details) = details
    BY DEF CloseOpen
  <2>6. CASE details.job = None
    BY <2>2, <2>5, <2>6 DEF DetailsInList
  <2>. QED BY <2>2, <2>3, <2>4, <2>6
<1>2. ASSUME NEW r \in requests, ListAnswer(r) PROVE DetailsInList'
  <2>0. view' = view /\ r.of \in Views
    BY <1>0, <1>2 DEF ListAnswer, ListAnswered, ListFailed, ListSuperseded,
                      PageOK, Requests
  <2>1. CASE ListAnswered(r)
    <3>1. PICK found \in SUBSET Jobs, more \in BOOLEAN :
             /\ Report(r, "ok", [jobs |-> found, loaded |-> TRUE,
                                 loading |-> FALSE, more |-> more,
                                 of |-> r.of])
             /\ details' = Selection(found)
      BY <2>1 DEF ListAnswered
    <3>2. [jobs |-> found, loaded |-> TRUE, loading |-> FALSE,
           more |-> more, of |-> r.of] \in Lists
      BY <2>0 DEF Lists
    <3>3. list'.jobs = found
      BY <3>1, <3>2, ReportedJobs
    <3>. QED BY <1>0, <2>0, <3>1, <3>3, ClosedPanel
             DEF Selection, DetailsInList
  <2>2. CASE ListFailed(r)
    <3>1. [list EXCEPT !.loading = FALSE, !.more = FALSE] \in Lists
      BY <1>0 DEF Lists
    <3>2. list'.jobs = list.jobs /\ list'.loaded = list.loaded
      BY <1>0, <2>2, <3>1, ReportedJobs DEF ListFailed, Lists
    <3>. QED BY <2>0, <2>2, <3>2 DEF ListFailed, DetailsInList
  <2>3. CASE ListSuperseded(r)
    BY <1>0, <2>0, <2>3, ReportedJobs DEF ListSuperseded, DetailsInList
  <2>. QED BY <1>2, <2>1, <2>2, <2>3 DEF ListAnswer
<1>3. CASE CountsAnswered
  <2>1. /\ list'.jobs = list.jobs /\ list'.loaded = list.loaded
        /\ UNCHANGED <<view, details>>
    BY <1>0, <1>3 DEF CountsAnswered, Settle, Reloading, Lists
  <2>. QED BY <2>1 DEF DetailsInList
<1>4. CASE Refresh \/ Booted \/ RetryAnswer \/ CapabilitiesAfterRetry
  <2>1. /\ list'.jobs = list.jobs /\ list'.loaded = list.loaded
        /\ view'.tab = view.tab
    BY <1>0, <1>4, SameJobs, SameTab
       DEF Refresh, Booted, RetryAnswer, RetrySucceeded, RetryFailed,
           RetryForbidden, CapabilitiesAfterRetry
  <2>2. \/ details' = details
        \/ details' = Unprompted(details)
        \/ details' = Unselected(Hide(Unprompted(details)))
    BY <1>4 DEF Refresh, Booted, RetryAnswer, RetrySucceeded, RetryFailed,
           RetryForbidden, CapabilitiesAfterRetry
  <2>. QED BY <1>0, <2>1, <2>2
           DEF DetailsInList, Unprompted, Unselected, Hide, Panels
<1>5. CASE UsePanel
  <2>1. UNCHANGED <<view, list>>
    BY <1>5 DEF UsePanel, OpenDetails, CloseDetails, Hidden,
                ShowRetryConfirmation, CancelRetry, ConfirmRetry
  <2>2. ASSUME NEW j \in Jobs, OpenDetails(j) PROVE DetailsInList'
    BY <1>0, <2>1, <2>2 DEF OpenDetails, DetailsInList, Unprompted, Panels
  <2>3. CASE CloseDetails \/ Hidden
    BY <1>0, <2>3 DEF CloseDetails, Hidden, DetailsInList, Hide, Unselected,
                      Unprompted, Panels
  <2>4. CASE ShowRetryConfirmation \/ CancelRetry \/ ConfirmRetry
    BY <1>0, <2>1, <2>4 DEF ShowRetryConfirmation, CancelRetry, ConfirmRetry,
                      DetailsInList, Unprompted, Panels
  <2>. QED BY <1>5, <2>2, <2>3, <2>4 DEF UsePanel
<1>6. CASE UNCHANGED vars
  BY <1>6 DEF vars, DetailsInList
<1>. QED BY <1>1, <1>2, <1>3, <1>4, <1>5, <1>6 DEF Next

\* An open panel shows a job of the selected tab that the table contains,
\* whatever answers arrive while it opens and closes (index.js:416).
THEOREM PanelFollowsList == Spec => []DetailsInList
<1>1. Init => DetailsInList
  BY DEF Init, Closed, DetailsInList
<1>. QED BY <1>1, DetailsStep, DashboardInvariant, PTL DEF Spec

================================================================================
