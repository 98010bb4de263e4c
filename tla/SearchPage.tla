----------------------------- MODULE SearchPage -----------------------------
(***************************************************************************)
(* The search page (ui/pages/search.py).  It runs on the interface thread; *)
(* a search is a worker of a four-thread pool that asks the local indexes, *)
(* and, once its result has been rendered, a second worker that asks the   *)
(* public sources.  Results come back as queued signals and are matched    *)
(* with the request id: every edit, every change of region or scope, every *)
(* cancellation and every search moves it on.                              *)
(*                                                                         *)
(* Texts stands for what may be in the search box, Filters for the pairs   *)
(* of region and scope.  Searches are numbered in the order in which they  *)
(* are started; number j also names its cancel event.                      *)
(***************************************************************************)
EXTENDS Naturals, FiniteSets

CONSTANTS
    Texts,        \* queries the user types
    Fleeting,     \* those too short to be searched while typing
    NoText,       \* the empty box
    Filters,      \* pairs of region and scope
    NoFilter,     \* the region and scope of a search not started
    MaxSearches,  \* searches started, at most
    MaxRequests,  \* value of search_request_id at which editing stops
    PageThreads   \* MAX_SEARCH_WORKER_THREADS

ASSUME PageAssumption ==
    /\ NoText \notin Texts /\ Fleeting \subseteq Texts
    /\ Filters # {} /\ NoFilter \notin Filters
    /\ MaxSearches \in Nat /\ MaxRequests \in Nat
    /\ PageThreads \in Nat \ {0}

Numbers == 1..MaxSearches

VARIABLES
    box,         \* the text in the search box
    filter,      \* current_region and current_scope
    requestId,   \* search_request_id
    timer,       \* debounce_timer is running
    accepting,   \* _accepting_searches
    latest,      \* the search started last, owner of _active_cancel_event
    search,      \* what each search was started for, and the filter of its supplement
    work,        \* where the worker of each search stands
    outcome,     \* what its last worker came back with
    alarms,      \* cancel events that are set
    screen,      \* what the page shows
    label        \* the search that _background_status_label was made for, 0 if deleted

inputVars == <<box, filter, requestId, timer, accepting>>

searchPageVars == <<inputVars, latest, search, work, outcome, alarms, screen, label>>

-----------------------------------------------------------------------------

NoSearch == [id |-> 0, text |-> NoText, filter |-> NoFilter, event |-> 0, with |-> NoFilter]

OnPageThread == {j \in Numbers : work[j] \in {"searching", "enriching"}}

(* Mutant: a result is taken whichever request it answers.                 *)
CurrentAnyway(j) == TRUE

Current(j) == search[j].id = requestId

AlarmLatest == alarms' = IF latest = 0 THEN alarms ELSE alarms \cup {latest}

(* thread_pool.clear() removes the workers no thread has taken up. *)
Cleared == [j \in Numbers |->
              IF work[j] \in {"queued", "enrichQueued"} THEN "gone" ELSE work[j]]

(* Mutant: the queue is emptied after the new worker has been added to it. *)
QueuedTooSoon(j) == [Cleared EXCEPT ![j] = "gone"]

Queued(j) == [Cleared EXCEPT ![j] = "queued"]

SearchPageInit ==
    /\ box = NoText
    /\ filter = CHOOSE f \in Filters : TRUE
    /\ requestId = 0
    /\ timer = FALSE
    /\ accepting = TRUE
    /\ latest = 0
    /\ search = [j \in Numbers |-> NoSearch]
    /\ work = [j \in Numbers |-> "none"]
    /\ outcome = [j \in Numbers |-> "none"]
    /\ alarms = {}
    /\ screen = [kind |-> "initial", of |-> 0]
    /\ label = 0

(***************************************************************************)
(* The handlers of the user's input.                                       *)
(***************************************************************************)

(* _on_query_changed: typing starts the debounce timer unless there is too *)
(* little text; a search under way is given up in any case.                *)
EditText(t) ==
    /\ t # box
    /\ requestId < MaxRequests
    /\ box' = t
    /\ AlarmLatest
    /\ requestId' = requestId + 1
    /\ timer' = (t # NoText /\ t \notin Fleeting)
    /\ UNCHANGED <<filter, accepting, latest, search, work, outcome, screen, label>>

(* Mutant: another region or scope leaves the request id as it is.         *)
ChangeFilterSilently(f) ==
    /\ f # filter
    /\ requestId < MaxRequests
    /\ AlarmLatest
    /\ filter' = f
    /\ timer' = (timer \/ box # NoText)
    /\ UNCHANGED <<box, requestId, accepting, latest, search, work, outcome, screen, label>>

(* _scope_changed and _region_changed. *)
ChangeFilter(f) ==
    /\ f # filter
    /\ requestId < MaxRequests
    /\ AlarmLatest
    /\ filter' = f
    /\ requestId' = requestId + 1
    /\ timer' = (timer \/ box # NoText)
    /\ UNCHANGED <<box, accepting, latest, search, work, outcome, screen, label>>

(* _cancel_search: what is on the screen stays there. *)
CancelSearch ==
    /\ requestId < MaxRequests
    /\ AlarmLatest
    /\ requestId' = requestId + 1
    /\ timer' = FALSE
    /\ UNCHANGED <<box, filter, accepting, latest, search, work, outcome, screen, label>>

(* _start_search, from the timer, the Enter key, the button, the retry     *)
(* action of an error or the search box of the main window.                *)
StartSearch ==
    /\ accepting
    /\ latest < MaxSearches
    /\ AlarmLatest
    /\ timer' = FALSE
    /\ requestId' = requestId + 1
    /\ label' = 0
    /\ IF box = NoText
       THEN /\ screen' = [kind |-> "initial", of |-> 0]
            /\ latest' = latest + 1
            /\ search' = [search EXCEPT ![latest + 1].id = requestId + 1]
            /\ work' = Cleared
       ELSE /\ screen' = [kind |-> "loading", of |-> latest + 1]
            /\ latest' = latest + 1
            /\ search' = [search EXCEPT ![latest + 1] =
                 [id |-> requestId + 1, text |-> box, filter |-> filter, event |-> 0,
                  with |-> NoFilter]]
            /\ work' = Queued(latest + 1)
    /\ UNCHANGED <<box, filter, accepting, outcome>>

(* _run_debounced_search *)
TimerFires == timer /\ StartSearch

(* shutdown: the request id stays, so late results still find their page. *)
ShutdownPage ==
    /\ accepting
    /\ accepting' = FALSE
    /\ timer' = FALSE
    /\ AlarmLatest
    /\ work' = Cleared
    /\ UNCHANGED <<box, filter, requestId, latest, search, outcome, screen, label>>

(***************************************************************************)
(* The workers.  A search whose event is set before its last look at it    *)
(* comes back cancelled, one that is cancelled later does not.             *)
(***************************************************************************)
WorkerOutcomes(event) == {"ok", "failed"} \cup (IF event \in alarms THEN {"cancelled"} ELSE {})

TakeUp(j) ==
    /\ work[j] \in {"queued", "enrichQueued"}
    /\ Cardinality(OnPageThread) < PageThreads
    /\ work' = [work EXCEPT ![j] = IF @ = "queued" THEN "searching" ELSE "enriching"]
    /\ UNCHANGED <<inputVars, latest, search, outcome, alarms, screen, label>>

(* _run_local_search and _run_background_enrichment. *)
WorkerEnds(j) ==
    /\ \/ /\ work[j] = "searching"
          /\ work' = [work EXCEPT ![j] = "searched"]
          /\ \E o \in WorkerOutcomes(j) : outcome' = [outcome EXCEPT ![j] = o]
       \/ /\ work[j] = "enriching"
          /\ work' = [work EXCEPT ![j] = "enriched"]
          /\ \E o \in WorkerOutcomes(search[j].event) : outcome' = [outcome EXCEPT ![j] = o]
    /\ UNCHANGED <<inputVars, latest, search, alarms, screen, label>>

(***************************************************************************)
(* The handlers of the workers' signals.                                   *)
(***************************************************************************)
Discard(j) ==
    /\ work' = [work EXCEPT ![j] = "gone"]
    /\ UNCHANGED <<search, screen, label>>

(* _render_local_response and _render_request_error.  The supplement runs  *)
(* with the page's event and filter, not with those of the search.         *)
LocalSignal(j) ==
    /\ work[j] = "searched"
    /\ IF ~Current(j) \/ outcome[j] = "cancelled"
       THEN Discard(j)
       ELSE IF outcome[j] = "failed"
       THEN /\ work' = [work EXCEPT ![j] = "gone"]
            /\ screen' = [kind |-> "failed", of |-> j]
            /\ label' = 0
            /\ UNCHANGED search
       ELSE /\ work' = [work EXCEPT ![j] = "enrichQueued"]
            /\ screen' = [kind |-> "local", of |-> j]
            /\ label' = j
            /\ search' = [search EXCEPT ![j].event = latest, ![j].with = filter]
    /\ UNCHANGED <<inputVars, latest, outcome, alarms>>

(* _render_enrichment_response and _render_enrichment_error. *)
PublicSignal(j) ==
    /\ work[j] = "enriched"
    /\ IF ~Current(j) \/ outcome[j] = "cancelled"
       THEN Discard(j)
       ELSE /\ work' = [work EXCEPT ![j] = "gone"]
            /\ screen' = [kind |-> IF outcome[j] = "ok" THEN "full" ELSE "partial", of |-> j]
            /\ UNCHANGED <<search, label>>
    /\ UNCHANGED <<inputVars, latest, outcome, alarms>>

-----------------------------------------------------------------------------

SearchPageNext ==
    \/ \E t \in Texts \cup {NoText} : EditText(t)
    \/ \E f \in Filters : ChangeFilter(f)
    \/ CancelSearch
    \/ requestId < MaxRequests /\ StartSearch
    \/ TimerFires
    \/ ShutdownPage
    \/ \E j \in Numbers : TakeUp(j) \/ WorkerEnds(j) \/ LocalSignal(j) \/ PublicSignal(j)

(* Threads take up work while one is free, calls of the service return     *)
(* (EnrichSearch bounds its waits) and the interface thread runs.          *)
SearchPageFairness ==
    \A j \in Numbers :
      /\ SF_searchPageVars(TakeUp(j))
      /\ WF_searchPageVars(WorkerEnds(j))
      /\ WF_searchPageVars(LocalSignal(j) \/ PublicSignal(j))

SearchPageSpec ==
    SearchPageInit /\ [][SearchPageNext]_searchPageVars /\ SearchPageFairness

-----------------------------------------------------------------------------

Stages == {"none", "queued", "searching", "searched",
           "enrichQueued", "enriching", "enriched", "gone"}

SearchPageTypeOK ==
    /\ box \in Texts \cup {NoText}
    /\ filter \in Filters
    /\ requestId \in Nat
    /\ timer \in BOOLEAN /\ accepting \in BOOLEAN
    /\ latest \in 0..MaxSearches
    /\ search \in [Numbers -> [id: Nat, text: Texts \cup {NoText},
                               filter: Filters \cup {NoFilter}, event: 0..MaxSearches,
                               with: Filters \cup {NoFilter}]]
    /\ work \in [Numbers -> Stages]
    /\ outcome \in [Numbers -> {"none", "ok", "cancelled", "failed"}]
    /\ alarms \subseteq Numbers
    /\ screen \in [kind: {"initial", "loading", "local", "failed", "full", "partial"},
                   of: 0..MaxSearches]
    /\ label \in 0..MaxSearches

(* The search whose answer the page still takes. *)
Wanted == IF latest # 0 /\ search[latest].text # NoText /\ Current(latest) THEN latest ELSE 0

(* The page implements the promise: after an edit, a change of the filter, *)
(* a cancellation or a newer search no result of the old one is rendered,  *)
(* whichever threads bring it, in whatever order.                          *)
Promise == INSTANCE SearchPromise WITH wanted <- Wanted

PromiseKept == Promise!PromiseSpec

(* What the page puts up belongs to the text in the box and to the region  *)
(* and scope on show.  A supplement runs under the event, the region and   *)
(* the scope of the search it supplements, although the page hands it its  *)
(* own; and as long as its result is awaited the label it will write to    *)
(* exists.                                                                 *)
ScreenBelongs ==
    /\ [][screen' # screen /\ screen'.kind \in {"local", "full", "partial"}
            => /\ search[screen'.of].text = box
               /\ search[screen'.of].filter = filter]_searchPageVars
    /\ [](\A j \in Numbers :
            work[j] \in {"enrichQueued", "enriching", "enriched"}
              => /\ search[j].event = j
                 /\ search[j].with = search[j].filter
                 /\ Current(j) => label = j)

(* A search that the user does not give up, edit away or supersede comes   *)
(* to an end on the screen: with its results and their supplement, with a  *)
(* note that some source failed, or with an error.                         *)
SearchSettles ==
    \A j \in Numbers :
      (Wanted = j) ~> \/ Wanted # j
                      \/ ~accepting
                      \/ screen \in {[kind |-> k, of |-> j] : k \in {"full", "partial", "failed"}}
=============================================================================
