------------------------------ MODULE CrawlPage ------------------------------
(***************************************************************************)
(* Starting, watching, cancelling and shutting down crawls from the        *)
(* company page (ui/pages/company_detail.py).  The page runs on the        *)
(* interface thread; each crawl is a worker of a two-thread pool, started  *)
(* in order, whose result comes back to the interface thread as a queued   *)
(* signal.                                                                 *)
(*                                                                         *)
(* The page keeps one cancel event, web_crawl_cancel_event ("the handle"), *)
(* for all companies and all crawls.  A worker reads it when its thread    *)
(* gets there, not when the crawl is started.  Likewise the company id of  *)
(* a crawl is computed twice, by the page at the start and by the thread;  *)
(* in between, profile data may fill in identifiers of the company in      *)
(* place, which changes its id.                                            *)
(*                                                                         *)
(* Crawls are numbered in the order in which they are started.  The event  *)
(* created for crawl j is j; the one that crawl() creates when it is       *)
(* handed none is OwnEvent(j).                                             *)
(***************************************************************************)
EXTENDS Integers, FiniteSets, Sequences, Functions

CONSTANTS
    Companies,   \* company objects the user opens
    IdOf,        \* the company each object stands for; a search makes new objects
    NoCompany,   \* before the first one
    MaxCrawls,   \* crawls started, at most
    Threads      \* threads of crawl_thread_pool

ASSUME PageAssumption ==
    /\ NoCompany \notin Companies
    /\ DOMAIN IdOf = Companies /\ NoCompany \notin Range(IdOf)
    /\ MaxCrawls \in Nat
    /\ Threads \in Nat \ {0}

Crawls == 1..MaxCrawls

NoEvent == 0

OwnEvent(j) == MaxCrawls + j

Events == 1..(2 * MaxCrawls)

VARIABLES
    company,     \* current_company
    identified,  \* objects that a profile has filled another identifier into
    handle,      \* web_crawl_cancel_event
    handleKey,   \* _web_crawl_company_id
    panel,       \* what the evidence list shows
    started,     \* number of crawls started
    stage,       \* where the worker of each crawl stands
    owner,       \* the company object handed to the worker
    startKey,    \* the company id the page computed at the start
    jobKey,      \* the company id the thread computed
    event,       \* the event crawl() runs under
    failed,      \* crawls that end with an exception
    signals,     \* finished and error signals queued for the interface thread
    alarm,       \* events that are set
    active,      \* _active_cancel_events of the service
    closing      \* shutdown() has been called

pageVars == <<company, identified, handle, handleKey, panel>>

workVars == <<owner, startKey, jobKey, event>>

vars == <<pageVars, started, stage, workVars, failed, signals, alarm, active, closing>>

-----------------------------------------------------------------------------

(* CompanyResult.dedupe_key: the best identifier there is.  "name" stands  *)
(* for the one an object comes with, "lei" for a better one filled in.     *)
Key(c) == <<IF c \in identified THEN "lei" ELSE "name", IdOf[c]>>

Keys == {"name", "lei"} \X (Range(IdOf) \cup {NoCompany})

(* _company_from_profile: a profile may fill an identifier into object c.  *)
AdoptProfile(c) == identified' \in {identified, identified \cup {c}}

(* Stages in which the worker occupies a thread of the pool. *)
OnThread == {"thread", "keyed", "called", "crawling"}

Over == {"done", "dropped"}

Cancelled(j) == event[j] \in alarm

Init ==
    /\ company = NoCompany
    /\ identified = {}
    /\ handle = NoEvent
    /\ handleKey = <<"name", NoCompany>>
    /\ panel = "list"
    /\ started = 0
    /\ stage = [j \in Crawls |-> "new"]
    /\ owner = [j \in Crawls |-> NoCompany]
    /\ startKey = [j \in Crawls |-> <<"name", NoCompany>>]
    /\ jobKey = [j \in Crawls |-> <<"name", NoCompany>>]
    /\ event = [j \in Crawls |-> NoEvent]
    /\ failed = {}
    /\ signals = << >>
    /\ alarm = {}
    /\ active = {}
    /\ closing = FALSE

-----------------------------------------------------------------------------

(* set_company and refresh: the tabs are rebuilt, the list shows what is   *)
(* stored, and the immediate profile may already change the company's id.  *)
Open(c) ==
    /\ ~closing
    /\ company' = c
    /\ AdoptProfile(c)
    /\ panel' = "list"
    /\ UNCHANGED <<handle, handleKey, started, stage, workVars, failed, signals, alarm,
                   active, closing>>

(* The profile of the current request arrives (_render_profile_result).    *)
Identify ==
    /\ ~closing
    /\ company # NoCompany
    /\ AdoptProfile(company)
    /\ UNCHANGED <<company, handle, handleKey, panel, started, stage, workVars, failed,
                   signals, alarm, active, closing>>

(* Mutant: an event that is set is cleared and used again.                 *)
StartReusingEvent ==
    LET j == started + 1
    IN  /\ ~closing
        /\ company # NoCompany
        /\ handle = NoEvent \/ handle \in alarm
        /\ j \in Crawls
        /\ started' = j
        /\ handle' = IF handle = NoEvent THEN j ELSE handle
        /\ alarm' = alarm \ {handle}
        /\ handleKey' = Key(company)
        /\ panel' = "loading"
        /\ stage' = [stage EXCEPT ![j] = "queued"]
        /\ owner' = [owner EXCEPT ![j] = company]
        /\ startKey' = [startKey EXCEPT ![j] = Key(company)]
        /\ UNCHANGED <<company, identified, jobKey, event, failed, signals, active, closing>>

(***************************************************************************)
(* _start_web_evidence_crawl: refused while the handle is neither free nor *)
(* set; otherwise a new event and a new worker.                            *)
(***************************************************************************)
Start ==
    LET j == started + 1
    IN  /\ ~closing
        /\ company # NoCompany
        /\ handle = NoEvent \/ handle \in alarm
        /\ j \in Crawls
        /\ started' = j
        /\ handle' = j
        /\ handleKey' = Key(company)
        /\ panel' = "loading"
        /\ stage' = [stage EXCEPT ![j] = "queued"]
        /\ owner' = [owner EXCEPT ![j] = company]
        /\ startKey' = [startKey EXCEPT ![j] = Key(company)]
        /\ UNCHANGED <<company, identified, jobKey, event, failed, signals, alarm, active,
                       closing>>

(* The cancel button sets the handle, whichever crawl that belongs to.     *)
Cancel ==
    /\ ~closing
    /\ handle # NoEvent
    /\ alarm' = alarm \cup {handle}
    /\ UNCHANGED <<pageVars, started, stage, workVars, failed, signals, active, closing>>

(* The refresh button lists the stored evidence, crawl or not.             *)
RefreshEvidence ==
    /\ ~closing
    /\ company # NoCompany
    /\ panel' = "list"
    /\ UNCHANGED <<company, identified, handle, handleKey, started, stage, workVars, failed,
                   signals, alarm, active, closing>>

(* Mutant: results for another company are dropped.                        *)
DropForeignResult(j) ==
    IF jobKey[j] = Key(company)
      THEN handle' = NoEvent /\ panel' = "list" /\ AdoptProfile(company)
      ELSE UNCHANGED <<handle, panel, identified>>

(***************************************************************************)
(* The finished signal of crawl j is handled.  A result for another        *)
(* company than the current one frees the handle if it has the id of the   *)
(* last crawl started; a result for the current company frees it whichever *)
(* crawl it belongs to, and is shown; its candidates may have changed the  *)
(* profile.                                                                *)
(***************************************************************************)
ShowResult(j) ==
    IF jobKey[j] = Key(company)
      THEN handle' = NoEvent /\ panel' = "list" /\ AdoptProfile(company)
      ELSE /\ handle' = IF jobKey[j] = handleKey THEN NoEvent ELSE handle
           /\ UNCHANGED <<panel, identified>>

(* Mutant: an error only frees the handle.                                 *)
HideError(j) ==
    /\ handle' = IF startKey[j] = handleKey THEN NoEvent ELSE handle
    /\ UNCHANGED <<panel, identified>>

(* The error signal carries the id that the page computed at the start.    *)
ShowError(j) ==
    /\ UNCHANGED identified
    /\ IF startKey[j] = Key(company)
         THEN handle' = NoEvent /\ panel' = "error"
         ELSE /\ handle' = IF startKey[j] = handleKey THEN NoEvent ELSE handle
              /\ UNCHANGED panel

Deliver ==
    /\ signals # << >>
    /\ LET j == Head(signals)
       IN  /\ IF j \in failed THEN ShowError(j) ELSE ShowResult(j)
           /\ stage' = [stage EXCEPT ![j] = "done"]
    /\ signals' = Tail(signals)
    /\ UNCHANGED <<company, handleKey, started, workVars, failed, alarm, active, closing>>

(***************************************************************************)
(* shutdown: set the handle, have the service set the events it knows, and *)
(* drop the workers that have no thread yet.  One step: what a worker does *)
(* between two of these statements, it could as well do before or after,   *)
(* and setting the handle first is what Cancel does.                       *)
(***************************************************************************)
Shutdown ==
    /\ ~closing
    /\ closing' = TRUE
    /\ alarm' = alarm \cup active \cup ({handle} \ {NoEvent})
    /\ stage' = [j \in Crawls |-> IF stage[j] = "queued" THEN "dropped" ELSE stage[j]]
    /\ UNCHANGED <<pageVars, started, workVars, failed, signals, active>>

-----------------------------------------------------------------------------

(* The pool hands the oldest queued worker to a free thread.               *)
RunWorker(j) ==
    /\ stage[j] = "queued"
    /\ \A k \in Crawls : stage[k] = "queued" => j <= k
    /\ Cardinality({k \in Crawls : stage[k] \in OnThread}) < Threads
    /\ stage' = [stage EXCEPT ![j] = "thread"]
    /\ UNCHANGED <<pageVars, started, workVars, failed, signals, alarm, active, closing>>

(* _run_web_evidence_crawl evaluates the arguments of crawl(): first the   *)
(* company's id ...                                                        *)
ReadKey(j) ==
    /\ stage[j] = "thread"
    /\ jobKey' = [jobKey EXCEPT ![j] = Key(owner[j])]
    /\ stage' = [stage EXCEPT ![j] = "keyed"]
    /\ UNCHANGED <<pageVars, started, owner, startKey, event, failed, signals, alarm, active,
                   closing>>

(* Mutant: crawl() does without an event when it is handed none.           *)
ReadBareHandle(j) ==
    /\ stage[j] = "keyed"
    /\ event' = [event EXCEPT ![j] = handle]
    /\ stage' = [stage EXCEPT ![j] = "called"]
    /\ UNCHANGED <<pageVars, started, owner, startKey, jobKey, failed, signals, alarm, active,
                   closing>>

(* ... and last the handle as it is by then; without one, crawl() makes    *)
(* an event of its own.                                                    *)
ReadHandle(j) ==
    /\ stage[j] = "keyed"
    /\ event' = [event EXCEPT ![j] = IF handle = NoEvent THEN OwnEvent(j) ELSE handle]
    /\ stage' = [stage EXCEPT ![j] = "called"]
    /\ UNCHANGED <<pageVars, started, owner, startKey, jobKey, failed, signals, alarm, active,
                   closing>>

(* The end of a worker: its result, or its exception, is queued.           *)
Return(j) ==
    /\ failed' \in {failed, failed \cup {j}}
    /\ signals' = Append(signals, j)
    /\ stage' = [stage EXCEPT ![j] = "posted"]

(* crawl(): a set event ends it before it gets a slot; else the event is   *)
(* registered.  There are as many slots as threads.                        *)
EnterCrawl(j) ==
    /\ stage[j] = "called"
    /\ \/ /\ Cancelled(j)
          /\ Return(j)
          /\ UNCHANGED active
       \/ /\ ~Cancelled(j)
          /\ active' = active \cup {event[j]}
          /\ stage' = [stage EXCEPT ![j] = "crawling"]
          /\ UNCHANGED <<failed, signals>>
    /\ UNCHANGED <<pageVars, started, workVars, alarm, closing>>

(* crawl() returns or raises; its event is no longer registered, even if   *)
(* another crawl runs under the same event.                                *)
LeaveCrawl(j) ==
    /\ stage[j] = "crawling"
    /\ active' = active \ {event[j]}
    /\ Return(j)
    /\ UNCHANGED <<pageVars, started, workVars, alarm, closing>>

Work(j) == RunWorker(j) \/ ReadKey(j) \/ ReadHandle(j) \/ EnterCrawl(j) \/ LeaveCrawl(j)

-----------------------------------------------------------------------------

Next ==
    \/ \E c \in Companies : Open(c)
    \/ Identify \/ Start \/ Cancel \/ RefreshEvidence \/ Deliver \/ Shutdown
    \/ \E j \in Crawls : Work(j)

(* Threads run, crawls return (CrawlService!CallsReturn) and the interface *)
(* thread handles its signals.  The user is free to do nothing.            *)
Spec == Init /\ [][Next]_vars

FairSpec == Spec /\ WF_vars(Deliver) /\ \A j \in Crawls : WF_vars(Work(j))

-----------------------------------------------------------------------------

(* Every variable has its type, and a crawl past its call has an event,    *)
(* its own or the page's, that can be set.                                 *)
TypeOK ==
    /\ company \in Companies \cup {NoCompany}
    /\ identified \subseteq Companies
    /\ handle \in Crawls \cup {NoEvent}
    /\ handleKey \in Keys
    /\ panel \in {"list", "loading", "error"}
    /\ started \in 0..MaxCrawls
    /\ stage \in [Crawls -> {"new", "queued", "posted"} \cup OnThread \cup Over]
    /\ owner \in [Crawls -> Companies \cup {NoCompany}]
    /\ startKey \in [Crawls -> Keys]
    /\ jobKey \in [Crawls -> Keys]
    /\ event \in [Crawls -> Events \cup {NoEvent}]
    /\ \A j \in Crawls : stage[j] \in {"called", "crawling"} => event[j] # NoEvent
    /\ failed \subseteq Crawls
    /\ signals \in Seq(Crawls)
    /\ alarm \subseteq Events
    /\ active \subseteq Events
    /\ closing \in BOOLEAN

(* A new crawl is never born under an event made for an earlier crawl,     *)
(* which may already be set: its event is its own, or that of a crawl      *)
(* started later, which it read too late.                                  *)
NoCrawlUnderOldEvent ==
    \A j \in Crawls : event[j] # NoEvent => event[j] >= j

(* company_detail.py:763 refuses a start because a crawl is running.  That *)
(* is so: whenever the handle blocks the button, the crawl it was made for *)
(* is not over, unless the company's id changed between the start and the  *)
(* thread's own look at it.                                                *)
BlockedOnlyByCrawl ==
    \A j \in Crawls :
        handle = j /\ j \notin alarm /\ stage[j] = "done" => jobKey[j] # startKey[j]

(* The list shows the loading state only while the last crawl started is   *)
(* one of the current company and not over, unless that company's id       *)
(* changed after the start: no result or error of any crawl, in whatever   *)
(* order they come, leaves the page waiting.                               *)
LoadingMeansCrawling ==
    panel = "loading" =>
        /\ started \in Crawls
        /\ owner[started] = company
        /\ stage[started] = "done" => startKey[started] # Key(company)

(* However the user switches, cancels and restarts, a crawl that blocks    *)
(* new ones stops doing so, or the user has cancelled it, or its company   *)
(* has changed its id.                                                     *)
StartAllowedAgain ==
    \A j \in Crawls :
        (handle = j /\ j \notin alarm)
          ~> (handle # j \/ j \in alarm \/ startKey[j] # Key(owner[j]))

(* docs/web_evidence.md:53: application shutdown requests safe             *)
(* cancellation: a crawl that runs after shutdown has been told to stop.   *)
ShutdownReachesCrawls ==
    closing => \A j \in Crawls : stage[j] = "crawling" => Cancelled(j)
=============================================================================
