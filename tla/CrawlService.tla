---------------------------- MODULE CrawlService ----------------------------
(***************************************************************************)
(* WebEvidenceService.crawl (services/web_evidence_service.py) as run by   *)
(* several threads at once: the two job slots, the per-host locks, the     *)
(* robots.txt cache, cancellation, the job deadline, shutdown, exceptions  *)
(* and the status a job ends with.                                         *)
(*                                                                         *)
(* A job is one call of crawl().  Of a page the model keeps its host; what *)
(* a response holds, and how many links a page adds to the queue, are      *)
(* nondeterministic.  Time is abstract: the deadline of a job passes at    *)
(* some moment after its start, and the delay after a request is over at   *)
(* some moment after that request.                                         *)
(*                                                                         *)
(* Each call is taken to have a cancel event of its own.  CrawlPage shows  *)
(* when the company page hands one event to two calls.                     *)
(***************************************************************************)
EXTENDS Integers, FiniteSets

CONSTANTS
    Jobs,      \* calls of crawl()
    Hosts,     \* hosts of the pages
    Nobody,    \* holder of a free host lock, host of a job without a page
    Slots,     \* permits of _job_slots
    MaxPages,  \* page budget of a job (CrawlPolicy.max_pages_per_domain)
    MaxQueue   \* pages waiting in a job's queue, at most

ASSUME ServiceAssumption ==
    /\ IsFiniteSet(Jobs)
    /\ Nobody \notin Jobs \cup Hosts
    /\ Slots \in Nat
    /\ MaxPages \in Nat \ {0}
    /\ MaxQueue \in Nat \ {0}

VARIABLES
    pc,        \* where the thread of each job stands
    event,     \* the jobs whose cancel event is set
    expired,   \* the jobs whose deadline has passed
    queue,     \* number of pages in the job's queue
    pages,     \* job.pages_processed
    host,      \* host of the page being processed
    items,     \* the jobs that collected an item
    skipped,   \* the jobs that skipped a URL
    error,     \* job.error_type ("cancelled" stands for job.cancelled too)
    row,       \* job.status as last saved to crawl_jobs, "absent" before that
    raised,    \* the jobs that crawl() left by an exception
    free,      \* free permits of _job_slots
    active,    \* _active_cancel_events
    hostLock,  \* holder of each host's lock
    robots,    \* hosts whose robots.txt is cached
    last       \* last_request_at: what a job knows of its last request to a host

jobVars == <<queue, pages, host, items, skipped, error, row, raised>>

vars == <<pc, event, expired, jobVars, free, active, hostLock, robots, last>>

-----------------------------------------------------------------------------

Terminal == {"success", "partial", "failed", "blocked", "empty", "cancelled"}

(* Program points at which the job holds a slot. *)
HoldsSlot == {"register", "start", "loop", "robots", "robots_fetch", "lock_check",
              "lock_wait", "delay", "fetch", "respond", "item", "unregister", "free_slot"}

(* Program points inside the try block of crawl(). *)
Registered == HoldsSlot \ {"register", "free_slot"}

(* Program points inside the host lock. *)
HoldsHost == {"delay", "fetch"}

Outside == {"new", "slot_check", "slot_wait", "returned"}

(* A request to a host lies less than the delay back, or at least that.    *)
LastRequest == {"never", "recent", "past"}

Goto(j, label) == pc' = [pc EXCEPT ![j] = label]

(***************************************************************************)
(* The status _finish gives a job, from job.cancelled, result.items,       *)
(* result.skipped_urls and job.error_type.                                 *)
(***************************************************************************)
FinalStatus(hasItems, hasSkipped, err) ==
    IF err = "cancelled" THEN "cancelled"
    ELSE IF hasItems THEN IF hasSkipped \/ err # "" THEN "partial" ELSE "success"
    ELSE IF err # "" THEN "failed"
    ELSE IF hasSkipped THEN "blocked" ELSE "empty"

Init ==
    /\ pc = [j \in Jobs |-> "new"]
    /\ event = {}
    /\ expired = {}
    /\ queue = [j \in Jobs |-> 0]
    /\ pages = [j \in Jobs |-> 0]
    /\ host = [j \in Jobs |-> Nobody]
    /\ items = {}
    /\ skipped = {}
    /\ error = [j \in Jobs |-> ""]
    /\ row = [j \in Jobs |-> "absent"]
    /\ raised = {}
    /\ free = Slots
    /\ active = {}
    /\ hostLock = [h \in Hosts |-> Nobody]
    /\ robots = {}
    /\ last = [j \in Jobs |-> [h \in Hosts |-> "never"]]

-----------------------------------------------------------------------------

(* crawl() is called: without a seed URL the job fails at once.            *)
Call(j) ==
    /\ pc[j] = "new"
    /\ \/ /\ Goto(j, "slot_check")
          /\ UNCHANGED <<error, row>>
       \/ /\ Goto(j, "returned")
          /\ error' = [error EXCEPT ![j] = "invalid_url"]
          /\ row' = [row EXCEPT ![j] = FinalStatus(FALSE, FALSE, "invalid_url")]
    /\ UNCHANGED <<event, expired, queue, pages, host, items, skipped, raised, free,
                   active, hostLock, robots, last>>

(* The loop of _acquire_slot: the event is looked at before each wait.     *)
CheckSlot(j) ==
    /\ pc[j] = "slot_check"
    /\ \/ /\ j \notin event
          /\ Goto(j, "slot_wait")
          /\ UNCHANGED <<error, row>>
       \/ /\ j \in event
          /\ Goto(j, "returned")
          /\ error' = [error EXCEPT ![j] = "cancelled"]
          /\ row' = [row EXCEPT ![j] = "cancelled"]
    /\ UNCHANGED <<event, expired, queue, pages, host, items, skipped, raised, free,
                   active, hostLock, robots, last>>

(* One wait of 0.1 seconds for a permit: it is granted or the loop goes on. *)
WaitSlot(j) ==
    /\ pc[j] = "slot_wait"
    /\ \/ /\ free > 0
          /\ free' = free - 1
          /\ Goto(j, "register")
       \/ /\ free = 0
          /\ Goto(j, "slot_check")
          /\ UNCHANGED free
    /\ UNCHANGED <<event, expired, jobVars, active, hostLock, robots, last>>

Register(j) ==
    /\ pc[j] = "register"
    /\ active' = active \cup {j}
    /\ Goto(j, "start")
    /\ UNCHANGED <<event, expired, jobVars, free, hostLock, robots, last>>

(***************************************************************************)
(* The beginning of _crawl_locked: rejected seeds are skipped; the accepted *)
(* ones are queued and the row says "running".                             *)
(***************************************************************************)
StartJob(j) ==
    /\ pc[j] = "start"
    /\ \/ \E n \in 1..MaxQueue :
            /\ queue' = [queue EXCEPT ![j] = n]
            /\ row' = [row EXCEPT ![j] = "running"]
            /\ skipped' \in {skipped, skipped \cup {j}}
            /\ Goto(j, "loop")
       \/ /\ skipped' = skipped \cup {j}
          /\ row' = [row EXCEPT ![j] = FinalStatus(FALSE, TRUE, error[j])]
          /\ Goto(j, "unregister")
          /\ UNCHANGED queue
    /\ UNCHANGED <<event, expired, pages, host, items, error, raised, free, active,
                   hostLock, robots, last>>

(* Mutant: the status is chosen before the error is noted.                 *)
FinishStale(j, err) ==
    /\ error' = [error EXCEPT ![j] = err]
    /\ row' = [row EXCEPT ![j] = FinalStatus(j \in items, j \in skipped, error[j])]
    /\ Goto(j, "unregister")

(* Mutant: a cancelled job is not saved again.                             *)
FinishUnsaved(j, err) ==
    /\ error' = [error EXCEPT ![j] = err]
    /\ row' = IF err = "cancelled" THEN row
              ELSE [row EXCEPT ![j] = FinalStatus(j \in items, j \in skipped, err)]
    /\ Goto(j, "unregister")

Finish(j, err) ==
    /\ error' = [error EXCEPT ![j] = err]
    /\ row' = [row EXCEPT ![j] = FinalStatus(j \in items, j \in skipped, err)]
    /\ Goto(j, "unregister")

MorePages(j) == queue[j] > 0 /\ pages[j] < MaxPages

(* The page loop ends: nothing left, the event is set, or time is up.      *)
EndLoop(j) ==
    /\ pc[j] = "loop"
    /\ \/ ~MorePages(j) /\ Finish(j, error[j])
       \/ MorePages(j) /\ j \in event /\ Finish(j, "cancelled")
       \/ MorePages(j) /\ j \notin event /\ j \in expired /\ Finish(j, "timeout")
    /\ UNCHANGED <<event, expired, queue, pages, host, items, skipped, raised, free,
                   active, hostLock, robots, last>>

(***************************************************************************)
(* The next page leaves the queue.  One already processed does not count;  *)
(* one that the URL checks refuse is skipped; any other goes on to the     *)
(* robots.txt check.                                                       *)
(***************************************************************************)
TakePage(j) ==
    /\ pc[j] = "loop"
    /\ MorePages(j)
    /\ j \notin event \cup expired
    /\ queue' = [queue EXCEPT ![j] = @ - 1]
    /\ \/ UNCHANGED <<pc, pages, host, skipped>>
       \/ /\ pages' = [pages EXCEPT ![j] = @ + 1]
          /\ skipped' = skipped \cup {j}
          /\ UNCHANGED <<pc, host>>
       \/ \E h \in Hosts :
            /\ pages' = [pages EXCEPT ![j] = @ + 1]
            /\ host' = [host EXCEPT ![j] = h]
            /\ Goto(j, "robots")
            /\ UNCHANGED skipped
    /\ UNCHANGED <<event, expired, items, error, row, raised, free, active, hostLock,
                   robots, last>>

LeavePage(j) ==
    /\ host' = [host EXCEPT ![j] = Nobody]
    /\ Goto(j, "loop")

(***************************************************************************)
(* The verdict of robots.txt on the page: disallowed pages are skipped, a  *)
(* PDF or a page with unexpired evidence needs no request, and any other   *)
(* page is requested under the host's lock.                                *)
(***************************************************************************)
Verdict(j) ==
    \/ skipped' = skipped \cup {j} /\ LeavePage(j)
    \/ Goto(j, "item") /\ UNCHANGED <<skipped, host>>
    \/ Goto(j, "lock_check") /\ UNCHANGED <<skipped, host>>

(* RobotsPolicy looks into its cache under its own lock ...                *)
LookupRobots(j) ==
    /\ pc[j] = "robots"
    /\ \/ host[j] \in robots /\ Verdict(j)
       \/ host[j] \notin robots /\ Goto(j, "robots_fetch") /\ UNCHANGED <<skipped, host>>
    /\ UNCHANGED <<event, expired, queue, pages, items, error, row, raised, free, active,
                   hostLock, robots, last>>

(* ... and requests robots.txt outside of it, and of the host's lock.      *)
FetchRobots(j) ==
    /\ pc[j] = "robots_fetch"
    /\ robots' = robots \cup {host[j]}
    /\ Verdict(j)
    /\ UNCHANGED <<event, expired, queue, pages, items, error, row, raised, free, active,
                   hostLock, last>>

(* The loop of _acquire_domain_lock: event, then deadline, then a wait.    *)
CheckHostLock(j) ==
    /\ pc[j] = "lock_check"
    /\ \/ /\ j \notin event \cup expired
          /\ Goto(j, "lock_wait")
          /\ UNCHANGED <<host, skipped, error>>
       \/ /\ j \in event
          /\ error' = [error EXCEPT ![j] = "cancelled"]
          /\ LeavePage(j)
          /\ UNCHANGED skipped
       \/ /\ j \in expired \ event
          /\ skipped' = skipped \cup {j}
          /\ LeavePage(j)
          /\ UNCHANGED error
    /\ UNCHANGED <<event, expired, queue, pages, items, row, raised, free, active,
                   hostLock, robots, last>>

(* Mutant: a wait that timed out counts as a wait that was granted.        *)
ProceedWithoutLock(j) ==
    /\ pc[j] = "lock_wait"
    /\ hostLock' = [hostLock EXCEPT ![host[j]] = j]
    /\ Goto(j, "delay")
    /\ UNCHANGED <<event, expired, jobVars, free, active, robots, last>>

WaitHostLock(j) ==
    /\ pc[j] = "lock_wait"
    /\ \/ /\ hostLock[host[j]] = Nobody
          /\ hostLock' = [hostLock EXCEPT ![host[j]] = j]
          /\ Goto(j, "delay")
       \/ /\ hostLock[host[j]] # Nobody
          /\ Goto(j, "lock_check")
          /\ UNCHANGED hostLock
    /\ UNCHANGED <<event, expired, jobVars, free, active, robots, last>>

Unlock(h) == hostLock' = [hostLock EXCEPT ![h] = Nobody]

(* Mutant: the wait for the delay is a plain sleep.                        *)
SleepDelay(j) ==
    /\ pc[j] = "delay"
    /\ last[j][host[j]] # "recent"
    /\ \/ /\ j \notin event \cup expired
          /\ Goto(j, "fetch")
          /\ UNCHANGED <<host, error, hostLock>>
       \/ /\ j \in event \cup expired
          /\ error' = [error EXCEPT ![j] = IF j \in event THEN "cancelled" ELSE "timeout"]
          /\ Unlock(host[j])
          /\ LeavePage(j)
    /\ UNCHANGED <<event, expired, queue, pages, items, skipped, row, raised, free,
                   active, robots, last>>

(* Mutant: the early returns from the wait keep the host's lock.           *)
KeepLockOnReturn(j) ==
    /\ pc[j] = "delay"
    /\ \/ /\ j \notin event
          /\ last[j][host[j]] # "recent"
          /\ Goto(j, "fetch")
          /\ UNCHANGED <<host, error>>
       \/ /\ j \in event \cup expired
          /\ error' = [error EXCEPT ![j] = IF j \in event THEN "cancelled" ELSE "timeout"]
          /\ LeavePage(j)
    /\ UNCHANGED <<event, expired, queue, pages, items, skipped, row, raised, free,
                   active, hostLock, robots, last>>

(***************************************************************************)
(* _wait_for_domain_delay, with the host's lock held.  The delay is the    *)
(* one after this job's own last request to the host; setting the event    *)
(* ends the wait, the deadline bounds it.  The first request of a job to a *)
(* host does not look at the deadline.                                     *)
(***************************************************************************)
WaitDelay(j) ==
    /\ pc[j] = "delay"
    /\ \/ /\ j \notin event
          /\ \/ last[j][host[j]] = "never"
             \/ last[j][host[j]] = "past" /\ j \notin expired
          /\ Goto(j, "fetch")
          /\ UNCHANGED <<host, error, hostLock>>
       \/ /\ j \in event
          /\ error' = [error EXCEPT ![j] = "cancelled"]
          /\ Unlock(host[j])
          /\ LeavePage(j)
       \/ /\ j \in expired \ event
          /\ last[j][host[j]] # "never"
          /\ error' = [error EXCEPT ![j] = "timeout"]
          /\ Unlock(host[j])
          /\ LeavePage(j)
    /\ UNCHANGED <<event, expired, queue, pages, items, skipped, row, raised, free,
                   active, robots, last>>

(* The request ends, with a response or an error; the lock is released.    *)
FetchPage(j) ==
    /\ pc[j] = "fetch"
    /\ last' = [last EXCEPT ![j][host[j]] = "recent"]
    /\ Unlock(host[j])
    /\ Goto(j, "respond")
    /\ UNCHANGED <<event, expired, jobVars, free, active, robots>>

(* Errors, empty or unusable responses and unsafe redirects are skipped.   *)
Respond(j) ==
    /\ pc[j] = "respond"
    /\ \/ skipped' = skipped \cup {j} /\ LeavePage(j)
       \/ Goto(j, "item") /\ UNCHANGED <<skipped, host>>
    /\ UNCHANGED <<event, expired, queue, pages, items, error, row, raised, free, active,
                   hostLock, robots, last>>

(***************************************************************************)
(* The item and its candidates are stored; its links are queued or         *)
(* skipped, as long as the queue is not full; the row is saved again.      *)
(***************************************************************************)
AddItem(j) ==
    /\ pc[j] = "item"
    /\ items' = items \cup {j}
    /\ \E n \in queue[j]..MaxQueue : queue' = [queue EXCEPT ![j] = n]
    /\ skipped' \in {skipped, skipped \cup {j}}
    /\ LeavePage(j)
    /\ UNCHANGED <<event, expired, pages, error, row, raised, free, active, hostLock,
                   robots, last>>

(* Mutant: what follows the page loop runs only without an exception.      *)
RaisePastFinally(j) ==
    /\ pc[j] \in {"start", "loop", "robots", "robots_fetch", "lock_check", "fetch",
                  "respond", "item"}
    /\ raised' = raised \cup {j}
    /\ host' = [host EXCEPT ![j] = Nobody]
    /\ Goto(j, "returned")
    /\ UNCHANGED <<event, expired, queue, pages, items, skipped, error, row, free, active,
                   hostLock, robots, last>>

(***************************************************************************)
(* An exception (the store refuses a row or the database is busy, the      *)
(* transport fails in an unforeseen way) leaves crawl(): the host's lock,  *)
(* if held, is released, and so are the event and the slot.  Before a slot *)
(* is held, only the save of a final row can fail.                         *)
(***************************************************************************)
Raise(j) ==
    /\ raised' = raised \cup {j}
    /\ \/ /\ \/ pc[j] = "new"
             \/ pc[j] = "slot_check" /\ j \in event
          /\ Goto(j, "returned")
          /\ UNCHANGED <<host, hostLock>>
       \/ /\ pc[j] \in {"start", "loop", "robots", "robots_fetch", "lock_check", "fetch",
                        "respond", "item"}
          /\ IF pc[j] = "fetch" THEN Unlock(host[j]) ELSE UNCHANGED hostLock
          /\ host' = [host EXCEPT ![j] = Nobody]
          /\ Goto(j, "unregister")
    /\ UNCHANGED <<event, expired, queue, pages, items, skipped, error, row, free, active,
                   robots, last>>

(* Mutant: the event of a job that is gone stays registered.               *)
KeepEvent(j) ==
    /\ pc[j] = "unregister"
    /\ Goto(j, "free_slot")
    /\ UNCHANGED <<event, expired, jobVars, free, active, hostLock, robots, last>>

(***************************************************************************)
(* The finally block of crawl(): first the event, then the slot.  What only *)
(* the job's own frames refer to is gone with them.                        *)
(***************************************************************************)
Unregister(j) ==
    /\ pc[j] = "unregister"
    /\ active' = active \ {j}
    /\ Goto(j, "free_slot")
    /\ queue' = [queue EXCEPT ![j] = 0]
    /\ pages' = [pages EXCEPT ![j] = 0]
    /\ items' = items \ {j}
    /\ skipped' = skipped \ {j}
    /\ error' = [error EXCEPT ![j] = ""]
    /\ expired' = expired \ {j}
    /\ last' = [last EXCEPT ![j] = [h \in Hosts |-> "never"]]
    /\ UNCHANGED <<event, host, row, raised, free, hostLock, robots>>

FreeSlot(j) ==
    /\ pc[j] = "free_slot"
    /\ free' = free + 1
    /\ Goto(j, "returned")
    /\ UNCHANGED <<event, expired, jobVars, active, hostLock, robots, last>>

-----------------------------------------------------------------------------

(* Whoever holds the event of a job sets it, even before the call.         *)
Cancel(j) ==
    /\ pc[j] # "returned"
    /\ j \notin event
    /\ event' = event \cup {j}
    /\ UNCHANGED <<pc, expired, jobVars, free, active, hostLock, robots, last>>

(* The deadline passes; only where the code looks at the clock does it     *)
(* matter when.                                                            *)
Expire(j) ==
    /\ pc[j] \in {"loop", "lock_check", "delay"}
    /\ j \notin expired
    /\ expired' = expired \cup {j}
    /\ UNCHANGED <<pc, event, jobVars, free, active, hostLock, robots, last>>

Cool(j, h) ==
    /\ last[j][h] = "recent"
    /\ last' = [last EXCEPT ![j][h] = "past"]
    /\ UNCHANGED <<pc, event, expired, jobVars, free, active, hostLock, robots>>

(* A cached robots.txt grows older than the cache keeps it.                *)
ForgetRobots(h) ==
    /\ h \in robots
    /\ robots' = robots \ {h}
    /\ UNCHANGED <<pc, event, expired, jobVars, free, active, hostLock, last>>

(* shutdown() copies the registered events and sets them.                  *)
Shutdown ==
    /\ event' = event \cup active
    /\ UNCHANGED <<pc, expired, jobVars, free, active, hostLock, robots, last>>

-----------------------------------------------------------------------------

(* The steps of the thread that runs job j. *)
Step(j) ==
    \/ CheckSlot(j) \/ WaitSlot(j) \/ Register(j) \/ StartJob(j)
    \/ EndLoop(j) \/ TakePage(j) \/ LookupRobots(j) \/ FetchRobots(j)
    \/ CheckHostLock(j) \/ WaitHostLock(j) \/ WaitDelay(j) \/ FetchPage(j)
    \/ Respond(j) \/ AddItem(j) \/ Unregister(j) \/ FreeSlot(j)

Next ==
    \/ \E j \in Jobs : Call(j) \/ Step(j) \/ Raise(j) \/ Cancel(j) \/ Expire(j)
    \/ \E h \in Hosts : ForgetRobots(h) \/ \E j \in Jobs : Cool(j, h)
    \/ Shutdown

Spec == Init /\ [][Next]_vars

(***************************************************************************)
(* The threads run: no step of a job waits longer than 0.1 seconds or the  *)
(* transport's timeout, except the delay after a request.  That delays     *)
(* pass is not assumed here but by CallsReturn; that a deadline comes to   *)
(* the rescue is assumed nowhere.                                          *)
(***************************************************************************)
FairSpec == Spec /\ \A j \in Jobs : WF_vars(Step(j))

-----------------------------------------------------------------------------

(* Every variable has its type.  The permits never exceed Slots: another   *)
(* release would be a ValueError of the BoundedSemaphore.                  *)
TypeOK ==
    /\ pc \in [Jobs -> HoldsSlot \cup Outside]
    /\ event \subseteq Jobs
    /\ expired \subseteq Jobs
    /\ queue \in [Jobs -> 0..MaxQueue]
    /\ pages \in [Jobs -> 0..MaxPages]
    /\ host \in [Jobs -> Hosts \cup {Nobody}]
    /\ items \subseteq Jobs
    /\ skipped \subseteq Jobs
    /\ error \in [Jobs -> {"", "invalid_url", "cancelled", "timeout"}]
    /\ row \in [Jobs -> Terminal \cup {"absent", "running"}]
    /\ raised \subseteq Jobs
    /\ free \in 0..Slots
    /\ active \subseteq Jobs
    /\ hostLock \in [Hosts -> Jobs \cup {Nobody}]
    /\ robots \subseteq Hosts
    /\ last \in [Jobs -> [Hosts -> LastRequest]]

Holders == {j \in Jobs : pc[j] \in HoldsSlot}

(* Whichever way the jobs end (row saved, cancelled, an exception), no     *)
(* permit of _job_slots is lost and none is released twice.                *)
SlotsAccounted == free + Cardinality(Holders) = Slots

(* A host's lock is held exactly while its holder waits for the delay or   *)
(* requests the page: no path out of the page, the exceptional ones        *)
(* included, leaves the lock behind.  With one holder per lock, two jobs   *)
(* never request pages of one host at once.                                *)
HostLocksAccounted ==
    \A h \in Hosts, j \in Jobs :
        hostLock[h] = j <=> pc[j] \in HoldsHost /\ host[j] = h

(* Seen through its slots and host locks, the service behaves as CrawlPool *)
(* promises: a bounded number of crawls, one page request per host.        *)
Pool == INSTANCE CrawlPool WITH
            running <- Holders,
            done <- {j \in Jobs : pc[j] = "returned"},
            using <- hostLock

PoolPromise == Pool!Spec

(* A call that returned normally has saved a final status: only an         *)
(* exception can leave a row "running" (or no row at all).                 *)
NoRowLeftRunning ==
    \A j \in Jobs : pc[j] = "returned" => j \in raised \/ row[j] \in Terminal

(* A row says "cancelled" only when somebody set the job's event.          *)
CancelledOnlyIfAsked == \A j \in Jobs : row[j] = "cancelled" => j \in event

(* "success" is never a shortened crawl: the job has processed every page  *)
(* it queued, or all its budget allows, and skipped nothing.               *)
SuccessMeansComplete ==
    \A j \in Jobs :
        pc[j] = "unregister" /\ row[j] = "success" => ~MorePages(j) /\ j \notin skipped

(* Whenever shutdown() copies _active_cancel_events, it finds the event of *)
(* every job that is past its registration and not yet in its finally      *)
(* block, and no event of a job that is gone: an exception or a cancelled  *)
(* wait neither hides a running job from shutdown nor leaves its event.    *)
ShutdownFindsRunning == active = {j \in Jobs : pc[j] \in Registered}

(* A cancelled call returns by its own thread's steps and the ends of      *)
(* requests under way: no delay has to pass, no deadline to come.          *)
CancelledCallsReturn ==
    \A j \in Jobs : j \in event /\ pc[j] # "new" ~> pc[j] = "returned"

(* Once delays pass, every call returns, cancelled or not, deadline or     *)
(* not: the waits for slots and host locks do not deadlock.                *)
CallsReturn ==
    (\A j \in Jobs, h \in Hosts : WF_vars(Cool(j, h)))
      => \A j \in Jobs : pc[j] = "slot_check" ~> pc[j] = "returned"

(* docs/web_evidence.md:9: at least one second between same-domain         *)
(* requests.                                                               *)
DelayBetweenRequests ==
    [][\A i, j \in Jobs :
         pc[j] = "delay" /\ pc'[j] = "fetch" => last[i][host[j]] # "recent"]_vars

(* docs/manual_qa_checklist_v0.1.5.md:72: the cancelled job displays       *)
(* status "cancelled".                                                     *)
CancelledJobSaysSo ==
    [][\A j \in Jobs :
         j \in event /\ row[j] = "running" /\ row'[j] \in Terminal
           => row'[j] = "cancelled"]_vars
=============================================================================
