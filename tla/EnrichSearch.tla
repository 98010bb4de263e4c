---------------------------- MODULE EnrichSearch ----------------------------
(***************************************************************************)
(* enrich_search: the remote providers are asked in a pool of three        *)
(* threads that belongs to the call, which waits five seconds for them.    *)
(* What comes of it goes into the cache on disk for six hours and into the *)
(* health of the providers, which concurrent searches share without a lock.*)
(***************************************************************************)
EXTENDS ProviderHealth

CONSTANTS
    Remote,        \* the remote providers of a search, in order
    Unconfigured,  \* remote providers that need a key and have none
    PoolWorkers    \* MAX_BACKGROUND_PROVIDER_WORKERS

ASSUME EnrichAssumption == Remote \in Seq(Providers) /\ PoolWorkers \in Nat \ {0}

VARIABLES
    disk,        \* the ApiCache: answers of the remote stage by key
    future,      \* what became of a call, until the search has looked at it
    harvest,     \* finished futures enrich_search has still to look at
    late,        \* unfinished ones it has still to report
    noting,      \* the health record in progress
    reported     \* errors recorded of a provider so far, counted up to the threshold

noteVars == <<noting, healthVars, reported>>

enrichVars == <<callVars, disk, future, harvest, late, noteVars>>

-----------------------------------------------------------------------------

RemoteSet == {Remote[i] : i \in DOMAIN Remote}

Idle == [step |-> "none"]

(* record_error begins by reading the counter. *)
BeginError(s, p, outcome) ==
    /\ noting' = [noting EXCEPT ![s] =
                    [step |-> "store", of |-> p, outcome |-> outcome, read |-> failures[p]]]
    /\ reported' = [reported EXCEPT ![p] = Counted(@)]

BeginSuccess(s, p, outcome) ==
    /\ noting' = [noting EXCEPT ![s] =
                    [step |-> "reset", of |-> p, outcome |-> outcome, read |-> 0]]
    /\ UNCHANGED reported

Running(s) == {p \in RemoteSet : future[s][p] = "running"}

Finished(s) == {p \in RemoteSet : future[s][p] \in Outcomes}

-----------------------------------------------------------------------------

EnrichInit ==
    /\ CallsInit
    /\ HealthInit
    /\ disk = [k \in SearchKeys |-> {}]
    /\ future = [s \in Searches |-> [p \in RemoteSet |-> "none"]]
    /\ harvest = [s \in Searches |-> {}]
    /\ late = [s \in Searches |-> {}]
    /\ noting = [s \in Searches |-> Idle]
    /\ reported = [p \in Providers |-> 0]

(* enrich_search returns: its key, its cancel event and its calls go with  *)
(* it.  A call still running ends some time, but nobody looks at it.       *)
EnrichReturns(s) ==
    /\ searchStage' = [searchStage EXCEPT ![s] = "over"]
    /\ searchKey' = [searchKey EXCEPT ![s] = NoKey]
    /\ searchAlarm' = searchAlarm \ {s}
    /\ gathered' = [gathered EXCEPT ![s] = Nothing]
    /\ future' = [future EXCEPT ![s] = [p \in RemoteSet |-> "none"]]

(* Providers of the remote stage that are asked, and the others.           *)
Runnable == {p \in RemoteSet : p \notin Unconfigured /\ ~ShouldSkip(p)}

(* The head of enrich_search, up to the submission of the calls: with a    *)
(* cached answer of this key, unless it is six hours old, it ends here.    *)
EnrichStart(s, k) ==
    /\ searchStage[s] = "none"
    /\ \/ /\ Cancelled(s) \/ disk[k] # {}
          /\ EnrichReturns(s)
       \/ /\ ~Cancelled(s)
          /\ searchStage' = [searchStage EXCEPT ![s] = "waiting"]
          /\ searchKey' = [searchKey EXCEPT ![s] = k]
          /\ future' = [future EXCEPT ![s] =
                          [p \in RemoteSet |-> IF p \in Runnable THEN "queued" ELSE "none"]]
          /\ gathered' = [gathered EXCEPT ![s].excused = RemoteSet \ Runnable]
          /\ UNCHANGED searchAlarm
    /\ UNCHANGED <<disk, harvest, late, noteVars>>

(* A pool thread takes up the first call that waits. *)
CallStarts(s, p) ==
    /\ future[s][p] = "queued"
    /\ Cardinality(Running(s)) < PoolWorkers
    /\ \A i, j \in DOMAIN Remote :
          Remote[j] = p /\ i < j => future[s][Remote[i]] # "queued"
    /\ future' = [future EXCEPT ![s][p] = IF Cancelled(s) THEN "void" ELSE "running"]
    /\ UNCHANGED <<callVars, disk, harvest, late, noteVars>>

(* _search_enrichment_provider returns: without anything if the search has *)
(* been cancelled meanwhile.                                               *)
CallReturns(s, p) ==
    /\ future[s][p] = "running"
    /\ \E o \in IF Cancelled(s) THEN {"void"}
                 ELSE Errors \cup {IF p \in Knows[searchKey[s]] THEN "rows" ELSE "empty"} :
          future' = [future EXCEPT ![s][p] = o]
    /\ UNCHANGED <<callVars, disk, harvest, late, noteVars>>

(* The wait is over: every call has returned or five seconds have passed.  *)
(* What the others return later is lost.                                   *)
WaitEnds(s) ==
    /\ searchStage[s] = "waiting"
    /\ IF Cancelled(s)
       THEN /\ EnrichReturns(s)
            /\ UNCHANGED <<harvest, late>>
       ELSE /\ searchStage' = [searchStage EXCEPT ![s] = "recording"]
            /\ harvest' = [harvest EXCEPT ![s] = Finished(s)]
            /\ late' = [late EXCEPT ![s] =
                          {p \in RemoteSet : future[s][p] \in {"queued", "running"}}]
            /\ future' = [future EXCEPT ![s] =
                            [p \in RemoteSet |-> IF @[p] \in Outcomes THEN @[p] ELSE "none"]]
            /\ UNCHANGED <<searchKey, searchAlarm, gathered>>
    /\ UNCHANGED <<disk, noteVars>>

(* Rows and excuses with the outcome o of p; an error may come with rows.  *)
Gatherings(s, p, o) ==
    LET g == gathered[s]
        found == {p} \cap Knows[searchKey[s]]
    IN  CASE o = "rows" -> {[g EXCEPT !.rows = @ \cup {p}]}
          [] o \in Errors -> {[g EXCEPT !.rows = @ \cup r, !.excused = @ \cup {p}] :
                              r \in {{}, found}}
          [] OTHER -> {g}

(* Mutant: an error that is not worth a retry counts as an answer.         *)
HarvestNextLenient(s, p) ==
    /\ searchStage[s] = "recording"
    /\ noting[s] = Idle
    /\ p \in harvest[s]
    /\ harvest' = [harvest EXCEPT ![s] = @ \ {p}]
    /\ \E g \in Gatherings(s, p, future[s][p]) : gathered' = [gathered EXCEPT ![s] = g]
    /\ IF future[s][p] = "retryable" THEN BeginError(s, p, future[s][p])
                                     ELSE BeginSuccess(s, p, future[s][p])
    /\ future' = [future EXCEPT ![s][p] = "none"]
    /\ UNCHANGED <<searchStage, searchKey, searchAlarm, disk, late, healthVars>>

(* The loop over the finished calls takes the next one; it breaks off when *)
(* the search is cancelled.  An answer is a success for the tracker.       *)
HarvestNext(s, p) ==
    /\ searchStage[s] = "recording"
    /\ noting[s] = Idle
    /\ p \in harvest[s]
    /\ IF Cancelled(s)
       THEN /\ harvest' = [harvest EXCEPT ![s] = {}]
            /\ UNCHANGED <<gathered, future, noting, reported>>
       ELSE /\ harvest' = [harvest EXCEPT ![s] = @ \ {p}]
            /\ \E g \in Gatherings(s, p, future[s][p]) :
                  gathered' = [gathered EXCEPT ![s] = g]
            /\ IF future[s][p] \in Errors THEN BeginError(s, p, future[s][p])
                                           ELSE BeginSuccess(s, p, future[s][p])
            /\ future' = [future EXCEPT ![s][p] = "none"]
    /\ UNCHANGED <<searchStage, searchKey, searchAlarm, disk, late, healthVars>>

(* A call that is late counts as a timeout, whether it has begun or not,   *)
(* and whether or not it has returned in the meantime.                     *)
LateNext(s, p) ==
    /\ searchStage[s] = "recording"
    /\ noting[s] = Idle
    /\ harvest[s] = {}
    /\ p \in late[s]
    /\ late' = [late EXCEPT ![s] = @ \ {p}]
    /\ gathered' = [gathered EXCEPT ![s].excused = @ \cup {p}]
    /\ BeginError(s, p, "retryable")
    /\ UNCHANGED <<searchStage, searchKey, searchAlarm, disk, future, harvest, healthVars>>

(* The rest of record_error and record_success, write by write. *)
RecordHealth(s) ==
    LET n == noting[s]
    IN  /\ \/ /\ n.step = "store"
              /\ StoreFailure(n.of, n.read, n.outcome)
              /\ noting' = [noting EXCEPT ![s].step = "judge", ![s].read = 0]
           \/ /\ n.step = "judge"
              /\ JudgeFailure(n.of, n.outcome)
              /\ noting' = [noting EXCEPT ![s] = Idle]
           \/ /\ n.step = "reset"
              /\ ResetFailures(n.of)
              /\ noting' = [noting EXCEPT ![s].step = "lift"]
           \/ /\ n.step = "lift"
              /\ LiftPause(n.of)
              /\ noting' = [noting EXCEPT ![s] = Idle]
        /\ UNCHANGED <<callVars, disk, future, harvest, late, reported>>

(* Mutant: the answer is stored before the last look at the cancel event.  *)
EnrichEndEager(s) ==
    /\ searchStage[s] = "recording"
    /\ noting[s] = Idle
    /\ harvest[s] = {} /\ late[s] = {}
    /\ disk' = [disk EXCEPT ![searchKey[s]] = {gathered[s]}]
    /\ EnrichReturns(s)
    /\ UNCHANGED <<harvest, late, noteVars>>

(* Ranking, the cache and the merged answer. *)
EnrichEnd(s) ==
    /\ searchStage[s] = "recording"
    /\ noting[s] = Idle
    /\ harvest[s] = {} /\ late[s] = {}
    /\ EnrichReturns(s)
    /\ disk' = IF Cancelled(s) THEN disk
               ELSE [disk EXCEPT ![searchKey[s]] = {gathered[s]}]
    /\ UNCHANGED <<harvest, late, noteVars>>

BackoffEnds(p) ==
    /\ BackoffExpires(p)
    /\ UNCHANGED <<callVars, disk, future, harvest, late, noting, reported>>

EnrichNext ==
    \/ \E s \in Searches :
          \/ SetAlarm(s) /\ UNCHANGED <<disk, future, harvest, late, noteVars>>
          \/ \E k \in SearchKeys : EnrichStart(s, k)
          \/ \E p \in RemoteSet :
                CallStarts(s, p) \/ CallReturns(s, p) \/ HarvestNext(s, p) \/ LateNext(s, p)
          \/ WaitEnds(s)
          \/ RecordHealth(s)
          \/ EnrichEnd(s)
    \/ \E p \in RemoteSet : BackoffEnds(p)

EnrichSpec == EnrichInit /\ [][EnrichNext]_enrichVars

-----------------------------------------------------------------------------

(* Of the remote answers kept for six hours: a provider that failed, was   *)
(* late or paused, or gave up because its search was cancelled, is never   *)
(* cached as one that knows nothing.                                       *)
DiskIsAccounted ==
    \A k \in SearchKeys : \A e \in disk[k] : Accounted(k, RemoteSet, e)

(* However the unlocked updates of its counter interleave, a provider is   *)
(* paused only after as many errors as the threshold have been recorded.   *)
(* And its failures are forgotten only for an answer it gave, or an error  *)
(* that says no key is set; never for a call that came back empty-handed   *)
(* because its search had been cancelled.                                  *)
HealthIsEarned ==
    /\ [](\A p \in paused : reported[p] >= Threshold)
    /\ [][\A p \in RemoteSet :
             failures[p] # 0 /\ failures'[p] = 0
               => \E s \in Searches : noting[s] # Idle /\ noting[s].of = p
                                         /\ noting[s].outcome \in Answers \cup {"unset"}]_enrichVars
=============================================================================
