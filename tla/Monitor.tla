------------------------------- MODULE Monitor -------------------------------
(***************************************************************************)
(* The monitoring database (db/, services/, event_engine/ and the pages    *)
(* over them): companies, documents, the events found in them, an alert    *)
(* for each event, the recycle bin, and the runs of the sources, which the *)
(* scheduler's thread and the pages' workers carry out.  Each handler of a *)
(* page is one transaction; an ingestion opens one to note its run, asks   *)
(* the network, looks for known contents and stores the others in a second *)
(* transaction, and notes a failure in a third.                            *)
(*                                                                         *)
(* Rows have the ids SQLite gives: one more than the largest in the table, *)
(* so the id of a deleted row may be given again.                          *)
(***************************************************************************)
EXTENDS Naturals, Sequences, FiniteSets, FiniteSetsExt

CONSTANTS
    Contents,       \* what sources may yield, up to content_hash
    Mentions,       \* the companies whose events the detector finds in a content
    MonitorThreads, \* the scheduler's thread and workers of the pool
    Sources,        \* sources that were configured and enabled
    MaxUserSteps,   \* transactions of the user, at most
    MaxIngestions   \* runs of all enabled sources started, at most

ASSUME MonitorAssumption ==
    /\ Mentions \in [Contents -> SUBSET {"k1", "k2"}]
    /\ IsFiniteSet(Sources)

VARIABLES
    companies,   \* rows of companies
    watchRows,   \* company ids with an active row of watchlist_items
    documents,   \* rows of documents, with the companies known when they were stored
    events,      \* rows of events; hidden stands for deleted_at
    alerts,      \* rows of alerts
    bin,         \* active rows of recycle_bin_items
    sources,     \* rows of sources
    enabled,     \* sources with enabled = True
    runs,        \* rows of source_runs
    thread,      \* where each ingestion stands
    userSteps, ingestions,
    purged,      \* <<content, company>> whose event the user removed for good
    reused,      \* an id was given a second time
    overlapped,  \* two ingestions looked for contents before either stored its own
    interrupted  \* a process ended, or a source was deleted, during a run

tableVars == <<companies, watchRows, documents, events, alerts, bin, sources, enabled, runs>>

monitorVars == <<tableVars, thread, userSteps, ingestions, purged, reused, overlapped, interrupted>>

-----------------------------------------------------------------------------

RowIds(table) == {row.id : row \in table}

NextId(table) == 1 + Max({0} \cup RowIds(table))

RowWith(table, id) == CHOOSE row \in table : row.id = id

NoIngestion == [at |-> "idle", todo |-> <<>>, run |-> 0, yield |-> {}]

Stored(content) == \E d \in documents : d.content = content

(* What the pages list and act on; hidden stands for deleted_at.           *)
ShownEvents == {e \in events : ~e.hidden}

ShownAlerts == {a \in alerts : ~a.hidden}

ShownItems == bin

(* The card of an event offers to acknowledge a shown alert of it.         *)
AlertsOfCard(e) == {a \in ShownAlerts : a.event = e.id}

AlertCards(filter) ==
    {a \in ShownAlerts : \/ filter = "all"
                         \/ filter \in {"unread", "high"} /\ a.status = "unread"
                         \/ filter = "processed" /\ a.status = "acknowledged"
                         \/ filter = "ignored" /\ a.status = "ignored"}

CompanyCards == {c \in companies : c.id \in watchRows}

MonitorInit ==
    /\ companies = {[id |-> 1, who |-> "k1"]}
    /\ watchRows = {1}
    /\ documents = {} /\ events = {} /\ alerts = {} /\ bin = {} /\ runs = {}
    /\ sources = Sources /\ enabled = Sources
    /\ thread = [t \in MonitorThreads |-> NoIngestion]
    /\ userSteps = 0 /\ ingestions = 0
    /\ purged = {} /\ reused = {} /\ overlapped = FALSE /\ interrupted = FALSE

(***************************************************************************)
(* Events of a document: the matcher goes through every company of the     *)
(* table, the newest first, which has the largest id, and the detector     *)
(* through the matches it trusts; an event the list shows for the same     *)
(* company, document, type and title is not made again, one in the recycle *)
(* bin is.  Each event comes with evidence and an alert, unless an alert   *)
(* with the id of that event is shown.                                     *)
(***************************************************************************)
MatchDocument(content) == {c \in companies : c.who \in Mentions[content]}

FindExisting(c, d) == \E e \in ShownEvents : e.company = c.id /\ e.document = d.id

Unseen(d) == {c \in MatchDocument(d.content) : ~FindExisting(c, d)}

(* The companies whose rows are written before that of c. *)
Before(c, some) == Cardinality({b \in some : b.id > c.id})

EventOf(c, d) ==
    [id |-> NextId(events) + Before(c, Unseen(d)), company |-> c.id, document |-> d.id, hidden |-> FALSE]

FindByEvent(event) == \E a \in ShownAlerts : a.event = event.id

Alerted(d) == {c \in Unseen(d) : ~FindByEvent(EventOf(c, d))}

CreateForEvent(c, d) ==
    [id |-> NextId(alerts) + Before(c, Alerted(d)), event |-> EventOf(c, d).id, status |-> "unread", hidden |-> FALSE]

(* process_document: the rows it adds to both tables.                      *)
EventsOf(d) == {EventOf(c, d) : c \in Unseen(d)}

AlertsOf(d) == {CreateForEvent(c, d) : c \in Alerted(d)}

(* Ids that a row of the table has, or had when an item of the bin or a    *)
(* list of linked alerts was made of it.                                   *)
EverUsed == {<<i.type, i.entity>> : i \in bin}
            \cup UNION {{<<"alert", a>> : a \in i.linked} : i \in bin}

GivesIds(made, told) ==
    reused' = reused \cup (({<<"event", e.id>> : e \in made} \cup {<<"alert", a.id>> : a \in told}) \cap EverUsed)

(***************************************************************************)
(* The user's transactions.                                                *)
(***************************************************************************)
UserStep == userSteps < MaxUserSteps /\ userSteps' = userSteps + 1

BinUnchanged == UNCHANGED <<thread, ingestions, overlapped, interrupted>>

(* create_or_reopen: an active item of the same row is brought up to date. *)
CreateOrReopen(type, entity, linked) ==
    bin' = {i \in bin : i.type # type \/ i.entity # entity}
           \cup {[type |-> type, entity |-> entity, linked |-> linked]}

(* Mutant: the item does not remember the alerts hidden with the event.    *)
MoveEventAlone(e) ==
    /\ UserStep
    /\ events' = (events \ {e}) \cup {[e EXCEPT !.hidden = TRUE]}
    /\ alerts' = {IF a.event = e.id THEN [a EXCEPT !.hidden = TRUE] ELSE a : a \in alerts}
    /\ CreateOrReopen("event", e.id, {})
    /\ BinUnchanged
    /\ UNCHANGED <<companies, watchRows, documents, sources, enabled, runs, purged, reused>>

MoveEventToRecycle(e) ==
    /\ UserStep
    /\ events' = (events \ {e}) \cup {[e EXCEPT !.hidden = TRUE]}
    /\ alerts' = {IF a.event = e.id THEN [a EXCEPT !.hidden = TRUE] ELSE a : a \in alerts}
    /\ CreateOrReopen("event", e.id, {a.id : a \in {b \in alerts : b.event = e.id}})
    /\ BinUnchanged
    /\ UNCHANGED <<companies, watchRows, documents, sources, enabled, runs, purged, reused>>

MoveAlertToRecycle(a) ==
    /\ UserStep
    /\ alerts' = (alerts \ {a}) \cup {[a EXCEPT !.hidden = TRUE]}
    /\ CreateOrReopen("alert", a.id, {})
    /\ BinUnchanged
    /\ UNCHANGED <<companies, watchRows, documents, events, sources, enabled, runs, purged, reused>>

MoveCompanyToRecycle(c) ==
    /\ UserStep
    /\ watchRows' = watchRows \ {c.id}
    /\ CreateOrReopen("watchlist_company", c.id, {})
    /\ BinUnchanged
    /\ UNCHANGED <<companies, documents, events, alerts, sources, enabled, runs, purged, reused>>

(* restore: an event comes back with the alerts hidden with it, an alert   *)
(* with its event; a row that is gone cannot be restored, and the item     *)
(* stays.  Only the item the user chose is closed.                         *)
RestoreItem(i) ==
    /\ UserStep
    /\ \/ /\ i.type = "event" /\ i.entity \in RowIds(events)
          /\ events' = {IF e.id = i.entity THEN [e EXCEPT !.hidden = FALSE] ELSE e : e \in events}
          /\ alerts' = {IF a.id \in i.linked THEN [a EXCEPT !.hidden = FALSE] ELSE a : a \in alerts}
          /\ UNCHANGED watchRows
       \/ /\ i.type = "alert" /\ i.entity \in RowIds(alerts)
          /\ LET of == RowWith(alerts, i.entity).event IN
               events' = {IF e.id = of THEN [e EXCEPT !.hidden = FALSE] ELSE e : e \in events}
          /\ alerts' = {IF a.id = i.entity THEN [a EXCEPT !.hidden = FALSE] ELSE a : a \in alerts}
          /\ UNCHANGED watchRows
       \/ /\ i.type = "watchlist_company"
          /\ watchRows' = watchRows \cup {i.entity}
          /\ UNCHANGED <<events, alerts>>
    /\ bin' = bin \ {i}
    /\ BinUnchanged
    /\ UNCHANGED <<companies, documents, sources, enabled, runs, purged, reused>>

(* The event's document and company, for what the user removed for good.   *)
Subjects(some) ==
    {<<RowWith(documents, e.document).content, RowWith(companies, e.company).who>> : e \in some}

(* permanently_delete goes by the id the item remembers, hidden or not.    *)
PermanentlyDelete(i) ==
    /\ UserStep
    /\ LET gone == {e \in events : i.type = "event" /\ e.id = i.entity} IN
         /\ events' = events \ gone
         /\ purged' = purged \cup Subjects(gone)
    /\ alerts' = {a \in alerts : \/ i.type = "event" /\ a.event # i.entity
                                 \/ i.type = "alert" /\ a.id # i.entity
                                 \/ i.type = "watchlist_company"}
    /\ watchRows' = IF i.type = "watchlist_company" THEN watchRows \ {i.entity} ELSE watchRows
    /\ bin' = bin \ {i}
    /\ BinUnchanged
    /\ UNCHANGED <<companies, documents, sources, enabled, runs, reused>>

(* permanently_delete_company: the items of the bin are not looked at. *)
PermanentlyDeleteCompany(c) ==
    /\ UserStep
    /\ LET gone == {e \in events : e.company = c.id} IN
         /\ events' = events \ gone
         /\ alerts' = {a \in alerts : a.event \notin RowIds(gone)}
         /\ purged' = purged \cup (Contents \X {c.who})
    /\ companies' = companies \ {c}
    /\ watchRows' = watchRows \ {c.id}
    /\ BinUnchanged
    /\ UNCHANGED <<documents, bin, sources, enabled, runs, reused>>

(* add_to_watchlist finds the company by its name or creates it. *)
AddToWatchlist(who) ==
    /\ UserStep
    /\ LET found == {c \in companies : c.who = who}
           row == IF found # {} THEN CHOOSE c \in found : TRUE
                  ELSE [id |-> NextId(companies), who |-> who]
       IN  /\ row.id \notin watchRows
           /\ companies' = companies \cup {row}
           /\ watchRows' = watchRows \cup {row.id}
           /\ reused' = IF found # {} THEN reused
                        ELSE reused \cup ({<<"watchlist_company", row.id>>} \cap EverUsed)
    /\ BinUnchanged
    /\ UNCHANGED <<documents, events, alerts, bin, sources, enabled, runs, purged>>

(* The documents page looks for the events of a document once more. *)
ExtractEvents(d) ==
    /\ UserStep
    /\ Unseen(d) # {}
    /\ events' = events \cup EventsOf(d) /\ alerts' = alerts \cup AlertsOf(d)
    /\ GivesIds(EventsOf(d), AlertsOf(d))
    /\ BinUnchanged
    /\ UNCHANGED <<companies, watchRows, documents, bin, sources, enabled, runs, purged>>

SetStatus(some, status) ==
    /\ UserStep
    /\ \E a \in some : a.status # status
    /\ alerts' = (alerts \ some) \cup {[a EXCEPT !.status = status] : a \in some}
    /\ BinUnchanged
    /\ UNCHANGED <<companies, watchRows, documents, events, bin, sources, enabled, runs, purged, reused>>

(* Deleting a source deletes its runs with it. *)
DeleteSource(s) ==
    /\ UserStep
    /\ sources' = sources \ {s} /\ enabled' = enabled \ {s}
    /\ runs' = {r \in runs : r.source # s}
    /\ interrupted' = (interrupted \/ \E t \in MonitorThreads : thread[t].at # "idle")
    /\ UNCHANGED <<companies, watchRows, documents, events, alerts, bin, thread, ingestions,
                   purged, reused, overlapped>>

(* A run of the source that has begun goes on. *)
ToggleSource(s) ==
    /\ UserStep
    /\ enabled' = IF s \in enabled THEN enabled \ {s} ELSE enabled \cup {s}
    /\ BinUnchanged
    /\ UNCHANGED <<companies, watchRows, documents, events, alerts, bin, sources, runs, purged, reused>>

(***************************************************************************)
(* Ingestions.                                                             *)
(***************************************************************************)
RowsUnchanged == UNCHANGED <<companies, watchRows, bin, sources, enabled, userSteps, purged>>

(* The sources are listed first and then run one after the other. *)
Ingests(t, some) ==
    /\ thread[t].at = "idle" /\ ingestions < MaxIngestions /\ some # {}
    /\ ingestions' = ingestions + 1
    /\ \E order \in {s \in [1..Cardinality(some) -> some] :
                       \A i, j \in DOMAIN s : s[i] = s[j] => i = j} :
         thread' = [thread EXCEPT ![t] = [NoIngestion EXCEPT !.at = "next", !.todo = order]]
    /\ RowsUnchanged
    /\ UNCHANGED <<documents, events, alerts, runs, reused, overlapped, interrupted>>

(* By the scheduler, or from a page; one source also when it is disabled. *)
RunAllEnabledSources(t) == Ingests(t, enabled)

RunSelected(t) == \E s \in sources \ enabled : Ingests(t, {s})

(* create_run; a source deleted since ends the whole ingestion. *)
CreateRun(t) ==
    /\ thread[t].at = "next"
    /\ IF thread[t].todo = <<>> \/ Head(thread[t].todo) \notin sources
       THEN /\ thread' = [thread EXCEPT ![t] = NoIngestion]
            /\ UNCHANGED runs
       ELSE /\ runs' = runs \cup {[id |-> NextId(runs), source |-> Head(thread[t].todo), status |-> "running"]}
            /\ thread' = [thread EXCEPT ![t].at = "fetch", ![t].run = NextId(runs)]
    /\ RowsUnchanged
    /\ UNCHANGED <<documents, events, alerts, ingestions, reused, overlapped, interrupted>>

Unknown(contents) == {c \in contents : ~Stored(c)}

(* fetch_documents, and the lookups up to the first insertion, which takes *)
(* the lock of the database: later ones cannot miss another transaction.   *)
FetchDocuments(t) ==
    /\ thread[t].at = "fetch"
    /\ \/ /\ \E c \in Contents : thread' = [thread EXCEPT ![t].at = "store", ![t].yield = Unknown({c})]
          /\ overlapped' = (overlapped \/ \E u \in MonitorThreads \ {t} : thread[u].at = "store")
       \/ /\ thread' = [thread EXCEPT ![t].at = "failed"]
          /\ UNCHANGED overlapped
    /\ RowsUnchanged
    /\ UNCHANGED <<documents, events, alerts, runs, ingestions, reused, interrupted>>

(* finish_run goes by the id; without the row it fails. *)
FinishRun(t, status) ==
    runs' = {IF r.id = thread[t].run THEN [r EXCEPT !.status = status] ELSE r : r \in runs}

NextSource(t) == [thread EXCEPT ![t] = [NoIngestion EXCEPT !.at = "next", !.todo = Tail(thread[t].todo)]]

(* The document the run brought, with the companies known now. *)
Brought(t) ==
    {[id |-> NextId(documents), content |-> c, known |-> {k.who : k \in companies}] : c \in thread[t].yield}

(* Mutant: the document is committed before its events are looked for.     *)
StoreDocumentsFirst(t) ==
    /\ thread[t].at = "store"
    /\ documents' = documents \cup Brought(t)
    /\ \/ /\ events' = events \cup UNION {EventsOf(d) : d \in Brought(t)}
          /\ alerts' = alerts \cup UNION {AlertsOf(d) : d \in Brought(t)}
          /\ FinishRun(t, "success") /\ thread' = NextSource(t)
       \/ /\ thread' = [thread EXCEPT ![t].at = "failed"]
          /\ UNCHANGED <<events, alerts, runs>>
    /\ RowsUnchanged
    /\ UNCHANGED <<ingestions, reused, overlapped, interrupted>>

(* The second transaction: the document, its events and alerts and the end *)
(* of the run, or nothing of them.                                         *)
StoreDocuments(t) ==
    /\ thread[t].at = "store"
    /\ \/ /\ thread[t].run \in RowIds(runs)
          /\ LET made == UNION {EventsOf(d) : d \in Brought(t)}
                 told == UNION {AlertsOf(d) : d \in Brought(t)}
             IN  /\ documents' = documents \cup Brought(t)
                 /\ events' = events \cup made /\ alerts' = alerts \cup told
                 /\ GivesIds(made, told)
          /\ FinishRun(t, "success")
          /\ thread' = NextSource(t)
       \/ /\ thread' = [thread EXCEPT ![t].at = "failed"]
          /\ UNCHANGED <<documents, events, alerts, runs, reused>>
    /\ RowsUnchanged
    /\ UNCHANGED <<ingestions, overlapped, interrupted>>

(* The third transaction; without the run's row the ingestion ends here.   *)
NoteFailure(t) ==
    /\ thread[t].at = "failed"
    /\ FinishRun(t, "failed")
    /\ thread' = IF thread[t].run \in RowIds(runs) THEN NextSource(t)
                 ELSE [thread EXCEPT ![t] = NoIngestion]
    /\ RowsUnchanged
    /\ UNCHANGED <<documents, events, alerts, ingestions, reused, overlapped, interrupted>>

(* The process ends: the open transaction is rolled back, and no start of  *)
(* the program touches the runs.                                           *)
MonitorEnds ==
    /\ \E t \in MonitorThreads : thread[t].at # "idle"
    /\ thread' = [t \in MonitorThreads |-> NoIngestion]
    /\ interrupted' = TRUE
    /\ UNCHANGED <<tableVars, userSteps, ingestions, purged, reused, overlapped>>

-----------------------------------------------------------------------------

(***************************************************************************)
(* What the pages offer.                                                   *)
(***************************************************************************)
EventsPage ==
    \E e \in ShownEvents : \/ MoveEventToRecycle(e)
                           \/ \E a \in AlertsOfCard(e) : SetStatus({a}, "acknowledged")

AlertsPage ==
    \/ \E filter \in {"unread", "high", "processed", "ignored", "all"} :
         \E a \in AlertCards(filter) : \/ SetStatus({a}, "acknowledged")
                                       \/ SetStatus({a}, "ignored")
                                       \/ MoveAlertToRecycle(a)
    \/ SetStatus(AlertCards("unread"), "acknowledged")

RecycleBinPage == \E i \in ShownItems : RestoreItem(i) \/ PermanentlyDelete(i)

CompaniesPage == \E c \in CompanyCards : MoveCompanyToRecycle(c)

CompanyDialog == \E c \in companies : PermanentlyDeleteCompany(c)

DashboardPage == \E who \in {"k1", "k2"} : AddToWatchlist(who)

DocumentsPage == \E d \in documents : ExtractEvents(d)

SourcesPage == \E s \in sources : DeleteSource(s) \/ ToggleSource(s)

Ingestion ==
    \E t \in MonitorThreads : \/ RunAllEnabledSources(t) \/ RunSelected(t) \/ CreateRun(t)
                              \/ FetchDocuments(t) \/ StoreDocuments(t) \/ NoteFailure(t)

MonitorNext ==
    \/ EventsPage \/ AlertsPage \/ RecycleBinPage \/ CompaniesPage \/ CompanyDialog
    \/ DashboardPage \/ DocumentsPage \/ SourcesPage \/ Ingestion \/ MonitorEnds

MonitorSpec == MonitorInit /\ [][MonitorNext]_monitorVars

-----------------------------------------------------------------------------

CompanyRows == [id: Nat, who: {"k1", "k2"}]

DocumentRows == [id: Nat, content: Contents, known: SUBSET {"k1", "k2"}]

EventRows == [id: Nat, company: Nat, document: Nat, hidden: BOOLEAN]

AlertRows == [id: Nat, event: Nat, status: {"unread", "acknowledged", "ignored"}, hidden: BOOLEAN]

BinRows == [type: {"event", "alert", "watchlist_company"}, entity: Nat, linked: SUBSET Nat]

RunRows == [id: Nat, source: Sources, status: {"running", "success", "failed"}]

MonitorTypeOK ==
    /\ companies \subseteq CompanyRows /\ watchRows \subseteq Nat
    /\ documents \subseteq DocumentRows /\ events \subseteq EventRows /\ alerts \subseteq AlertRows
    /\ bin \subseteq BinRows /\ runs \subseteq RunRows
    /\ enabled \subseteq sources /\ sources \subseteq Sources
    /\ thread \in [MonitorThreads -> [at: {"idle", "next", "fetch", "store", "failed"},
                                      todo: Seq(Sources), run: Nat, yield: SUBSET Contents]]

(* Deleting an event or an alert moves it to the recycle bin, from which   *)
(* it can be had back: every hidden row is one that an item still in the   *)
(* bin restores.  And unless an id was given twice, a shown alert has a    *)
(* shown event.                                                            *)
DeletedIsRecoverable ==
    /\ \A e \in events : e.hidden => \E i \in bin : i.type = "event" /\ i.entity = e.id
    /\ \A a \in alerts : a.hidden =>
         \E i \in bin : \/ i.type = "alert" /\ i.entity = a.id
                        \/ i.type = "event" /\ i.entity = a.event /\ a.id \in i.linked
    /\ reused = {} => \A a \in ShownAlerts : a.event \in RowIds(ShownEvents)

(* A content is stored once unless two ingestions overlapped; a document   *)
(* that is stored, and so will be skipped from now on, has its event for   *)
(* each company known at that time unless the user removed it for good;    *)
(* and a run is left as running only by the end of the process or the      *)
(* deletion of its source.                                                 *)
IngestionIsAccounted ==
    /\ ~overlapped => \A d, f \in documents : d.content = f.content => d = f
    /\ \A d \in documents : \A who \in d.known \cap Mentions[d.content] :
         \/ <<d.content, who>> \in purged
         \/ \E e \in events : e.document = d.id /\ RowWith(companies, e.company).who = who
    /\ ~interrupted => \A r \in runs : r.status = "running" =>
                         \E t \in MonitorThreads : thread[t].run = r.id /\ thread[t].at # "idle"
=============================================================================
