# TLA+ models of Company Decision Monitor

Company Decision Monitor is a desktop application (PySide6) that looks up companies in public
data sources, shows a company's profile and news, crawls the company's own web pages for
evidence and keeps a watchlist; an earlier application beside it monitors sources for events. These
modules model its parts, above all where several threads, the user, the network and files meet, check
them with TLC on small instances and prove the most important results with TLAPS for every instance.

Source paths below are relative to `src/src/cdm_desktop/`.

## 1. The system

| Component | State it keeps | What is hard | What makes it correct | Modules |
|---|---|---|---|---|
| Web crawl service, `services/web_evidence_service.py` | job slots (semaphore of 2), a lock per host, registered cancel events, one job per call of `crawl()`; the queue of a crawl | threads of the crawl pool, waits with cancellation and deadline, exceptions through `finally` | no permit or lock is lost, every call returns, the stored status is the truth | `CrawlService`, `CrawlPool`, `PageFetch` |
| Web evidence store, `public_api/web_evidence_store.py` | SQLite tables `web_evidence`, `profile_field_candidates`, `crawl_jobs`; a write lock per store object | read before the transaction, ids that move between pages, two store objects on one file | rows unique per page, candidates traceable to a row, decisions of the user stick | `EvidenceStore` |
| Robots policy, `public_api/robots_policy.py` | cache with a time to live | looked up and filled outside the host lock; asked for the queued address only | one verdict per page | `CrawlService`, `PageFetch` |
| Page fetching and extraction, `security/url_safety.py`, `public_api/{web_fetcher,crawl_safety,content_extractor}.py` | one request through its redirects | each check looks the name up again; what is official is decided twice; lengths that are not true | pages, texts and addresses kept are within scope and limits | `PageFetch` |
| Profile candidates, `public_api/profile_candidates.py` | writes into a profile object | the object is shared by worker and interface | what the user decided holds | `ProfileAdoption`, `EvidenceStore` |
| Company page, `ui/pages/company_detail.py` | current company, request id, cancel event of the crawl ("the handle"), pools of 3 and 2 threads | results in any order, state read by worker threads | a result is shown on the page it belongs to, the page never hangs | `CrawlPage`, `Profiles`, `ProfileAdoption` |
| Crawlergo runtime, `public_api/crawlergo_runtime.py` | the set of child processes | timeout and kill against `terminate_all` | no process is left | `CrawlRuntime` |
| Public search, `public_api/search_service.py`, `search_query_plan.py` | cache in memory, cache on disk, three threads per call | budgets of 0.3 s and 5 s, cancellation, calls that outlive their search | what is cached is what was found, or says what is missing | `SearchCalls`, `LocalSearch`, `EnrichSearch` |
| Providers, `public_api/{providers,registry}.py` | cached listings, index files | many requests per call, replies that are errors | no answer and no result are told apart | `Providers`, `ProviderChoice` |
| Query analysis and ranking, `public_api/{query,ranking,seed_aliases,models}.py` | none | keys that depend on fields that merging fills in; ranked more than once | a card is one company, whatever the order | `Ranking`, `SymbolIndex` |
| Symbol indexes, `public_api/china_hk_index.py`, `src/scripts/build_*.py` | SQLite files | lists that fail, stops between two renames, many spellings | an incomplete index says so, a spelling finds its security | `SymbolIndex` |
| Provider health and HTTP, `public_api/{provider_health,http_client,cache}.py` | failure counters, pauses | counters without locks | no pause that was not earned | `ProviderHealth`, `EnrichSearch` |
| Search page, `ui/pages/search.py` | request id, phase, pool of 4 threads | late results, a queue that is emptied | only the search asked for last is rendered, and it is | `SearchPage`, `SearchPromise`, `Ranking` |
| Watchlist, `public_api/watchlist_store.py`, `ui/pages/watchlist.py` | a JSON file | read, network, write back without a lock; rows that change their key | the list is what the user made it | `Watchlist` |
| Profiles and news, `public_api/{profile_service,news_service}.py` | caches on disk, workers of the page | order of answers, a setting read twice | the merge does not depend on who was faster | `Profiles` |
| Settings and keys, `public_api/{settings_store,key_store}.py`, `ui/pages/settings.py` | two JSON files | read-modify-write per field, truncated before they are filled | no save loses what another chose | `ProviderChoice` |
| Monitoring, `db/`, `services/`, `event_engine/`, `alerts/` and the pages over them | SQLAlchemy database | three transactions per ingestion, scheduler beside interface, ids given twice, a recycle bin | what is deleted can be had back, what is stored is accounted for, alerts are earned | `Monitor`, `Events` |
| Widgets, theme, packaging | | | layout, tooling | |

How they interact. The search page starts a worker that asks the local indexes, and after it one that asks
public sources; the settings decide which. A result opens the company page, which fetches profile and
news in its own pool and may start a crawl: the worker calls `crawl()` with the page's cancel event,
`crawl()` saves each page's evidence and candidates in the store the page also reads and writes, fills
candidates into the profile object the page shows, and the result comes back to the interface thread as a
queued signal. The settings page clears the same database through a store object of its own. The
watchlist refreshes its rows from the profile service on the global pool. The monitoring database is
filled by sources, on the scheduler's thread and from the pages.
`PROJECT.json` lists the hazards of this code at their lines, with the properties that watch them.

## 2. The modules

**`EvidenceStore`** — the database under concurrent use. `evidence` and `candidates` are the rows
of the two tables, `lock` is `_write_lock` of the store that the page and its workers share, `pc`,
`item`, `doomed` and `unsaved` are the local variables of the crawl workers, `shown` the candidates
the page offers buttons for. `save_evidence` is two actions, `MatchEvidence` (99-113) and
`WriteEvidence` (the transaction), because the duplicates are read before the transaction opens;
what separates them from others is the lock alone, and `ClearAll`, called on the settings page's
own store object, is not excluded by it. Foreign keys and `ON DELETE CASCADE` are part of the
actions that delete. Text, titles and links are left out; ids (a SHA-256 of company and URL) are the
pair itself.

**`CrawlService`** — any number of concurrent calls of `crawl()`. `pc` is the program point of each
call; the waits of `_acquire_slot` and `_acquire_domain_lock` are a check and a wait, as in the code,
so that cancellation and deadline are seen where they are looked at and nowhere else. `Raise` is an
exception at any point that calls the store or the network; it goes through the two `finally`
blocks. A page is reduced to its host, a response to what becomes of it. Time is abstract: a
deadline passes at some moment (`Expire`), the delay after a request is over at some moment (`Cool`).

**`CrawlPool`** — what the service promises: at most `Slots` crawls at a time, each at most once, one
page request per host, a crawl at one host at a time. `CrawlService` implements it under the mapping
`running <- Holders`, `done <- returned jobs`, `using <- hostLock` (`PoolPromise`).

**`CrawlPage`** — the company page's handling of crawls. The page keeps one cancel event for all
companies, and a worker reads it when its thread gets there (`ReadHandle`), not when the crawl is
started; the company id is computed twice, in `Start` and in `ReadKey`, from an object that a profile
may complete in between (`AdoptProfile`). `Deliver` is the interface thread taking the oldest queued
signal: PySide6 delivers a signal emitted by a worker thread through the event loop of the thread
that owns the signal object. Inside `crawl()` only the event's registration is kept; the rest is
`CrawlService`. The two modules meet in what `CrawlService` assumes (an event per call) and what
`CrawlPage` assumes in return (calls return: `CallsReturn`).

**`PageFetch`** — the pages of one crawl, which `CrawlService` reduces to a number: the breadth-first queue
with depth, seed and the links already queued; the refusals before a request; the request through its
redirects, each hop validated and pinned to a public peer, with the limits on status, content type,
declared and actual size; the classification of what came back, its links, canonical address and display
mode. Every address check looks the host up again and may get another answer (`Lookups`). Pages are
named addresses of a small site with what they say; parsing of HTML and URLs is left out.

**`ProfileAdoption`** — one field of a profile that the page, the providers' answers and crawls write into.
A crawl keeps the profile object it was started with and goes through list, read, write and save; the user
accepts, rejects and clears between any two of them. `object` holds the field of every profile object
so far, `rowsOf` the stored candidates in the order `list_candidates` gives.

**`Profiles`** — `MergeProfiles` with its tables of priorities, the parts sorted by source (`Sorted`) and then
taken one after the other (`AfterPart`); the cache on disk by a key that holds the provider mode; the news; and the page's request ids, workers and queued signals. `enriched` is the company
object a profile changes in place, on which later keys and providers depend.

**`SearchPromise`, `SearchPage`** — what the search page promises (only the search asked for last and not
given up may change the screen, first with its local results, then with their supplement) and the page:
edits with the debounce timer, filters, cancellation, a pool whose queue is cleared when a search starts,
queued signals, the request id they are matched with. The page implements the promise (`PromiseKept`).

**`SearchCalls`, `LocalSearch`, `ProviderHealth`, `EnrichSearch`** — the two stages of the service as calls
that run concurrently: `LocalSearch` asks the indexes within its budget over the bounded cache in memory;
`EnrichSearch` starts provider calls in a pool of its own, waits once, harvests what is done, records late
calls as timeouts, and writes the disk cache and the health of the providers, whose counter is read and
written in separate steps by calls without a lock (`ProviderHealth`). A call cut off by the wait goes on,
and what it does to nobody is no longer followed.

**`Ranking`** — from a query to the cards: analysis of the text, the score of a row, the key it is merged
under, merging, sorting and cutting, for local answers, supplement and both together, from a cache too,
and the filter and groups of the page. Companies, the fields each parser copies and how alike names are to
the the text are data; scores are the numbers of the code. are the numbers of the code.

**`SymbolIndex`** — the script that builds the China and Hong Kong index (lists that may fail, fallbacks,
validation, the replacement of the shipped file, a stop anywhere, a resumed temporary file), and the
lookup of a spelling: the normalizations of query and indexes, digit by digit.

**`Providers`** — each provider's search, profile and news as a sequence of requests which may fail, be
refused inside a good reply or yield rows; the parsers are the fields they insist on; indexes, listings and
their cached copies are states of files.

**`ProviderChoice`** — the registry, the priorities of regions, scopes and modes, what a search asks
(`Selected` in its three ways of choosing, then the indexes for the first stage and the first four of the
others for the second) and what the settings page says of a source; with the two files, their setters, the form and a process that
ends between truncation and filling.

**`Watchlist`** — the file with its readers and writers; a row stands for the company the user added and
whether a profile has been merged into it, because that changes its key.

**`Monitor`, `Events`** — the database of the earlier application. `Monitor` has the rows and the
transactions: ingestion by scheduler and pages, extraction, deletion, recycle bin, ids that SQLite gives
again. `Events` opens the step `Monitor` takes as given: matching with penalties for ambiguous names,
status, confidence and materiality with the weights of the code, in tenths, with its rounding. An address is
the set of the marks `source_authority_score` finds in it, and any text may come with any address. The score of a
likeness is taken in whole points (85 or 86; the code has 84.6 to 86).

**`CrawlRuntime`** — discovery of the programs, the diagnostic that starts them one after the other, its
timeout and kill, and `terminate_all` on another thread.

**`Lists`** — filtering a list by the places of its rows, as a recursive function, which `Watchlist`,
`Profiles`, `Ranking` and `ProviderChoice` share.

The `MC` modules give TLC symmetry sets and instances. `MCDesk` and `MCSearch` put parts side by side that
share no variables: a behaviour is one of the part chosen at its start (`part`), the others stand still;
this saves runs, it composes nothing. The proofs are in `EvidenceStoreProofs`, `CrawlServiceProofs`,
`CrawlPageProofs`, `SearchProofs` (search page, both stages of the service, cards, index and spellings), `CollectionProofs`
(crawlergo runtime, pages of a crawl), `ProfilesProofs` (profiles and news, adoption) and `DeskProofs`
(watchlist, settings, providers, alerts, monitoring); `DataFacts` has the lemmas about numbers and sequences
that several of them use. Operators commented "Mutant" are not part of the models: each is a plausible bug, and
replacing the operator it imitates makes TLC report the property `PROJECT.json` pairs it with.

## 3. The runs

| Run | Instance | Question |
|---|---|---|
| `Evidence` | 2 workers, 2 URLs, 2 hashes, 1 proposal, 1 company | types; rows unique; the UNIQUE constraints never abort a save; candidates have a row; decisions stick |
| `EvidenceOverwrite` (violation) | 1 worker | a save may overwrite a page that is not a duplicate |
| `CrawlSafety` | 2 jobs, 1 host, 2 slots, 2 pages, queue of 1 | slots, host locks, registered events, statuses, refinement of `CrawlPool` (its types are proved, `ServiceTypes`) |
| `CrawlReturns` | 2 jobs; both slots and 1 page each, or one slot and 2 pages each | a cancelled call returns although no delay passes and no deadline comes; every call returns once delays pass |
| `CrawlDelay` (violation) | 2 jobs, 1 host | two jobs request pages of one host without a delay |
| `CrawlCancelStatus` (violation) | 1 job | a cancelled job ends with another status |
| `CrawlPage` | 2 crawls, 2 threads, 3 company objects (two of one company) | the start button, the loading state, which event a crawl runs under |
| `CrawlShutdown` (violation) | 2 crawls, 1 company | a crawl runs on, uncancelled, after shutdown |
| `Search` | `local`: 2 searches, 2 keys, 3 indexes, cache of 1. `remote`: 2 searches, 2 providers, 1 thread, threshold 2. `rank`: 3 companies, 6 sources, 3 queries. `index`: 6 securities, 2 builds, 1 stop. `details`: 2 companies, 4 workers, 2 threads | what is cached, in memory and on disk, is accounted for; pauses are earned; cards are companies and all are shown; an index says what it lacks and spellings find; profile and news belong to the page and do not depend on who was faster |
| `Desk` | `search`: 2 texts, 2 filters, 2 searches. `watchlist`: 2 companies, 3 edits, 1 restart. `settings`: 2 keys, 3 saves. `monitor`: 2 threads, 3 user steps, 2 ingestions. `providers`: 2 calls. `fetch`: 5 addresses, 3 pages, depth 1, 2 redirects. `runtime`: 1 diagnostic. `events`: 2 companies with confusable names. `adoption`: 3 candidates, 2 crawls, 2 profiles | the promise of the search page and that a search settles; the list is the wanted one; settings stay and every source shown as available is asked; deleted rows can be had back and ingestions are accounted for; outage and emptiness are told apart; kept pages belong; no process is left; alerts are earned; decisions show in the profile |
| `WatchlistRemoved` (violation) | 2 companies | a removed company comes back after a refresh |
| `RedirectRobots` (violation) | the site of `fetch` | a redirect leads to an address robots.txt disallows |

Bounds. Two workers are what the crawl pool has, so pairs of jobs are the real concurrency, not a
reduction. Two URLs and two hashes are what a row needs to lend its id to another page and collide
with it afterwards; one company suffices for TLC because every formula compares rows of one company
only, and the theorems cover any number. Two pages per job let a job meet its own earlier request
(the delay), a skipped page before a stored one, and cancellation during the last page; one host puts
both jobs in front of one lock. In `CrawlPage`, two crawls are the fewest that can be confused and two
objects of one company the fewest that share an id while they differ in what a profile has filled in.
In `Search`, two searches are the fewest that race for a counter or a cache; a cache of one makes every
second answer evict; one pool thread makes calls queue; a second build meets the file a stopped one left; four workers are two openings of the company page
or one with two retries. Of the three companies two share a name and two a number, so that each kind of
key can go wrong; the six numbers have each shape the normalizations tell apart. In `Desk`, two searches and two
texts let an older result meet a newer question; three edits let a company be removed, refreshed and added
again; three saves let two fields be saved after a process ended; three steps of the user delete,
restore and delete again beside two ingestions; the site has a home page, investor pages on a host
of their own that robots.txt disallows, a report, a newspaper and a barred host, with redirects between them; two visits let a crawl come to a page the user has decided on.
`MaxQueue`, `MaxPages`, `MaxCrawls` and the constants named `Max...` of the other modules are the only caps; where
the code has a limit of the same kind (pages, depth, redirects, queue, size) its constant stands for it.
Symmetry is used only in runs without liveness properties. Deadlock is checked in `Evidence`; the other
models stop when all calls have returned, the page is closed or a cap is reached, so their runs say
`CHECK_DEADLOCK FALSE`.

Fairness. `CrawlService!FairSpec` lets each job's thread run: its steps wait at most 0.1 s (the slot
and lock waits) or the transport's timeout. `WaitDelay` is the exception: it is enabled only when the
delay is over, the event is set or the deadline has passed. That delays pass (`Cool`) is an assumption
of `CallsReturn` alone, deadlines are assumed nowhere. Raising, cancelling, calling and shutting down are
never fair. `CrawlPage!FairSpec` lets the threads and the event loop run; the user may do nothing.
`SearchPageFairness` likewise: a thread of the pool that keeps becoming free takes what is queued
(strongly fair, the queue is first in first out), a worker ends (its calls have
budgets and transport timeouts), and the event loop delivers signals; typing, choosing filters,
cancelling and the debounce timer are not fair.

## 4. What the code does otherwise than documented

- *Overwriting another page* (`EvidenceOverwrite`). A row matched by content hash lends its id to an
  item with another URL; that id no longer belongs to the URL it was computed from, and when that URL
  is saved with new content the row of the other page is overwritten in place. `docs/web_evidence.md:94`
  promises deduplication by URL and hash only.
- *Delay between requests* (`CrawlDelay`). `last_request_at` is local to a job; two jobs on one host
  request pages right after each other. `docs/web_evidence.md:9` promises at least one second.
- *Status of a cancelled job* (`CrawlCancelStatus`). The event is read while pages remain only; cancelled
  during its last page, a job ends as success, partial, blocked or empty.
- *Shutdown* (`CrawlShutdown`). Because the handle is read late, two crawls can share an event, and the
  first to end unregisters it; or a worker finds no handle and makes an event of its own after shutdown
  has looked. Either crawl is not cancelled by shutdown, against `docs/web_evidence.md:53`.
- *A removed company returns* (`WatchlistRemoved`). A refresh reads the list, waits for the network and
  writes the list back; `docs/manual_qa_checklist_v0.1.2.md:57` says that removed items do not reappear.
- *Redirects and robots.txt* (`RedirectRobots`). The policy is asked for the queued address, not for the
  targets of its redirects, against `README.md:22` of the repository.

Exceptions the properties make, because the code does so and no document says otherwise:

- `DecisionsShow` excepts a crawl that is overtaken between listing, reading and writing a field: nothing
  locks the profile object, so a value accepted in between can be overwritten by an automatic one, and a
  decision listed before the user cleared the evidence comes back with the row. Related, and allowed: the id
  of a candidate holds its page, so a value rejected from one page can be filled in from another;
  after a reload the *oldest* accepted candidate wins, since each accepted one overwrites and the list is
  newest first; clearing the evidence keeps adopted values and forgets rejections; adopted
  values flow through the company object into the next profile, attributed to a provider.
- `ListIsWanted` excepts overlapping actors, cut-off writes and rows the page showed under an outdated key.
- `SettingsStay` excepts a process that ends between the truncation of a file and its filling: the file
  is then read as empty and the next save makes that permanent.
- `PageShowsEveryCard` excepts `Overlooked`: a card below the first three with a score of at least 85
  whose category is neither financial nor global and whose source is in no list, which holds for the rows of
  the China and Hong Kong index, is put in no group; the "financial" scope drops such rows too. It also excepts a
  card whose `DedupeKey` a card of a group has already: a page takes the two for one. That needs two cards of one
  source that share all the key looks at; in the instance none do.
- `IndexSaysWhatItLacks` excepts an index resumed from a temporary file (the next build skips all lists and
  publishes without warnings), and more than one stop: two in a row can lose the shipped index and its successor.
  It takes a list that answers for complete: the script drops rows without a code or a name, and takes an empty
  table, without a warning (`scripts/build_china_hk_symbol_index.py:130-134`).
- `SpellingsFind` excepts `Misread`: Shanghai numbers that begin with 9 are filed under Beijing; the colon of
  "SH:600519" is understood by the analysis and by neither index; "700.HK" finds nothing by symbol.
- `ChoiceIsSound` excepts `finance_database`, shown as available but in no list. With advanced sources on, all
  regions and all scopes, the four default sources use up the limit of four and the others are not asked.
- `DeletedIsRecoverable` excepts ids given twice: an item left in the bin then acts on the new row.
  `IngestionIsAccounted` excepts overlapping ingestions, and runs cut off by the end of the process, which
  stay "running".
- `MergeFollowsPriority` excepts a fetch during which the mode was switched.

Observed while reading, and checked by no run: robots.txt is requested before the host lock is taken,
so two jobs can be at one host at once in spite of `docs/web_evidence.md:53`; the result of an earlier,
cancelled crawl of the same company frees the handle of the running one, which then cannot be cancelled
from the page and does not keep the user from starting another; a candidate's `source_url` is not
updated when its evidence row moves to another canonical URL. The documents
(`docs/bundled_open_source_runtime.md:63`, `docs/china_hk_data_provider.md:24`) call AKShare only for the
company page, the search's second stage asks it too. A fourth provider call that was never started is recorded as a
network timeout and counts toward a pause. Failed and late enrichments, and profiles with failed providers, are
cached for six hours; the cache of news does not tell the provider modes apart. Cancelling a search while
it loads leaves the loading state on the screen. Any text that begins with HK, SH, SZ or BJ ("Shell",
"Shop") is taken for a symbol and loses the fuzzy search; a compact name of 20 characters for an LEI.
Scores rise when rows are ranked again, and rows with nothing but a name are merged on the name. Ingestion
stores the parser's metadata and drops the connector's, so the authority of a source depends on the text of its
address alone (`event_engine/scoring.py:24-29`): "sec.gov" anywhere in it, in the path, the query or a longer
name like `sec.gov.ph`, gives the authority of the SEC, and "ir." anywhere that of an investor page. An RSS entry whose
article cannot be fetched is stored with the feed's own summary under the link of the article
(`connectors/rss.py:40-51`). In both cases text the SEC did not publish can raise a P0 alert; no document of the
repository says who a P0 alert must come from, so `AlertsAreEarned` claims the mark in the address and not the
publisher. A rumour whose snippet holds "completed" is not
classed as one; an event keeps its priority when its match becomes ambiguous later; extracting again
re-creates an event that is in the bin; deleting a source during its run aborts the ingestion. A page that
names another as canonical is served from the store for that other. A redirect target that cannot be
parsed raises out of the fetch. `terminate_all` of the crawl service does not reach the diagnostic of the
settings page, which has a runtime manager of its own.

## 5. The proofs

*Store* (`EvidenceStoreProofs`). `StoreInv` is inductive: `TypeOK`, `OneRowPerPage`,
`SaveNeverTripsConstraint`, `CandidatesHaveEvidence` and, as the strengthening, `DuplicatesStayKnown`.
Uniqueness alone is not inductive: that the transaction ends with unique rows needs that the doomed ids
and the item's own id are *all* the duplicates in the table when it runs, which holds because only the
lock holder adds rows between the two halves. The only assumption is that `Free` is not a worker.
`UserDecisionsStick` follows step by step from the invariant.

*Service* (`CrawlServiceProofs`). `ServiceInv` is `Basics` (types and `SlotsAccounted`),
`HostLocksAccounted`, `ShutdownFindsRunning`, `RowsMeaning` (what the saved row may be at each program
point, and that "cancelled" implies a set event, the theorem `CancelledWereAsked`) and `SuccessMeansComplete`. Types and slots need each
other: that `free` stays within its bound is the accounting, and the accounting counts a set of
jobs that is finite by assumption. `ServiceImplementsPool` maps each step to a step of `CrawlPool` or a
stutter; `HostLocksAccounted` is what makes an exception during a request release exactly one host. Assumed: finitely many calls,
`Slots` natural, positive budgets, and `Nobody` neither a job nor a host.

*Page* (`CrawlPageProofs`). `PageInv` adds three strengthenings to the checked invariants.
`HandleMeaning`: the handle, when there is one, is that of the last crawl started, and
`_web_crawl_company_id` is that crawl's id; without it a late read of the handle could be of an older
event. `SignalsMeaning`: only workers that have returned are in the queue. `KeysMeaning`: the two ids
computed for a crawl are ids of its object, and an identifier once filled in stays; it is why a result
whose id differs from the current company's excuses the loading state. From `PageInv` follow
`NoCrawlUnderOldEvent`, `BlockedOnlyByCrawl` and `LoadingMeansCrawling` for any number of crawls,
threads, companies and objects. Assumed: `IdOf` is defined on the objects, and numbers are natural.

*Search* (`SearchProofs`). Six invariants.

- `SearchPageInv`: types; `SearchesInOrder`, request ids grow with the searches, and only the newest can be
  current; `WorkersAwaited`, a worker of a current search finds the screen in the state its signal expects, and
  a supplement runs under the event and filter of its own search; `NewestIsOnShow`. With them every step of
  the page is a step of `SearchPromise` or a stutter (`SearchPageKeepsPromise`: a refinement under `Wanted`, the
  number of the search asked for last), and what the page puts up belongs to its inputs (`ScreenBelongs`).
- `LocalInv`: the cache in memory has a key once and never more entries than its limit (`MemoryStaysBounded`);
  whatever a running search has gathered is accounted for by the indexes it has passed (`AskedIsAccounted`),
  which is what makes `MemoryIsAccounted` inductive.
- `EnrichInv`: for each search, what its calls say is so (`CallsAreTrue`), and at every stage each provider is
  harvested, excused or still to be told (`WaitIsAccounted`, `RecordIsAccounted`); hence `DiskIsAccounted`. For
  the health of the providers, `CountsAreEarned` bounds what each unlocked reader has in hand by the errors
  recorded so far: `HealthIsEarned` does not need the counter to be right, and it is not.
- `IndexInv`: a build that took over nothing has, for each security, its record, a warning naming its list, or
  the list still to ask (`NothingIsForgotten`); the file under the name of the index passes the
  validation, and once it has been removed its successor is at hand, through one stop and the builds that take
  the successor up, since those gather no less (`SuccessorIsKept`). Assumed, besides finiteness: no two securities
  have the same symbol (`SymbolsDiffer`); records are kept under their symbol, and one of two would be lost.
- `RankInv`: every row found, kept or shown is of one company and tells only what is true of it, unless its key is a
  mere name (`GoodRow`), and no two cards have one key. Since each kind of key but the name determines the company,
  rows of one key merge into such a row again; and merging fills in only what leaves the key as it is, so
  the keys of the cards are those of the rows in whatever order they came (`CardsNameOneCompany`).
  `CardsAreShownOnce` follows the groups of the page, which are cut from the cards in order, each from what the
  earlier ones left. Assumed:
  what the keys of `ranking.py` themselves take for granted (`IdentifiersAssumption`) — identifiers, symbols at a place
  and names within a country belong to one company. It is an assumption on the data, not on the code; where it
  fails, cards do merge companies.
- `LookInv`, with the types of the index: what was found is what the lookup of the typed spelling finds in the indexes
  as they stand. The rest is about digits and holds for every number (`SpellingsAreFound`): padding to five or six
  and stripping zeros change nothing but leading zeros, so equal stripped numbers of one length are equal; each spelling
  (bare, with a market in front or behind, with the suffixes of Yahoo, padded or not) has among its normal
  forms the symbol under which the index files its security; and none has the symbol of another number. Assumed:
  numbers are as the exchanges give them (`NumbersAssumption`: a digit that is not zero, five digits in Hong Kong
  and six elsewhere, first digits by market).

*Crawled pages and their programs* (`CollectionProofs`). `RuntimeInv`: the diagnostic starts its programs one after
the other (`Orderly`), its result is earned by the files (`Earned`), and a process is registered
only while its diagnostic still waits for it, from which `NoProcessIsLeft` follows although `terminate_all` runs
beside it. `FetchInv`: the address asked is in scope of the seeds and its redirects in scope of the address, redirects
are counted by requests, and everything kept `Belongs`; `KeptPagesBelong` is its last part, and holds whatever
documents, redirects, canonical addresses and answers of the name service there are. Assumed of the hosts:
`host_matches` is reflexive, and transitive (`WithinAssumption`), as "equal or a subdomain of" is.

*Profiles* (`ProfilesProofs`). `DetailsInv`: a worker under the current request id works for the company
shown, its cache key is that of its company, and workers are used up in order
(`JobOK`, `StartedInOrder`): `DetailsBelong`. That what is cached was put together by the providers of the mode in its key
(`CachedUnderItsMode`, with its exception) is a part of `MergeFollowsPriority` (`CachesKeepTheirMode`). The other
part, that a field of a profile comes from the first source in order that offers it, so that it does not matter who
answered first (`MergesFollowPriority`), is about `Sorted` and the taking of part after part: both are recursive
functions over the natural numbers up to a length, unfolded by `Recursion` and `RowsAtFollows` (`DataFacts`), and what
they hold is shown by induction over a set of naturals. Assumed: what a search found came from one of the sources
with a priority (`LocalSourceAssumption`). `AdoptionInv`: what a crawl has read of a candidate that the user has decided stays
true of the rows until it writes, unless it was overtaken (`CrawlOK`), and while none was the last object of the
profile has an accepted value if there is one: `DecisionsShow`. Assumed: what a candidate says is not the absence of a value.

*Watchlist, settings, providers, alerts, monitoring* (`DeskProofs`).

- `WatchlistInv` says that undisturbed the file has the companies wanted, one actor is at work, and what it
  carries will leave it so (`Quiet`, `Carries`). For the refresh of all rows this relates three
  lists: what is left to do is in the file or has a row of its company kept (`Remaining`), since a row may have
  changed its key. From it `ListIsWanted`. It rests on lemmas about the list operators: the rows at given places
  (`RowsAtHolds`, by induction over a set of naturals), the dictionary of rows (`OnePerKeyHolds`), replacing
  (`ReplacedHolds`) and removing.
- `ChoiceInv`: an opened file is the first of those being saved, and unless a process was cut off the settings
  and keys are the chosen ones: `SettingsStay`. With what is still to be written it gives the types (`SettingsTypes`):
  the widgets hold a limit within bounds whatever number an edited file has. It also says that the switch of the advanced sources is read as on or
  off, and for either `ChoiceIsSound` holds (`ChoiceStaysSound`). TLC evaluates it; the proof says why. The
  sources of a search are no more than those switched on (`CandidatesAre`, `SelectedIs`), and never none, as the
  first index is in the list of all regions. A source that is switched on is asked because of where it stands: the
  indexes under all regions; the Norwegian register in its own region, where only an index precedes it
  (`NorwayIsAsked`); every other online source in a search of a type that only four of them serve
  (`EntitySearchIs`, `FinancialSearchIs`). A fifth source of a type would break the argument, and so would
  a lower limit.
- `ProvidersInv`: while a call that collects from several places has no error, each place it could not look at had
  an old copy (`CallOK`): `OutageIsToldApart`, for any rows with natural scores.
- `EventsInv`: `AlertsAreEarned` with its arithmetic over the weights and penalties of the code, for any companies,
  aliases and news. The margins are narrow: without its strongest parts a materiality of 8965 hundredths rounds to 897 and a confidence of
  8480 to 848, just below the 900 and 850 of a P0 alert. Of the origin of a P0 alert it proves what the code asks:
  "sec.gov" somewhere in the address. Assumed: an item hits a type of event once, types
  are those of the table, and what is alike is so by at least 94 in 100.
- `MonitorInv`: rows refer to rows whatever was deleted, restored or purged; alerts an item of the bin remembers
  belong to its event until an id is given twice; each stored document is accounted for by the events of the
  companies known then (`TableRowsInv`); a thread stands where its run does, what it is about to store is unknown
  to the table until two ingestions overlap, and a running run has its thread unless the process ended
  (`ThreadsInv`). From it `DeletedIsRecoverable` and `IngestionIsAccounted`. Assumed: finitely many sources.

Only model-checked are the liveness properties `CancelledCallsReturn`, `CallsReturn`, `StartAllowedAgain` and
`SearchSettles`: they need ENABLED and fairness, which the provers here cannot do. The violations are
counterexamples; there is nothing to prove. Every other property of the passing runs is a theorem, for all values of the
constants within the named assumptions, and TLC evaluates those assumptions on the instances it checks.

## 6. Not modelled

- Layout: widgets, cards, dialogs, theme, navigation of the main window. The handlers behind them are in the
  modules of their components.
- Parsing and text: HTML, URLs, dates, similarity of names, cleaning; the modules take what the decisions
  tell apart as data. Among them: a symbol is one however it is written, where `_canonical_symbol` pads only numbers
  with HK in front; a row of Alpha Vantage has the market of its company, where the parser copies the type of the
  security into that field; the settings page shows cache times and limits as stored, where the code
  converts hours and thousands, so that a time edited by hand is rounded on a save. Fields of profiles beyond those of `Fields`; coverage figures; the deduplication of news.
- DNS, TLS and the retries inside one HTTP request; the JSON cache files beyond what is in them.
- The recovery of a corrupt evidence database, crashes of the process during a crawl, the error log of jobs.
- Evaluation of robots.txt rules (standard library). `crawlergo_provider.py` and `crawl_cache.py`, which the
  crawl service does not reach.
- Of the earlier application: connectors, exports, the reset of user data, online search and hot companies, migrations.
- Packaging, benchmark and release scripts; tests.

The theorems are about the modules. That a module says what its code does rests on reading: `PROJECT.json` names
the lines of each definition. Recursive functions stand where the code has loops, and no module declares a RECURSIVE operator.
