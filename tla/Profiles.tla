------------------------------ MODULE Profiles ------------------------------
(***************************************************************************)
(* What the company page shows of a company beside its crawls: the profile *)
(* merged from several providers (public_api/profile_service.py) and the   *)
(* news (public_api/news_service.py), each fetched by a worker of the      *)
(* page's three-thread pool whose result comes back to the interface       *)
(* thread as a queued signal and is matched with the request id            *)
(* (ui/pages/company_detail.py).                                           *)
(*                                                                         *)
(* A company is an object that the profile changes in place: identifiers   *)
(* filled in later change the key its profile is cached under.             *)
(***************************************************************************)
EXTENDS Naturals, Sequences, FiniteSets, SequencesExt, Lists

CONSTANTS
    Details,       \* company objects opened on the page
    NoDetail,      \* before the first one
    WithSymbol,    \* those that have a symbol
    InChina,       \* those whose market or country is China or Hong Kong
    LocalSource,   \* the provider the local part of a profile is put down to
    DetailKeys,    \* providers whose key is stored
    MaxDetails,    \* workers started, at most
    Failing,       \* providers that may fail a fetch
    MaxChanges,    \* files that grow too old and turns of the switch, at most
    DetailThreads  \* threads of the page's pool

ASSUME DetailsAssumption ==
    /\ NoDetail \notin Details
    /\ WithSymbol \subseteq Details /\ InChina \subseteq Details
    /\ MaxDetails \in Nat
    /\ DetailThreads \in Nat \ {0}

DetailJobs == 1..MaxDetails

VARIABLES
    detail,       \* current_company
    detailId,     \* _detail_request_id
    accepts,      \* _accepting_results
    enriched,     \* objects that hold an LEI a profile filled in
    advanced,     \* advanced_api_providers_enabled of the settings
    job,          \* the workers
    profileFile,  \* cached profiles by key
    newsFile,     \* cached news by company
    changes,
    mixed,        \* keys of the fetches during which the setting changed
    onPage         \* what the page shows: whose profile and news, and their phase

detailsVars == <<detail, detailId, accepts, enriched, advanced, job, profileFile, newsFile, changes, mixed,
                onPage>>

-----------------------------------------------------------------------------
(* Merging profiles.                                                       *)

Fields == {"legal_name", "sector", "description", "country"}

(* The fields each source fills in, for one company or another. *)
Offers ==
    [akshare         |-> {"legal_name", "sector", "description", "country"},
     symbol_universe |-> {"legal_name", "sector", "country"},
     fmp             |-> {"sector", "description", "country"},
     alpha_vantage   |-> {"sector", "description", "country"},
     gleif           |-> {"legal_name", "country"},
     wikidata        |-> {"legal_name", "description"}]

(* What a search found came from one of these sources. *)
ASSUME LocalSourceAssumption == LocalSource \in [Details -> DOMAIN Offers]

ProfilePriority == <<"akshare", "symbol_universe", "fmp", "alpha_vantage", "gleif", "wikidata">>

FieldPriority ==
    [legal_name  |-> <<"gleif", "symbol_universe", "wikidata">>,
     sector      |-> <<"akshare", "symbol_universe", "fmp", "alpha_vantage", "wikidata">>,
     description |-> <<"akshare", "wikidata", "fmp", "alpha_vantage">>,
     country     |-> <<>>]

Position(s, x) == IF \E i \in DOMAIN s : s[i] = x THEN CHOOSE i \in DOMAIN s : s[i] = x ELSE 1 + Len(s)

(* A part of a profile: its source, and whether its texts are the full or  *)
(* the short ones of a search result.                                      *)
LocalPart(c) == [source |-> LocalSource[c], full |-> FALSE]

RemotePart(p) == [source |-> p, full |-> TRUE]

NoPart == [source |-> "none", full |-> FALSE]

(* _should_use_field. *)
ShouldUseField(f, current, candidate) ==
    /\ f \in Offers[candidate.source]
    /\ \/ current = NoPart
       \/ current.source = candidate.source /\ candidate.full /\ ~current.full
       \/ /\ current.source # candidate.source
          /\ Position(FieldPriority[f], candidate.source) < Position(FieldPriority[f], current.source)

(* Mutant: the profiles are merged in the order in which they arrived.     *)
AsArrived(parts) == parts

PartsOfSource(parts, source) == RowsAt(parts, {i \in DOMAIN parts : parts[i].source = source})

(* sorted by priority, those of one priority as they arrived. *)
Sorted(parts) ==
    LET upTo[n \in 0..Len(ProfilePriority)] ==
          IF n = 0 THEN <<>> ELSE upTo[n - 1] \o PartsOfSource(parts, ProfilePriority[n])
    IN  upTo[Len(ProfilePriority)]

(* What a field holds after one more candidate. *)
AfterPart(f, current, candidate) == IF ShouldUseField(f, current, candidate) THEN candidate ELSE current

MergeProfiles(parts) ==
    [f \in Fields |->
       LET inOrder == Sorted(parts)
           upTo[n \in 0..Len(inOrder)] == IF n = 0 THEN NoPart ELSE AfterPart(f, upTo[n - 1], inOrder[n])
       IN  upTo[Len(inOrder)]]

(* _provider_order, without the bundled indexes. *)
ProviderOrder(c, adv) ==
    (IF c \in InChina THEN <<"akshare">> ELSE <<>>) \o <<"wikidata", "gleif">>
    \o (IF adv /\ c \in WithSymbol THEN <<"fmp", "alpha_vantage">> ELSE <<>>)

AskedOf(order) == {p \in ToSet(order) : p \in {"fmp", "alpha_vantage"} => p \in DetailKeys}

(* as_completed: three are under way at a time, and some fail. *)
Arrivals(asked) ==
    LET orders == {s \in SetToSeqs(ToSet(asked)) : \A i \in DOMAIN s : Position(asked, s[i]) <= i + 2}
    IN  {RowsAt(s, {i \in DOMAIN s : s[i] \in got}) : s \in orders, got \in SUBSET ToSet(asked)}

(* get_profile, for an object of the company and the answers it got. *)
ProfileOf(c, arrived) ==
    MergeProfiles(<<LocalPart(c)>> \o [i \in DOMAIN arrived |-> RemotePart(arrived[i])])

-----------------------------------------------------------------------------

NoJob == [kind |-> "none", at |-> "none", id |-> 0, of |-> NoDetail, key |-> <<>>,
          asks |-> {}, result |-> "none"]

ProfileKey(c) == <<c, c \in enriched, advanced>>

ProfileKeys == Details \X BOOLEAN \X BOOLEAN

NoProfileFile == [age |-> "none", got |-> {}]

Blank == [profile |-> NoDetail, phase |-> "none", news |-> NoDetail, newsPhase |-> "none"]

DetailsInit ==
    /\ detail = NoDetail /\ detailId = 1 /\ accepts = TRUE
    /\ enriched = {} /\ advanced = FALSE
    /\ job = [j \in DetailJobs |-> NoJob]
    /\ profileFile = [k \in ProfileKeys |-> NoProfileFile]
    /\ newsFile = [c \in Details |-> "none"]
    /\ changes = 0 /\ mixed = {}
    /\ onPage = Blank

JobsStarted == Cardinality({j \in DetailJobs : job[j].kind # "none"})

NewJob(kind, id, c) == [NoJob EXCEPT !.kind = kind, !.at = "queued", !.id = id, !.of = c]

FilesAsTheyAre == UNCHANGED <<profileFile, newsFile, changes>>

Over(j) == [NoJob EXCEPT !.kind = job[j].kind, !.at = "over"]

(* set_company and refresh: the local part is shown at once, two workers   *)
(* are started for the rest.                                               *)
ShowCompany(c) ==
    /\ accepts /\ JobsStarted + 2 <= MaxDetails
    /\ detail' = c
    /\ detailId' = detailId + 1
    /\ job' = [job EXCEPT ![JobsStarted + 1] = NewJob("profile", detailId + 1, c),
                          ![JobsStarted + 2] = NewJob("news", detailId + 1, c)]
    /\ onPage' = [profile |-> c, phase |-> "loading", news |-> NoDetail, newsPhase |-> "loading"]
    /\ FilesAsTheyAre /\ UNCHANGED <<accepts, enriched, advanced, mixed>>

(* _retry_news keeps the id of the request. *)
RetryNews ==
    /\ accepts /\ JobsStarted < MaxDetails
    /\ onPage.newsPhase = "failed"
    /\ job' = [job EXCEPT ![JobsStarted + 1] = NewJob("news", detailId, detail)]
    /\ onPage' = [onPage EXCEPT !.news = NoDetail, !.newsPhase = "loading"]
    /\ FilesAsTheyAre /\ UNCHANGED <<detail, detailId, accepts, enriched, advanced, mixed>>

(* The user turns the advanced sources on or off on the settings page. *)
TurnAdvanced ==
    /\ advanced' = ~advanced
    /\ changes < MaxChanges /\ changes' = changes + 1
    /\ UNCHANGED <<profileFile, newsFile>> /\ UNCHANGED <<detail, detailId, accepts, enriched, job, mixed, onPage>>

(* shutdown: what is queued is dropped, what runs is waited for in vain.   *)
ShutdownDetails ==
    /\ accepts
    /\ accepts' = FALSE
    /\ detailId' = detailId + 1
    /\ job' = [j \in DetailJobs |-> IF job[j].at = "queued" THEN Over(j) ELSE job[j]]
    /\ FilesAsTheyAre /\ UNCHANGED <<detail, enriched, advanced, mixed, onPage>>

-----------------------------------------------------------------------------
(* The workers.                                                            *)

OnDetailThread == {j \in DetailJobs : job[j].at \in {"keyed", "asking"}}

PageStays == UNCHANGED <<detail, detailId, accepts, enriched, advanced, onPage>>

(* The first in the queue takes a free thread.  get_profile computes the   *)
(* key and looks for a fresh file.                                         *)
TakesUp(j) ==
    /\ job[j].at = "queued"
    /\ Cardinality(OnDetailThread) < DetailThreads
    /\ \A i \in DetailJobs : i < j => job[i].at # "queued"

(* An answer carries whether the profile holds an LEI, or that it failed.  *)
Answered(j, result) == [NoJob EXCEPT !.kind = job[j].kind, !.at = "answered", !.id = job[j].id,
                                     !.of = job[j].of, !.result = result]

LooksForProfile(j) ==
    /\ TakesUp(j) /\ job[j].kind = "profile"
    /\ LET k == ProfileKey(job[j].of) IN
         job' = [job EXCEPT ![j] =
                   IF profileFile[k].age = "fresh"
                   THEN Answered(j, IF "gleif" \in profileFile[k].got THEN "lei" ELSE "plain")
                   ELSE [@ EXCEPT !.at = "keyed", !.key = k]]
    /\ FilesAsTheyAre /\ PageStays /\ UNCHANGED mixed

(* _provider_order reads the setting once more. *)
ChoosesProviders(j) ==
    /\ job[j].at = "keyed" /\ job[j].kind = "profile"
    /\ job' = [job EXCEPT ![j].at = "asking", ![j].asks = AskedOf(ProviderOrder(job[j].of, advanced))]
    /\ mixed' = IF advanced # job[j].key[3] THEN mixed \cup {job[j].key} ELSE mixed
    /\ FilesAsTheyAre /\ PageStays

(* The providers answer or fail; what they said, merged, is kept for six   *)
(* hours under the key of the start.                                       *)
ProvidersAnswer(j) ==
    /\ job[j].at = "asking" /\ job[j].kind = "profile"
    /\ \E failing \in SUBSET Failing :
         LET got == job[j].asks \ failing IN
           /\ profileFile' = [profileFile EXCEPT ![job[j].key] = [age |-> "fresh", got |-> got]]
           /\ job' = [job EXCEPT ![j] = Answered(j, IF "gleif" \in got THEN "lei" ELSE "plain")]
    /\ UNCHANGED <<newsFile, changes, mixed>> /\ PageStays

(* get_news: a fresh file; or the providers, one after the other; or, when *)
(* there is nothing relevant, an old file or nothing.                      *)
FetchesNews(j) ==
    /\ TakesUp(j) /\ job[j].kind = "news"
    /\ job' = [job EXCEPT ![j] = IF newsFile[job[j].of] = "fresh" THEN Answered(j, "plain")
                                 ELSE [@ EXCEPT !.at = "asking"]]
    /\ FilesAsTheyAre /\ PageStays /\ UNCHANGED mixed

NewsAnswers(j) ==
    /\ job[j].at = "asking" /\ job[j].kind = "news"
    /\ newsFile' \in {newsFile, [newsFile EXCEPT ![job[j].of] = "fresh"]}
    /\ job' = [job EXCEPT ![j] = Answered(j, "plain")]
    /\ UNCHANGED <<profileFile, changes, mixed>> /\ PageStays

(* An exception: the worker's error signal. *)
Breaks(j) ==
    /\ job[j].at = "asking"
    /\ job' = [job EXCEPT ![j] = Answered(j, "error")]
    /\ FilesAsTheyAre /\ PageStays /\ UNCHANGED mixed

-----------------------------------------------------------------------------
(* Signals on the interface thread.                                        *)

(* Mutant: a result is rendered whichever request it answers.              *)
AnyRequest(id) == accepts

IsCurrentRequest(id) == accepts /\ id = detailId

(* The profile is rendered and changes the company object in place. *)
ProfileSignal(j) ==
    /\ job[j].at = "answered" /\ job[j].kind = "profile"
    /\ job' = [job EXCEPT ![j] = Over(j)]
    /\ IF ~IsCurrentRequest(job[j].id) THEN UNCHANGED <<onPage, enriched>>
       ELSE IF job[j].result = "error"
       THEN onPage' = [onPage EXCEPT !.phase = "failed"] /\ UNCHANGED enriched
       ELSE /\ onPage' = [onPage EXCEPT !.profile = job[j].of, !.phase = "complete"]
            /\ enriched' = IF job[j].result = "lei" THEN enriched \cup {detail} ELSE enriched
    /\ FilesAsTheyAre /\ UNCHANGED <<detail, detailId, accepts, advanced, mixed>>

NewsSignal(j) ==
    /\ job[j].at = "answered" /\ job[j].kind = "news"
    /\ job' = [job EXCEPT ![j] = Over(j)]
    /\ IF ~IsCurrentRequest(job[j].id) THEN UNCHANGED onPage
       ELSE IF job[j].result = "error" THEN onPage' = [onPage EXCEPT !.newsPhase = "failed"]
       ELSE onPage' = [onPage EXCEPT !.news = job[j].of, !.newsPhase = "complete"]
    /\ FilesAsTheyAre /\ UNCHANGED <<detail, detailId, accepts, enriched, advanced, mixed>>

NewsExpires(c) ==
    /\ newsFile[c] = "fresh"
    /\ newsFile' = [newsFile EXCEPT ![c] = "none"]
    /\ changes < MaxChanges /\ changes' = changes + 1
    /\ UNCHANGED <<profileFile, job, mixed>> /\ PageStays

ProfileExpires(k) ==
    /\ profileFile[k].age = "fresh"
    /\ profileFile' = [profileFile EXCEPT ![k] = NoProfileFile]
    /\ changes < MaxChanges /\ changes' = changes + 1
    /\ UNCHANGED <<newsFile, job, mixed>> /\ PageStays

DetailsNext ==
    \/ \E c \in Details : ShowCompany(c) \/ NewsExpires(c)
    \/ RetryNews \/ TurnAdvanced \/ ShutdownDetails
    \/ \E j \in DetailJobs : \/ LooksForProfile(j) \/ ChoosesProviders(j) \/ ProvidersAnswer(j)
                             \/ FetchesNews(j) \/ NewsAnswers(j) \/ Breaks(j)
                             \/ ProfileSignal(j) \/ NewsSignal(j)
    \/ \E k \in ProfileKeys : ProfileExpires(k)

DetailsSpec == DetailsInit /\ [][DetailsNext]_detailsVars

-----------------------------------------------------------------------------

(* Profile and news on the page are those of the company of the page, and  *)
(* while the page says that it is loading one of them, a worker of the     *)
(* current request is still to answer.                                     *)
DetailsBelong ==
    /\ onPage.profile \in {NoDetail, detail} /\ onPage.news \in {NoDetail, detail}
    /\ accepts =>
         /\ onPage.phase = "loading" =>
              \E j \in DetailJobs : job[j].kind = "profile" /\ job[j].id = detailId /\ job[j].at # "over"
         /\ onPage.newsPhase = "loading" =>
              \E j \in DetailJobs : job[j].kind = "news" /\ job[j].id = detailId /\ job[j].at # "over"

(* Among the parts that fill in a field, the one that FIELD_PRIORITY names *)
(* first; among those it does not tell apart, the one of the provider with *)
(* the higher priority; and of one provider's texts the full one.          *)
BestPart(f, parts) ==
    LET filling == {p \in parts : f \in Offers[p.source]}
        better(p, q) ==
            LET fp == Position(FieldPriority[f], p.source)
                fq == Position(FieldPriority[f], q.source)
                pp == Position(ProfilePriority, p.source)
                pq == Position(ProfilePriority, q.source)
            IN  \/ fp < fq
                \/ fp = fq /\ pp < pq
                \/ p.source = q.source /\ p.full
    IN  IF filling = {} THEN NoPart
        ELSE CHOOSE p \in filling : \A q \in filling \ {p} : better(p, q)

PartsOf(c, got) == {LocalPart(c)} \cup {RemotePart(p) : p \in got}

(* Whatever the order of the answers, each field has the value of the      *)
(* preferred source among those that answered.                             *)
OrderDoesNotMatter ==
    \A c \in Details, adv \in BOOLEAN : \A arrived \in Arrivals(ProviderOrder(c, adv)) :
      \A f \in Fields : ProfileOf(c, arrived)[f] = BestPart(f, PartsOf(c, ToSet(arrived)))

(* A cached profile is made of the sources of the mode it is cached under, *)
(* unless the mode changed between the two times the fetch read it.        *)
CachedUnderItsMode ==
    \A k \in ProfileKeys : profileFile[k].got \subseteq ToSet(ProviderOrder(k[1], k[3])) \/ k \in mixed

(* A profile depends on which providers answered and not on the order in   *)
(* which they did, nor, from the cache, on a mode it was not asked in.     *)
MergeFollowsPriority == OrderDoesNotMatter /\ CachedUnderItsMode
=============================================================================
