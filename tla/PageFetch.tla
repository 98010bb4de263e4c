------------------------------ MODULE PageFetch ------------------------------
(***************************************************************************)
(* The pages of one crawl: which are taken from the queue, how one is      *)
(* requested through its redirects (security/url_safety.py,                *)
(* public_api/web_fetcher.py), what is made of the answer                  *)
(* (public_api/content_extractor.py) and which of its links are queued     *)
(* (services/web_evidence_service.py, public_api/crawl_safety.py).         *)
(*                                                                         *)
(* A page stands for a canonical address.  Every check of an address looks *)
(* its host name up again and may get another answer.  CrawlService has    *)
(* the slots, locks, delays and deadlines around these steps,              *)
(* EvidenceStore the table the items are kept in.                          *)
(***************************************************************************)
EXTENDS Naturals, Sequences, FiniteSets, SequencesExt

CONSTANTS
    Pages,         \* canonical addresses
    NoPage,        \* a canonical link that is missing or of no use
    HostOf,        \* the host of each page
    Within,        \* the domains each host lies in, itself included
    Barred,        \* domains never collected from
    Official,      \* the host of the company's website
    Seeds,         \* the pages a crawl starts from, in order
    Disallowed,    \* pages the robots.txt of their host refuses
    OutOfBounds,   \* pages crawl_skip_reason refuses
    Reports,       \* pages whose address ends in .pdf
    AddressSays,   \* the words the address of each page holds
    Priority,      \* the order in which links are followed, no two alike
    Documents,     \* what pages hold: see Extract
    MaxCrawlPages, MaxDepth, MaxQueued, MaxLinks, MaxRedirects,
    MaxSize        \* the largest content, in chunks

ASSUME FetchAssumption ==
    /\ NoPage \notin Pages
    /\ Seeds \in Seq(Pages)
    /\ \A document \in Documents : document.links \in Seq(Pages)
    /\ {MaxCrawlPages, MaxDepth, MaxQueued, MaxLinks, MaxRedirects, MaxSize} \subseteq Nat

(* host_matches: a host lies in itself, and in what its domains lie in.    *)
ASSUME WithinAssumption ==
    LET hosts == {HostOf[p] : p \in Pages}
    IN  \A h \in hosts : h \in Within[h] /\ \A d \in Within[h] \cap hosts : Within[d] \subseteq Within[h]

VARIABLES
    queue,       \* pages to take, with depth and seed
    queued,      \* every page that was ever queued
    processed,   \* pages taken
    sameDomain,  \* policy.same_domain_only of this crawl
    fetch,       \* the page in work
    requested,   \* the requests made for it
    kept,        \* items of the store by canonical page
    skips        \* reasons recorded so far

fetchVars == <<queue, queued, processed, sameDomain, fetch, requested, kept, skips>>

-----------------------------------------------------------------------------
(* Addresses.                                                              *)

SeedHosts == {HostOf[Seeds[i]] : i \in DOMAIN Seeds}

(* The checks of URLSafetyValidator.validate before the name is looked up. *)
InScope(p, domains) ==
    /\ Within[HostOf[p]] \cap Barred = {}
    /\ domains # {} => Within[HostOf[p]] \cap domains # {}

(* What a look-up finds: public addresses only, an address of the own      *)
(* network among them, or nothing.                                         *)
Lookups == {"public", "own", "none"}

Valid(p, domains, lookup) == InScope(p, domains) /\ lookup = "public"

SameDomain(p, host) == host \in Within[HostOf[p]]

IsOfficial(p) == SameDomain(p, Official)

-----------------------------------------------------------------------------
(* Extraction.  A document has the parts it holds, the words its title and *)
(* description say, its canonical link and its links.                      *)

FirstOf(order, parts) ==
    LET present == {i \in DOMAIN order : order[i] \in parts}
    IN  IF present = {} THEN "none" ELSE order[Min(present)]

TitleFrom(parts) == FirstOf(<<"og:title", "title", "h1", "ld headline">>, parts)

DescriptionFrom(parts) == FirstOf(<<"description", "og:description", "ld description">>, parts)

SnippetFrom(parts) == FirstOf(<<"description", "og:description", "ld description", "text">>, parts)

HashFrom(parts) ==
    LET content == FirstOf(<<"text", DescriptionFrom(parts), TitleFrom(parts)>>, parts)
    IN  IF content = "none" THEN "address" ELSE content

(* classify_content: the first rule that fits. *)
ReportRules == <<[says |-> {"annual report", "annual"}, type |-> "annual_report"],
                 [says |-> {"pdf"}, type |-> "financial_report"]>>

PageRules(official) ==
    <<[says |-> {"annual report"}, type |-> "annual_report"],
      [says |-> {"ld pressrelease", "press"}, type |-> "press_release"],
      [says |-> {"investor"}, type |-> "investor_relations"],
      [says |-> {"announcement"}, type |-> "announcement"],
      [says |-> {"results"}, type |-> "financial_report"],
      [says |-> {"blog"}, type |-> IF official THEN "official_blog" ELSE "other"],
      [says |-> {"career"}, type |-> "careers"],
      [says |-> {"product"}, type |-> "product"],
      [says |-> {"ld article", "news"}, type |-> IF official THEN "official_news" ELSE "third_party_news"],
      [says |-> IF official THEN {"home"} ELSE {}, type |-> "company_homepage"]>>

ContentType(says, official) ==
    LET rules == IF "pdf" \in says THEN ReportRules ELSE PageRules(official)
        fitting == {i \in DOMAIN rules : rules[i].says \cap says # {}}
    IN  IF fitting = {} THEN "other" ELSE rules[Min(fitting)].type

(* The first of the addresses linked to; _prioritized_links has an order   *)
(* of its own.                                                             *)
LinksOf(document) ==
    {document.links[i] : i \in {n \in DOMAIN document.links :
                                  Cardinality({document.links[m] : m \in 1..n - 1}) < MaxLinks}}

NoItem == [page |-> NoPage, asked |-> NoPage, canonical |-> NoPage, official |-> FALSE,
           display |-> "none", text |-> "none", title |-> "none", hash |-> "none", type |-> "other",
           size |-> 0, links |-> {}]

(* extract_web_evidence: the text itself is kept for official pages only.  *)
Extract(document, asked, final, official, size) ==
    [page      |-> final, asked |-> asked,
     canonical |-> IF document.canonical = NoPage THEN final ELSE document.canonical,
     official  |-> official,
     display   |-> IF official THEN "full_cleaned_text" ELSE "excerpt_only",
     text      |-> IF ~official THEN SnippetFrom(document.parts)
                   ELSE IF "text" \in document.parts THEN "full text" ELSE "none",
     title     |-> TitleFrom(document.parts),
     hash      |-> HashFrom(document.parts),
     type      |-> ContentType(AddressSays[final] \cup document.says, official),
     size      |-> size,
     links     |-> LinksOf(document)]

(* extract_pdf_evidence: nothing of the content. *)
ExtractPdf(asked, final, official) ==
    [NoItem EXCEPT !.page = final, !.asked = asked, !.canonical = final, !.official = official,
                   !.display = "metadata_only", !.title = "file name", !.hash = "address",
                   !.type = ContentType(AddressSays[final] \cup {"pdf"}, official)]

-----------------------------------------------------------------------------
(* The crawl.                                                              *)

Idle == [at |-> "idle", asked |-> NoPage, page |-> NoPage, depth |-> 0, seed |-> NoPage, scope |-> {},
         hops |-> 0, kind |-> "none", size |-> 0]

FetchInit ==
    /\ queue = [i \in DOMAIN Seeds |-> [page |-> Seeds[i], depth |-> 0, seed |-> Seeds[i]]]
    /\ queued = ToSet(Seeds)
    /\ processed = {}
    /\ sameDomain \in BOOLEAN
    /\ fetch = Idle
    /\ requested = <<>>
    /\ kept = [p \in Pages |-> NoItem]
    /\ skips = {}

Skip(type) ==
    /\ skips' = skips \cup {type}
    /\ fetch' = Idle /\ requested' = <<>>
    /\ UNCHANGED <<queue, queued, processed, sameDomain, kept>>

(* The links of an item that may be queued: those not queued yet, of the   *)
(* domain of the seed, in scope and with a name that is found.             *)
Eligible(item, taken, found) ==
    {p \in item.links :
       /\ taken.depth < MaxDepth /\ item.display # "metadata_only"
       /\ p \notin processed \cup queued
       /\ sameDomain => SameDomain(p, HostOf[taken.seed])
       /\ InScope(p, SeedHosts) /\ p \in found /\ p \notin OutOfBounds}

(* They are queued by their priority until the queue is full, which is     *)
(* noticed when one has been added; those turned down up to then are       *)
(* recorded as skipped.                                                    *)
FollowLinks(item, taken) ==
    \E found \in SUBSET item.links :
      LET eligible == Eligible(item, taken, found)
          room == Max({MaxQueued - Cardinality(queued), 1})
      IN  \E n \in 0..MaxLinks : \E next \in [1..n -> eligible] :
            /\ n = Min({room, Cardinality(eligible)})
            /\ \A i \in 1..n :
                 LET rest == eligible \ {next[j] : j \in 1..i - 1}
                 IN  next[i] \in rest /\ \A p \in rest : Priority[next[i]] <= Priority[p]
            /\ queue' = queue \o [i \in 1..n |-> [page |-> next[i], depth |-> taken.depth + 1,
                                                 seed |-> taken.seed]]
            /\ queued' = queued \cup {next[i] : i \in 1..n}
            /\ skips' = skips \cup {"skipped" : p \in {q \in item.links \ (processed \cup queued \cup eligible) :
                                      /\ taken.depth < MaxDepth /\ item.display # "metadata_only"
                                      /\ n < room \/ Priority[q] < Priority[next[n]]}}

(* save_evidence, one row per canonical page. *)
Keep(item, taken) ==
    /\ kept' = [kept EXCEPT ![item.canonical] = item]
    /\ FollowLinks(item, taken)
    /\ fetch' = Idle /\ requested' = <<>>
    /\ UNCHANGED <<processed, sameDomain>>

TakeFromQueue ==
    /\ fetch.at = "idle" /\ queue # <<>> /\ Cardinality(processed) < MaxCrawlPages
    /\ queue' = Tail(queue)
    /\ LET taken == Head(queue) IN
         IF taken.page \in processed THEN UNCHANGED <<processed, fetch>>
         ELSE /\ processed' = processed \cup {taken.page}
              /\ fetch' = [Idle EXCEPT !.at = "taken", !.asked = taken.page, !.page = taken.page,
                                       !.depth = taken.depth, !.seed = taken.seed]
    /\ UNCHANGED <<queued, sameDomain, requested, kept, skips>>

(* The beginning of _process_url, up to the request.  A robots.txt that is *)
(* not safe to ask or too large refuses pages it would allow.              *)
Refuse ==
    /\ fetch.at = "taken"
    /\ \E lookup \in Lookups :
         \/ ~Valid(fetch.asked, SeedHosts, lookup) /\ Skip("skipped")
         \/ /\ Valid(fetch.asked, SeedHosts, lookup)
            /\ \/ fetch.asked \in OutOfBounds /\ Skip("skipped")
               \/ fetch.asked \notin OutOfBounds /\ Skip("robots_blocked")

MayRequest == fetch.at = "taken" /\ InScope(fetch.asked, SeedHosts)
              /\ fetch.asked \notin OutOfBounds \cup Disallowed

KeepReportUnread ==
    /\ MayRequest /\ fetch.asked \in Reports
    /\ Keep(ExtractPdf(fetch.asked, fetch.asked, IsOfficial(fetch.asked)), fetch)

ServeFromStore ==
    /\ MayRequest /\ fetch.asked \notin Reports
    /\ kept[fetch.asked] # NoItem
    /\ FollowLinks(kept[fetch.asked], fetch)
    /\ fetch' = Idle
    /\ UNCHANGED <<processed, sameDomain, requested, kept>>

StartRequest ==
    /\ MayRequest /\ fetch.asked \notin Reports
    /\ kept[fetch.asked] = NoItem
    /\ fetch' = [fetch EXCEPT !.at = "check",
                              !.scope = IF sameDomain THEN {HostOf[fetch.asked]} ELSE SeedHosts]
    /\ UNCHANGED <<queue, queued, processed, sameDomain, requested, kept, skips>>

-----------------------------------------------------------------------------
(* safe_fetch_url: redirects are followed by hand, and each address is     *)
(* checked before its request.                                             *)

FetchGoesOn == UNCHANGED <<queue, queued, processed, sameDomain, kept, skips>>

SendRequest ==
    /\ fetch.at = "check"
    /\ \E lookup \in Lookups :
         IF Valid(fetch.page, fetch.scope, lookup)
         THEN /\ requested' = Append(requested, fetch.page)
              /\ fetch' = [fetch EXCEPT !.at = "sent"]
              /\ FetchGoesOn
         ELSE Skip("unsafe_url")

(* No connection, no answer in time, or an answer from an address other    *)
(* than a public one.                                                      *)
LoseConnection ==
    /\ fetch.at \in {"sent", "body"}
    /\ \E type \in {"network_timeout", "network_error"} : Skip(type)

RejectPeer == fetch.at = "sent" /\ Skip("unsafe_url")

(* Mutant: the target of a redirect is not checked against the scope.      *)
FollowUnchecked(p) ==
    /\ fetch.at = "sent" /\ fetch.hops < MaxRedirects
    /\ fetch' = [fetch EXCEPT !.at = "check", !.page = p, !.hops = @ + 1, !.scope = {}]
    /\ UNCHANGED requested /\ FetchGoesOn

FollowRedirect(p) ==
    /\ fetch.at = "sent"
    /\ \E lookup \in Lookups :
         IF fetch.hops < MaxRedirects /\ Valid(p, fetch.scope, lookup)
         THEN /\ fetch' = [fetch EXCEPT !.at = "check", !.page = p, !.hops = @ + 1]
              /\ UNCHANGED requested /\ FetchGoesOn
         ELSE Skip("unsafe_url")

RejectStatus == fetch.at = "sent" /\ Skip("http_error")

(* The declared length is no more than a first guess. *)
AcceptBody ==
    /\ fetch.at = "sent"
    /\ \E kind \in {"text", "other"} : fetch' = [fetch EXCEPT !.at = "body", !.kind = kind]
    /\ UNCHANGED requested /\ FetchGoesOn

AcceptPdf ==
    /\ fetch.at = "sent"
    /\ fetch' = [fetch EXCEPT !.at = "whole", !.kind = "pdf"]
    /\ UNCHANGED requested /\ FetchGoesOn

RejectDeclaredSize == fetch.at = "sent" /\ Skip("response_too_large")

ReadChunk ==
    /\ fetch.at = "body"
    /\ IF fetch.size + 1 > MaxSize THEN Skip("response_too_large")
       ELSE /\ fetch' = [fetch EXCEPT !.size = @ + 1]
            /\ UNCHANGED requested /\ FetchGoesOn

EndBody ==
    /\ fetch.at = "body"
    /\ fetch' = [fetch EXCEPT !.at = "whole"]
    /\ UNCHANGED requested /\ FetchGoesOn

(* The address of the answer is checked once more. *)
RejectFinalAddress == fetch.at = "whole" /\ (Skip("unsafe_url") \/ Skip("unsafe_redirect"))

-----------------------------------------------------------------------------
(* The end of _process_url.                                                *)

(* Mutant: what is official was settled before the redirects.              *)
OfficialAsAsked == IsOfficial(fetch.asked)

OfficialSource == IsOfficial(fetch.page)

KeepPdf ==
    /\ fetch.at = "whole" /\ fetch.kind = "pdf"
    /\ Keep(ExtractPdf(fetch.asked, fetch.page, OfficialSource), fetch)

SkipOtherContent == fetch.at = "whole" /\ fetch.kind = "other" /\ Skip("skipped")

(* A canonical link out of scope, or to a host that is not found, gives    *)
(* way to the address of the answer.                                       *)
KeepText ==
    /\ fetch.at = "whole" /\ fetch.kind = "text"
    /\ \E document \in Documents, lookup \in Lookups :
         LET item == Extract(document, fetch.asked, fetch.page, OfficialSource, fetch.size)
         IN  Keep(IF Valid(item.canonical, SeedHosts, lookup) THEN item
                  ELSE [item EXCEPT !.canonical = fetch.page], fetch)

FetchNext ==
    \/ TakeFromQueue \/ Refuse \/ KeepReportUnread \/ ServeFromStore \/ StartRequest
    \/ SendRequest \/ LoseConnection \/ RejectPeer \/ RejectStatus \/ AcceptBody \/ AcceptPdf
    \/ RejectDeclaredSize \/ ReadChunk \/ EndBody \/ RejectFinalAddress
    \/ KeepPdf \/ SkipOtherContent \/ KeepText
    \/ \E p \in Pages : FollowRedirect(p)

FetchSpec == FetchInit /\ [][FetchNext]_fetchVars

-----------------------------------------------------------------------------

(* Whatever the redirects and canonical links: a crawl asks and keeps only *)
(* pages in its scope, that of one host if the policy says so, keeps under *)
(* addresses in scope, keeps no more of a page than the limit, and the     *)
(* full text only of pages that came from the company's own site.          *)
KeptPagesBelong ==
    /\ Len(requested) <= MaxRedirects + 1
    /\ \A i \in DOMAIN requested :
         InScope(requested[i], IF sameDomain THEN {HostOf[fetch.asked]} ELSE SeedHosts)
    /\ \A p \in Pages : kept[p] # NoItem =>
         LET item == kept[p] IN
           /\ InScope(p, SeedHosts)
           /\ InScope(item.page, IF sameDomain THEN {HostOf[item.asked]} ELSE SeedHosts)
           /\ item.size <= MaxSize
           /\ item.text = "full text" => IsOfficial(item.page)
           /\ item.type \in {"official_blog", "official_news", "company_homepage"} => IsOfficial(item.page)
           /\ item.display = "metadata_only" => item.size = 0 /\ item.text = "none"

(* README.md:22: every target and redirect passes the robots.txt policy.   *)
RobotsAllowEveryTarget == \A i \in DOMAIN requested : requested[i] \notin Disallowed
=============================================================================
