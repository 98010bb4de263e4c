--------------------------- MODULE ProfileAdoption ---------------------------
(***************************************************************************)
(* How a value that a crawl finds on the company's own site comes into the *)
(* profile on the company page (public_api/profile_candidates.py, its use  *)
(* in services/web_evidence_service.py and ui/pages/company_detail.py).    *)
(* One field of one company: its profile object is shared between the      *)
(* interface thread and the crawls that were started while it was loaded,  *)
(* its candidates are rows of the evidence database, and the user decides  *)
(* on those the page showed as pending.                                    *)
(*                                                                         *)
(* A candidate stands for its page: each page claims one value, and the id *)
(* of the candidate is made of the page's evidence, the field and the      *)
(* value.                                                                  *)
(***************************************************************************)
EXTENDS Naturals, Sequences, FiniteSets, SequencesExt

CONSTANTS
    Claims,      \* candidates: what the pages of the site say of the field
    Says,        \* the value each claims
    Strong,      \* those from an organization's JSON-LD, of confidence 0.9 or more
    Provided,    \* values the providers, the index or the cache may have of the field
    NoValue,     \* nothing is_meaningful_value accepts
    Crawlers,    \* crawls
    MaxLoads,    \* profiles loaded, at most
    MaxVisits    \* pages visited, at most

ASSUME AdoptionAssumption ==
    /\ Strong \subseteq Claims /\ DOMAIN Says = Claims
    /\ \A c \in Claims : Says[c] # NoValue

VARIABLES
    object,      \* the value of the field in each profile object so far
    heading,     \* its value in the company object of the page
    evidenced,   \* pages with a row of web_evidence
    rowsOf,      \* rows of profile_field_candidates, [of, status], newest first
    offered,     \* candidates the page shows with its buttons
    crawler,     \* what each crawl is doing
    visits,
    accepted,    \* candidates applied as accepted since the profile was loaded
    sneaked,     \* applied by a crawl that came to their page when they were rejected
    overtaken    \* a crawl went on with what it had read before it changed

adoptionVars == <<object, heading, evidenced, rowsOf, offered, crawler, visits, accepted, sneaked, overtaken>>

-----------------------------------------------------------------------------

Loaded == Len(object)

StatusesOf(c) == {r.status : r \in {x \in Range(rowsOf) : x.of = c}}

Rejected == {c \in Claims : "rejected" \in StatusesOf(c)}

PendingIn(some) == {r.of : r \in {x \in Range(some) : x.status = "pending"}}

(* apply_auto_accepted_candidates, for one candidate: what the user        *)
(* accepted always, what was accepted for him only where there is nothing. *)
Adopt(value, c, status) ==
    IF status = "accepted" \/ (status = "auto_accepted" /\ value = NoValue) THEN Says[c] ELSE value

AdoptAll(value, some) ==
    LET after[n \in 0..Len(some)] ==
          IF n = 0 THEN value ELSE Adopt(after[n - 1], some[n].of, some[n].status)
    IN  after[Len(some)]

(* _company_from_profile *)
Headed(value) == heading' = IF value # NoValue THEN value ELSE heading

IdleCrawler == [at |-> "none", object |-> 0, of |-> {}, status |-> "none", read |-> NoValue, spared |-> {},
                found |-> FALSE]

AdoptionInit ==
    /\ object \in {<<v>> : v \in Provided \cup {NoValue}}
    /\ heading = object[1]
    /\ evidenced = {} /\ rowsOf = <<>> /\ offered = {}
    /\ crawler = [w \in Crawlers |-> IdleCrawler]
    /\ visits = 0
    /\ accepted = {} /\ sneaked = {} /\ overtaken = FALSE

(* The page is opened again or the providers answer: a new profile object, *)
(* made of what they, the cache and the company object say.                *)
LoadProfile ==
    /\ Loaded < MaxLoads
    /\ \E v \in Provided \cup {NoValue, heading} :
         LET value == AdoptAll(v, rowsOf) IN
           /\ object' = Append(object, value)
           /\ Headed(value)
    /\ accepted' = {r.of : r \in {x \in Range(rowsOf) : x.status = "accepted"}}
    /\ offered' \in {offered, PendingIn(rowsOf)}
    /\ UNCHANGED <<evidenced, rowsOf, crawler, visits, sneaked, overtaken>>

-----------------------------------------------------------------------------
(* A crawl.                                                                *)

Nowhere == UNCHANGED <<object, heading, evidenced, rowsOf, offered, visits, accepted, sneaked, overtaken>>

(* _start_web_evidence_crawl hands over the profile object of the page.    *)
StartAdopting(w) ==
    /\ crawler[w].at = "none"
    /\ crawler' = [crawler EXCEPT ![w].at = "page", ![w].object = Loaded]
    /\ Nowhere

(* profile_candidates_from_evidence: a strong claim is accepted for the    *)
(* user where the profile has nothing.                                     *)
CandidateStatus(value, c) == IF c \in Strong /\ value = NoValue THEN "auto_accepted" ELSE "pending"

VisitPage(w, c) ==
    /\ crawler[w].at = "page"
    /\ visits < MaxVisits /\ visits' = visits + 1
    /\ evidenced' = evidenced \cup {c}
    /\ crawler' = [crawler EXCEPT ![w].at = "list", ![w].of = {c},
                                  ![w].status = CandidateStatus(object[crawler[w].object], c),
                                  ![w].spared = {c} \cap Rejected]
    /\ UNCHANGED <<object, heading, rowsOf, offered, accepted, sneaked, overtaken>>

(* Mutant: the store is only asked when the candidate is saved. *)
ListStatusesLater(w) ==
    /\ crawler[w].at = "list"
    /\ crawler' = [crawler EXCEPT ![w].at = "read"]
    /\ Nowhere

(* A decision of the user found in the store replaces the status. *)
ListStatuses(w) ==
    /\ crawler[w].at = "list"
    /\ \E c \in crawler[w].of :
         LET decided == StatusesOf(c) \cap {"accepted", "rejected"} IN
         crawler' = [crawler EXCEPT ![w].at = "read",
                                    ![w].status = IF decided = {} THEN @ ELSE CHOOSE s \in decided : TRUE]
    /\ Nowhere

(* apply_auto_accepted_candidates on the thread of the crawl: the field is *)
(* read first and written next.                                            *)
ReadField(w) ==
    /\ crawler[w].at = "read"
    /\ crawler' = [crawler EXCEPT ![w].at = "write", ![w].read = object[crawler[w].object]]
    /\ Nowhere

WriteField(w) ==
    /\ crawler[w].at = "write"
    /\ \E c \in crawler[w].of :
         LET k == crawler[w]
             before == object[k.object]
             adopts == k.status = "accepted" \/ (k.status = "auto_accepted" /\ k.read = NoValue)
         IN  /\ object' = [object EXCEPT ![k.object] = IF adopts THEN Says[c] ELSE @]
             /\ accepted' = IF adopts /\ k.status = "accepted" /\ k.object = Loaded THEN accepted \cup {c} ELSE accepted
             /\ sneaked' = IF adopts THEN sneaked \cup (k.spared \cap Rejected) ELSE sneaked
             /\ overtaken' = (overtaken \/ (adopts /\ before # k.read))
    /\ crawler' = [crawler EXCEPT ![w].at = "save", ![w].read = NoValue, ![w].spared = {}]
    /\ UNCHANGED <<heading, evidenced, rowsOf, offered, visits>>

(* save_candidate: a row that is there keeps its date and what the user    *)
(* decided.  Without its evidence the row is refused and the crawl ends.   *)
SaveStatus(w) ==
    /\ crawler[w].at = "save"
    /\ \E c \in crawler[w].of :
         IF c \notin evidenced THEN crawler' = [crawler EXCEPT ![w] = IdleCrawler] /\ UNCHANGED rowsOf
         ELSE /\ crawler' = [crawler EXCEPT ![w].at = "page", ![w].of = {}, ![w].status = "none",
                                            ![w].found = TRUE]
              /\ rowsOf' = IF StatusesOf(c) = {} THEN <<[of |-> c, status |-> crawler[w].status]>> \o rowsOf
                           ELSE [i \in DOMAIN rowsOf |->
                                   IF rowsOf[i].of = c /\ rowsOf[i].status \notin {"accepted", "rejected"}
                                   THEN [of |-> c, status |-> crawler[w].status] ELSE rowsOf[i]]
    /\ UNCHANGED <<object, heading, evidenced, offered, visits, accepted, sneaked, overtaken>>

(* _render_web_evidence_result: the profile is shown again when candidates  *)
(* were found.                                                             *)
CrawlIsShown(w) ==
    /\ crawler[w].at = "page"
    /\ crawler' = [crawler EXCEPT ![w] = IdleCrawler]
    /\ offered' = PendingIn(rowsOf)
    /\ IF crawler[w].found THEN Headed(object[Loaded]) ELSE UNCHANGED heading
    /\ UNCHANGED <<object, evidenced, rowsOf, visits, accepted, sneaked, overtaken>>

-----------------------------------------------------------------------------
(* The user.                                                               *)

Redecided(c, status) == [i \in DOMAIN rowsOf |-> IF rowsOf[i].of = c THEN [of |-> c, status |-> status] ELSE rowsOf[i]]

(* _set_profile_candidate_status, for a candidate that is still stored. *)
RejectCandidate(c) ==
    /\ c \in offered /\ StatusesOf(c) # {}
    /\ rowsOf' = Redecided(c, "rejected")
    /\ offered' = PendingIn(rowsOf')
    /\ UNCHANGED <<object, heading, evidenced, crawler, visits, accepted, sneaked, overtaken>>

AcceptCandidate(c) ==
    /\ c \in offered /\ StatusesOf(c) # {}
    /\ rowsOf' = Redecided(c, "accepted")
    /\ offered' = PendingIn(rowsOf')
    /\ object' = [object EXCEPT ![Loaded] = Says[c]]
    /\ Headed(Says[c])
    /\ accepted' = accepted \cup {c}
    /\ UNCHANGED <<evidenced, crawler, visits, sneaked, overtaken>>

(* A page has at most one candidate. *)
RowsWithout(c) ==
    IF \E i \in DOMAIN rowsOf : rowsOf[i].of = c
    THEN RemoveAt(rowsOf, CHOOSE i \in DOMAIN rowsOf : rowsOf[i].of = c) ELSE rowsOf

(* delete_evidence, and clear_company for all of them: the candidates go   *)
(* with their pages, the profile keeps what it adopted.                    *)
ForgetPages(some, left) ==
    /\ some \cap evidenced # {}
    /\ evidenced' = evidenced \ some
    /\ rowsOf' = left
    /\ offered' = PendingIn(rowsOf')
    /\ overtaken' = (overtaken \/ \E w \in Crawlers : crawler[w].of \cap some # {})
    /\ UNCHANGED <<object, heading, crawler, visits, accepted, sneaked>>

AdoptionNext ==
    \/ LoadProfile
    \/ \E w \in Crawlers :
         \/ StartAdopting(w) \/ ListStatuses(w) \/ ReadField(w) \/ WriteField(w) \/ SaveStatus(w) \/ CrawlIsShown(w)
         \/ \E c \in Claims : VisitPage(w, c)
    \/ \E c \in Claims : RejectCandidate(c) \/ AcceptCandidate(c) \/ ForgetPages({c}, RowsWithout(c))
    \/ ForgetPages(Claims, <<>>)

AdoptionSpec == AdoptionInit /\ [][AdoptionNext]_adoptionVars

-----------------------------------------------------------------------------

(* What the user decided on a candidate holds whatever crawls run: while a *)
(* candidate he accepted is stored, the profile of the page has a value he *)
(* accepted; and none he had rejected when a crawl came to its page is     *)
(* applied by it.  The exception is a crawl that is overtaken: the field   *)
(* changes between its reading and its writing, or the page is forgotten   *)
(* while it is read.                                                       *)
DecisionsShow ==
    \/ overtaken
    \/ /\ {r \in Range(rowsOf) : r.status = "accepted"} # {} =>
            object[Loaded] \in {Says[c] : c \in accepted}
       /\ sneaked = {}
=============================================================================
