--------------------------- MODULE EvidenceStore ---------------------------
(***************************************************************************)
(* The web-evidence database (public_api/web_evidence_store.py): the       *)
(* tables web_evidence and profile_field_candidates, the crawl workers     *)
(* that fill them page by page (services/web_evidence_service.py) and the  *)
(* user's deletions and decisions on the company page                      *)
(* (ui/pages/company_detail.py).                                           *)
(*                                                                         *)
(* A page is a canonical URL with the hash of its text and the profile     *)
(* values its structured data proposes; text, titles and links are left    *)
(* out.  One proposal is one (field, value) pair.  Evidence ids are the    *)
(* sha256 of company and URL, modelled as that pair: injective.            *)
(*                                                                         *)
(* save_evidence reads the duplicates of an item before its transaction    *)
(* opens, so the read and the write are two steps; what separates them     *)
(* from the other users of this store object is only _write_lock.  The     *)
(* settings page owns a second store object, hence a second lock, on the   *)
(* same file: ClearAll is not excluded by the lock of this one.            *)
(***************************************************************************)
EXTENDS Naturals

CONSTANTS
    Companies,   \* company ids (CompanyResult.dedupe_key)
    Urls,        \* canonical URLs
    Hashes,      \* content hashes
    Proposals,   \* (field, value) pairs that structured data may propose
    Workers,     \* crawl worker threads
    Free,        \* the write lock when nobody holds it
    NoItem       \* a worker that has no item in hand

ASSUME SentinelAssumption == Free \notin Workers

VARIABLES
    evidence,    \* rows of web_evidence
    candidates,  \* rows of profile_field_candidates
    lock,        \* _write_lock of the store the company page and its workers share
    pc,          \* where each worker stands in the handling of its page
    item,        \* the WebEvidenceItem a worker has in hand
    doomed,      \* ids of the duplicates save_evidence is about to delete
    unsaved,     \* candidates a worker still has to save
    shown        \* candidates the page shows with accept and reject buttons

vars == <<evidence, candidates, lock, pc, item, doomed, unsaved, shown>>

-----------------------------------------------------------------------------

EvidenceId == [company: Companies, url: Urls]

Row == [id: EvidenceId, url: Urls, hash: Hashes, claims: SUBSET Proposals,
        fresh: BOOLEAN]

Item == [id: EvidenceId, url: Urls, hash: Hashes, claims: SUBSET Proposals]

Decided == {"accepted", "rejected"}

CandidateStatus == Decided \cup {"pending", "auto_accepted"}

CandidateId == [evidence_id: EvidenceId, proposal: Proposals]

Candidate == [id: CandidateId, source_url: Urls, status: CandidateStatus]

(***************************************************************************)
(* The company of a row or an item is the company of its id: ids are made  *)
(* for one company and a row only ever takes over the id of a row of the   *)
(* same company.                                                           *)
(***************************************************************************)
SameCompany(r, s) == r.id.company = s.id.company

(* Mutant: the content hash is forgotten.                                  *)
DuplicatesByUrl(r, s) == SameCompany(r, s) /\ r.url = s.url

Duplicates(r, s) == SameCompany(r, s) /\ (r.url = s.url \/ r.hash = s.hash)

(* Mutant: every statement proceeds as if the lock were free.              *)
IgnoreLock == TRUE

WriteLockFree == lock = Free

(* Mutant: foreign keys are not enforced.                                  *)
AssumePresent(id) == TRUE

Present(id) == \E r \in evidence : r.id = id

(* Mutant: deleting evidence does not cascade.                             *)
NoCascade(ids) == {}

CandidatesOf(ids) == {c \in candidates : c.id.evidence_id \in ids}

(* Mutant: a rediscovered candidate takes the new status whatever it was.  *)
Overwritten(old, new) == [old EXCEPT !.status = new.status]

(* The ON CONFLICT clause of save_candidate. *)
Upserted(old, new) ==
    IF old.status \in Decided THEN old ELSE [old EXCEPT !.status = new.status]

(* Mutant: the page remembers rows in place of ids.                        *)
PendingRowsOf(company, rows) ==
    {d \in rows : d.id.evidence_id.company = company /\ d.status = "pending"}

PendingOf(company, rows) ==
    {c.id : c \in {d \in rows : /\ d.id.evidence_id.company = company
                                /\ d.status = "pending"}}

-----------------------------------------------------------------------------

Init ==
    /\ evidence = {}
    /\ candidates = {}
    /\ lock = Free
    /\ pc = [w \in Workers |-> "idle"]
    /\ item = [w \in Workers |-> NoItem]
    /\ doomed = [w \in Workers |-> {}]
    /\ unsaved = [w \in Workers |-> {}]
    /\ shown = {}

(***************************************************************************)
(* First half of save_evidence: under the lock, find the rows with the     *)
(* item's URL or hash; the first one, a row with the same URL before one   *)
(* with the same hash, lends its id to the item and the rest are doomed.   *)
(***************************************************************************)
MatchEvidence(w, company, url, hash, claims) ==
    LET fresh == [id |-> [company |-> company, url |-> url], url |-> url,
                  hash |-> hash, claims |-> claims]
        matches == {r \in evidence : Duplicates(r, fresh)}
        sameUrl == {r \in matches : r.url = url}
    IN  /\ pc[w] = "idle"
        /\ WriteLockFree
        /\ lock' = w
        /\ pc' = [pc EXCEPT ![w] = "matched"]
        /\ \/ /\ matches = {}
              /\ item' = [item EXCEPT ![w] = fresh]
              /\ UNCHANGED doomed
           \/ \E first \in IF sameUrl # {} THEN sameUrl ELSE matches :
                /\ item' = [item EXCEPT ![w] = [fresh EXCEPT !.id = first.id]]
                /\ doomed' = [doomed EXCEPT ![w] =
                                {r.id : r \in matches} \ {first.id}]
        /\ UNCHANGED <<evidence, candidates, unsaved, shown>>

(***************************************************************************)
(* Second half of save_evidence, one transaction: delete the duplicates    *)
(* (their candidates go with them, ON DELETE CASCADE), then insert the     *)
(* item, overwriting the row that has its id.  The table's two UNIQUE      *)
(* constraints make the transaction fail when another row has the item's   *)
(* URL or hash.                                                            *)
(***************************************************************************)
WriteEvidence(w) ==
    LET kept == {r \in evidence : r.id \notin doomed[w]}
        others == {r \in kept : r.id # item[w].id}
        conflict == \E r \in others : Duplicates(r, item[w])
        row == [id |-> item[w].id, url |-> item[w].url, hash |-> item[w].hash,
                claims |-> item[w].claims, fresh |-> TRUE]
    IN  /\ pc[w] = "matched"
        /\ lock' = Free
        /\ pc' = [pc EXCEPT ![w] = IF conflict THEN "constraint_error" ELSE "has_item"]
        /\ evidence' = IF conflict THEN evidence ELSE others \cup {row}
        /\ candidates' = IF conflict THEN candidates
                         ELSE candidates \ CandidatesOf(doomed[w])
        /\ doomed' = [doomed EXCEPT ![w] = {}]
        /\ UNCHANGED <<item, unsaved, shown>>

(* cached_evidence: an unexpired row answers for the page. *)
HitCache(w, r) ==
    /\ pc[w] = "idle"
    /\ r.fresh
    /\ pc' = [pc EXCEPT ![w] = "has_item"]
    /\ item' = [item EXCEPT ![w] = [id |-> r.id, url |-> r.url, hash |-> r.hash,
                                    claims |-> r.claims]]
    /\ UNCHANGED <<evidence, candidates, lock, doomed, unsaved, shown>>

(***************************************************************************)
(* The crawl loop turns the item's claims into candidates.  A claim whose  *)
(* stored candidate the user has decided takes that decision; any other    *)
(* is auto-accepted or pending, depending on the profile, which is not     *)
(* part of this model.                                                     *)
(***************************************************************************)
ProposeCandidates(w, proposed) ==
    LET cid(p) == [evidence_id |-> item[w].id, proposal |-> p]
        decision(p) == {c \in candidates : c.id = cid(p) /\ c.status \in Decided}
    IN  /\ pc[w] = "has_item"
        /\ pc' = [pc EXCEPT ![w] = "saving"]
        /\ unsaved' = [unsaved EXCEPT ![w] =
             {[id |-> cid(p), source_url |-> item[w].url,
               status |-> IF decision(p) = {} THEN proposed[p]
                          ELSE (CHOOSE c \in decision(p) : TRUE).status] :
                p \in item[w].claims}]
        /\ UNCHANGED <<evidence, candidates, lock, item, doomed, shown>>

(***************************************************************************)
(* save_candidate: one INSERT ... ON CONFLICT under the lock.  A stored    *)
(* candidate keeps its source URL, and its status when the user decided    *)
(* it.  The foreign key refuses a candidate whose evidence row is gone;    *)
(* the exception leaves crawl().                                           *)
(***************************************************************************)
SaveCandidate(w, c) ==
    LET old == {d \in candidates : d.id = c.id}
    IN  /\ pc[w] = "saving"
        /\ c \in unsaved[w]
        /\ WriteLockFree
        /\ \/ /\ Present(c.id.evidence_id)
              /\ candidates' = (candidates \ old) \cup
                    (IF old = {} THEN {c} ELSE {Upserted(d, c) : d \in old})
              /\ unsaved' = [unsaved EXCEPT ![w] = @ \ {c}]
              /\ UNCHANGED pc
           \/ /\ ~Present(c.id.evidence_id)
              /\ unsaved' = [unsaved EXCEPT ![w] = {}]
              /\ pc' = [pc EXCEPT ![w] = "foreign_key_error"]
              /\ UNCHANGED candidates
        /\ UNCHANGED <<evidence, lock, item, doomed, shown>>

(* The page is done, or the crawl ended by an exception: the thread is     *)
(* ready for another page or another job.                                  *)
NextPage(w) ==
    /\ \/ pc[w] = "saving" /\ unsaved[w] = {}
       \/ pc[w] \in {"constraint_error", "foreign_key_error"}
    /\ pc' = [pc EXCEPT ![w] = "idle"]
    /\ item' = [item EXCEPT ![w] = NoItem]
    /\ UNCHANGED <<evidence, candidates, lock, doomed, unsaved, shown>>

-----------------------------------------------------------------------------

(* The time-to-live of a row runs out (expires_at). *)
Expire(r) ==
    /\ r.fresh
    /\ evidence' = (evidence \ {r}) \cup {[r EXCEPT !.fresh = FALSE]}
    /\ UNCHANGED <<candidates, lock, pc, item, doomed, unsaved, shown>>

(* The candidate list of the current company is (re)drawn. *)
RenderCandidates(company) ==
    /\ shown' = PendingOf(company, candidates)
    /\ UNCHANGED <<evidence, candidates, lock, pc, item, doomed, unsaved>>

(* delete_evidence from an evidence card, then a redraw. *)
DeleteEvidence(r) ==
    /\ WriteLockFree
    /\ evidence' = evidence \ {r}
    /\ candidates' = candidates \ CandidatesOf({r.id})
    /\ shown' = PendingOf(r.id.company, candidates')
    /\ UNCHANGED <<lock, pc, item, doomed, unsaved>>

(* clear_company from the evidence tab, then a redraw. *)
ClearCompany(company) ==
    /\ WriteLockFree
    /\ evidence' = {r \in evidence : r.id.company # company}
    /\ candidates' = {c \in candidates : c.id.evidence_id.company # company}
    /\ shown' = {}
    /\ UNCHANGED <<lock, pc, item, doomed, unsaved>>

(* clear_all from the settings page: another store object, another lock,   *)
(* and the company page is not redrawn.                                    *)
ClearAll ==
    /\ evidence' = {}
    /\ candidates' = {}
    /\ UNCHANGED <<lock, pc, item, doomed, unsaved, shown>>

(* The user accepts or rejects a candidate the page shows; the list may    *)
(* be older than the table.  An id that is gone changes nothing.           *)
Decide(cid, status) ==
    LET old == {c \in candidates : c.id = cid}
    IN  /\ WriteLockFree
        /\ cid \in shown
        /\ old # {}
        /\ candidates' = (candidates \ old) \cup {[c EXCEPT !.status = status] : c \in old}
        /\ shown' = PendingOf(cid.evidence_id.company, candidates')
        /\ UNCHANGED <<evidence, lock, pc, item, doomed, unsaved>>

-----------------------------------------------------------------------------

WorkerStep(w) ==
    \/ \E company \in Companies, url \in Urls, hash \in Hashes, claims \in SUBSET Proposals :
         MatchEvidence(w, company, url, hash, claims)
    \/ WriteEvidence(w)
    \/ \E r \in evidence : HitCache(w, r)
    \/ \E proposed \in [Proposals -> {"pending", "auto_accepted"}] :
         ProposeCandidates(w, proposed)
    \/ \E c \in unsaved[w] : SaveCandidate(w, c)
    \/ NextPage(w)

UserStep ==
    \/ \E company \in Companies : RenderCandidates(company)
    \/ \E r \in evidence : DeleteEvidence(r)
    \/ \E company \in Companies : ClearCompany(company)
    \/ ClearAll
    \/ \E cid \in shown, status \in Decided : Decide(cid, status)

Next ==
    \/ \E w \in Workers : WorkerStep(w)
    \/ UserStep
    \/ \E r \in evidence : Expire(r)

Spec == Init /\ [][Next]_vars

-----------------------------------------------------------------------------

(* Every variable has its type, and a worker past its save has an item. *)
TypeOK ==
    /\ evidence \subseteq Row
    /\ candidates \subseteq Candidate
    /\ lock \in Workers \cup {Free}
    /\ pc \in [Workers -> {"idle", "matched", "has_item", "saving",
                           "constraint_error", "foreign_key_error"}]
    /\ item \in [Workers -> Item \cup {NoItem}]
    /\ \A w \in Workers : pc[w] \in {"matched", "has_item", "saving"} => item[w] \in Item
    /\ doomed \in [Workers -> SUBSET EvidenceId]
    /\ unsaved \in [Workers -> SUBSET Candidate]
    /\ shown \subseteq CandidateId

(* docs/web_evidence.md: canonical URL and content hash deduplicate per    *)
(* company.  Two rows of a company never share either, and never an id.    *)
OneRowPerPage ==
    \A r, s \in evidence :
        \/ r = s
        \/ /\ r.id # s.id
           /\ r.id.company = s.id.company => r.url # s.url /\ r.hash # s.hash

(* save_evidence reads the duplicates outside its transaction: were they   *)
(* out of date when it writes, a UNIQUE constraint would abort the crawl.  *)
(* That never happens, whatever the other workers and the user do.         *)
SaveNeverTripsConstraint ==
    \A w \in Workers : pc[w] # "constraint_error"

(* Every stored candidate can be traced to a stored evidence row, through  *)
(* duplicate removal, deletion and clearing.                               *)
CandidatesHaveEvidence ==
    \A c \in candidates : \E r \in evidence : r.id = c.id.evidence_id

(* Between the two halves of save_evidence the lock keeps the list of      *)
(* duplicates complete; clear_all, which ignores the lock, only shrinks    *)
(* the table.  With the properties above, it is inductive.                 *)
DuplicatesStayKnown ==
    \A w \in Workers :
        /\ pc[w] = "matched" <=> lock = w
        /\ pc[w] # "matched" => doomed[w] = {}
        /\ pc[w] = "matched" =>
             /\ item[w].id \notin doomed[w]
             /\ \A r \in evidence :
                  Duplicates(r, item[w]) => r.id \in doomed[w] \cup {item[w].id}

(* A candidate the user accepted or rejected keeps that decision: no crawl *)
(* in flight overwrites it, whatever it read before.  It changes only by   *)
(* another decision on a list the page still shows, and goes only with its *)
(* evidence row.                                                           *)
DecisionKept(c) ==
    \/ c \in candidates'
    \/ c.id \in shown \ shown'
    \/ \A r \in evidence' : r.id # c.id.evidence_id

DecisionsKept == \A c \in candidates : c.status \in Decided => DecisionKept(c)

DecisionsStick == [][DecisionsKept]_vars

(* docs/web_evidence.md:94: deduplication is by canonical URL and content  *)
(* hash, so a save overwrites a stored row in place only when it is the    *)
(* same page or the same content.                                          *)
OverwritesOnlyDuplicates ==
    [][\A r \in evidence, n \in evidence' : r.id = n.id => Duplicates(r, n)]_vars
=============================================================================
