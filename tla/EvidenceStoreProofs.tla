------------------------ MODULE EvidenceStoreProofs ------------------------
(***************************************************************************)
(* Proofs about EvidenceStore for any number of companies, URLs, hashes,   *)
(* proposals and workers.                                                  *)
(***************************************************************************)
EXTENDS EvidenceStore, TLAPS

(* The inductive invariant: the write lock makes the duplicates read by    *)
(* save_evidence still complete when it writes.                            *)
StoreInv ==
    /\ TypeOK
    /\ OneRowPerPage
    /\ SaveNeverTripsConstraint
    /\ CandidatesHaveEvidence
    /\ DuplicatesStayKnown

LEMMA InitStoreInv == Init => StoreInv
  BY SentinelAssumption
  DEF Init, StoreInv, TypeOK, OneRowPerPage, SaveNeverTripsConstraint,
      CandidatesHaveEvidence, DuplicatesStayKnown

(* Every step preserves the types. *)
LEMMA TypeStep == TypeOK /\ [Next]_vars => TypeOK'
  <1> SUFFICES ASSUME TypeOK, [Next]_vars
               PROVE  TypeOK'
    OBVIOUS
  <1> USE DEF TypeOK, EvidenceId, Row, Item, Candidate, CandidateId,
              CandidateStatus, Decided
  <1>1. ASSUME NEW w \in Workers, NEW company \in Companies, NEW url \in Urls,
               NEW hash \in Hashes, NEW claims \in SUBSET Proposals,
               MatchEvidence(w, company, url, hash, claims)
        PROVE  TypeOK'
    BY <1>1 DEF MatchEvidence
  <1>2. ASSUME NEW w \in Workers, WriteEvidence(w)
        PROVE  TypeOK'
    <2> DEFINE kept == {r \in evidence : r.id \notin doomed[w]}
               others == {r \in kept : r.id # item[w].id}
               row == [id |-> item[w].id, url |-> item[w].url, hash |-> item[w].hash,
                       claims |-> item[w].claims, fresh |-> TRUE]
    <2>1. item[w] \in Item /\ row \in Row
      BY <1>2 DEF WriteEvidence
    <2>2. evidence' = evidence \/ evidence' = others \cup {row}
      BY <1>2 DEF WriteEvidence
    <2>3. candidates' \subseteq candidates
      BY <1>2 DEF WriteEvidence
    <2>4. evidence' \subseteq Row
      <3>1. evidence \subseteq Row
        OBVIOUS
      <3> HIDE DEF Row, row
      <3> QED
        BY <2>1, <2>2, <3>1
    <2>5. \/ pc' = [pc EXCEPT ![w] = "constraint_error"]
          \/ pc' = [pc EXCEPT ![w] = "has_item"]
      <3> DEFINE conflict == \E r \in others : Duplicates(r, item[w])
      <3>1. pc' = [pc EXCEPT ![w] = IF conflict THEN "constraint_error" ELSE "has_item"]
        BY <1>2 DEF WriteEvidence
      <3> HIDE DEF conflict
      <3> QED
        BY <3>1
    <2> QED
      BY <1>2, <2>1, <2>3, <2>4, <2>5 DEF WriteEvidence
  <1>3. ASSUME NEW w \in Workers, NEW r \in evidence, HitCache(w, r)
        PROVE  TypeOK'
    BY <1>3 DEF HitCache
  <1>4. ASSUME NEW w \in Workers,
               NEW proposed \in [Proposals -> {"pending", "auto_accepted"}],
               ProposeCandidates(w, proposed)
        PROVE  TypeOK'
    <2> DEFINE cid(p) == [evidence_id |-> item[w].id, proposal |-> p]
               decision(p) == {c \in candidates : c.id = cid(p) /\ c.status \in Decided}
               status(p) == IF decision(p) = {} THEN proposed[p]
                            ELSE (CHOOSE c \in decision(p) : TRUE).status
               made == {[id |-> cid(p), source_url |-> item[w].url, status |-> status(p)] :
                          p \in item[w].claims}
    <2>1. item[w] \in Item
      BY <1>4 DEF ProposeCandidates
    <2>2. ASSUME NEW p \in item[w].claims
          PROVE  status(p) \in CandidateStatus
      <3>1. CASE decision(p) = {}
        BY <2>1, <2>2, <3>1
      <3>2. CASE decision(p) # {}
        <4>1. (CHOOSE c \in decision(p) : TRUE) \in decision(p)
          BY <3>2
        <4> QED
          BY <3>2, <4>1
      <3> QED
        BY <3>1, <3>2
    <2>3. made \subseteq Candidate
      <3> HIDE DEF status
      <3> QED
        BY <2>1, <2>2
    <2>4. unsaved' = [unsaved EXCEPT ![w] = made]
      BY <1>4 DEF ProposeCandidates
    <2> HIDE DEF made
    <2> QED
      BY <1>4, <2>1, <2>3, <2>4 DEF ProposeCandidates
  <1>5. ASSUME NEW w \in Workers, NEW c \in unsaved[w], SaveCandidate(w, c)
        PROVE  TypeOK'
    <2> DEFINE old == {d \in candidates : d.id = c.id}
               upserted == {Upserted(d, c) : d \in old}
    <2>1. c \in Candidate /\ \A d \in old : Upserted(d, c) \in Candidate
      BY DEF Upserted
    <2>2. upserted \subseteq Candidate
      BY <2>1
    <2>3. \/ candidates' = candidates
          \/ candidates' = (candidates \ old) \cup {c}
          \/ candidates' = (candidates \ old) \cup upserted
      BY <1>5 DEF SaveCandidate
    <2>4. candidates' \subseteq Candidate
      <3>1. candidates \subseteq Candidate
        OBVIOUS
      <3> HIDE DEF Candidate, upserted, old
      <3> QED
        BY <2>1, <2>2, <2>3, <3>1
    <2> QED
      BY <1>5, <2>4 DEF SaveCandidate
  <1>6. ASSUME NEW w \in Workers, NextPage(w)
        PROVE  TypeOK'
    BY <1>6 DEF NextPage
  <1>7. ASSUME NEW r \in evidence, Expire(r)
        PROVE  TypeOK'
    BY <1>7 DEF Expire
  <1>8. ASSUME UserStep
        PROVE  TypeOK'
    BY <1>8 DEF UserStep, RenderCandidates, DeleteEvidence, ClearCompany, ClearAll,
               Decide, PendingOf, CandidatesOf
  <1>9. CASE UNCHANGED vars
    BY <1>9 DEF vars
  <1>10. QED
    BY <1>1, <1>2, <1>3, <1>4, <1>5, <1>6, <1>7, <1>8, <1>9 DEF Next, WorkerStep

(* The first half of a save collects every duplicate. *)
LEMMA MatchStep ==
  ASSUME StoreInv,
         NEW w \in Workers, NEW company \in Companies, NEW url \in Urls,
         NEW hash \in Hashes, NEW claims \in SUBSET Proposals,
         MatchEvidence(w, company, url, hash, claims)
  PROVE  OneRowPerPage' /\ SaveNeverTripsConstraint' /\ CandidatesHaveEvidence'
           /\ DuplicatesStayKnown'
  <1> USE DEF StoreInv
  <1>1. OneRowPerPage' /\ CandidatesHaveEvidence'
    BY DEF MatchEvidence, OneRowPerPage, CandidatesHaveEvidence, Present
  <1>2. SaveNeverTripsConstraint'
    BY DEF MatchEvidence, SaveNeverTripsConstraint, TypeOK
  <1> DEFINE fresh == [id |-> [company |-> company, url |-> url], url |-> url,
                       hash |-> hash, claims |-> claims]
             matches == {r \in evidence : Duplicates(r, fresh)}
  <1>3. lock = Free /\ lock' = w /\ pc' = [pc EXCEPT ![w] = "matched"] /\ evidence' = evidence
    BY DEF MatchEvidence, WriteLockFree
  <1>4. /\ item'[w].id \notin doomed'[w]
        /\ \A r \in evidence :
             Duplicates(r, item'[w]) => r.id \in doomed'[w] \cup {item'[w].id}
    <2>1. CASE /\ matches = {}
               /\ item' = [item EXCEPT ![w] = fresh]
               /\ UNCHANGED doomed
      <3>1. doomed[w] = {}
        BY DEF TypeOK, MatchEvidence, DuplicatesStayKnown
      <3> QED
        BY <2>1, <3>1 DEF TypeOK, Duplicates, SameCompany
    <2>2. ASSUME NEW first \in matches,
                 item' = [item EXCEPT ![w] = [fresh EXCEPT !.id = first.id]],
                 doomed' = [doomed EXCEPT ![w] = {r.id : r \in matches} \ {first.id}]
          PROVE  <1>4!1 /\ <1>4!2
      <3>1. /\ item'[w].id = first.id /\ item'[w].url = url /\ item'[w].hash = hash
            /\ doomed'[w] = {r.id : r \in matches} \ {first.id}
        BY <2>2 DEF TypeOK
      <3>2. first.id.company = company
        BY <2>2 DEF Duplicates, SameCompany
      <3>3. \A r \in evidence : Duplicates(r, item'[w]) => r \in matches
        BY <3>1, <3>2 DEF Duplicates, SameCompany
      <3> QED
        BY <3>1, <3>3
    <2> QED
      BY <2>1, <2>2 DEF MatchEvidence
  <1>5. DuplicatesStayKnown'
    BY <1>3, <1>4, SentinelAssumption
    DEF DuplicatesStayKnown, TypeOK, MatchEvidence, Duplicates, SameCompany
  <1> QED
    BY <1>1, <1>2, <1>5

(* The second half: no row outside the deleted duplicates conflicts.       *)
LEMMA WriteStep ==
  ASSUME StoreInv, NEW w \in Workers, WriteEvidence(w)
  PROVE  OneRowPerPage' /\ SaveNeverTripsConstraint' /\ CandidatesHaveEvidence'
           /\ DuplicatesStayKnown'
  <1> USE DEF StoreInv
  <1> DEFINE kept == {r \in evidence : r.id \notin doomed[w]}
             others == {r \in kept : r.id # item[w].id}
             row == [id |-> item[w].id, url |-> item[w].url, hash |-> item[w].hash,
                     claims |-> item[w].claims, fresh |-> TRUE]
  <1>1. pc[w] = "matched" /\ lock = w /\ item[w].id \notin doomed[w]
    BY DEF WriteEvidence, DuplicatesStayKnown
  <1>2. \A r \in others : ~Duplicates(r, item[w])
    BY <1>1 DEF DuplicatesStayKnown
  <1>3. /\ pc' = [pc EXCEPT ![w] = "has_item"]
        /\ evidence' = others \cup {row}
        /\ candidates' = candidates \ CandidatesOf(doomed[w])
        /\ lock' = Free
        /\ doomed' = [doomed EXCEPT ![w] = {}]
        /\ item' = item
    BY <1>2 DEF WriteEvidence
  <1>4. OneRowPerPage'
    <2>1. \A r \in others : r.id # row.id /\ ~Duplicates(r, row)
      BY <1>2 DEF Duplicates, SameCompany
    <2>2. \A r, s \in others : r = s \/ (r.id # s.id /\ ~Duplicates(r, s))
      BY DEF OneRowPerPage, Duplicates, SameCompany
    <2> HIDE DEF others, row
    <2> QED
      BY <1>3, <2>1, <2>2 DEF OneRowPerPage, Duplicates, SameCompany
  <1>5. SaveNeverTripsConstraint'
    BY <1>3 DEF SaveNeverTripsConstraint, TypeOK
  <1>6. CandidatesHaveEvidence'
    <2> SUFFICES ASSUME NEW c \in candidates'
                 PROVE  \E r \in evidence' : r.id = c.id.evidence_id
      BY DEF CandidatesHaveEvidence, Present
    <2>1. c \in candidates /\ c.id.evidence_id \notin doomed[w]
      BY <1>3 DEF CandidatesOf
    <2>2. PICK r \in evidence : r.id = c.id.evidence_id
      BY <2>1 DEF CandidatesHaveEvidence, Present
    <2>3. r \in others \/ r.id = row.id
      BY <2>1, <2>2
    <2> QED
      BY <1>3, <2>2, <2>3
  <1>7. DuplicatesStayKnown'
    <2> SUFFICES ASSUME NEW v \in Workers
                 PROVE  /\ pc'[v] # "matched" /\ lock' # v
                        /\ doomed'[v] = {}
      BY DEF DuplicatesStayKnown
    <2> QED
      BY <1>1, <1>3, SentinelAssumption DEF DuplicatesStayKnown, TypeOK
  <1> QED
    BY <1>4, <1>5, <1>6, <1>7

(* The other steps of a worker. *)
LEMMA OtherWorkerStep ==
  ASSUME StoreInv, NEW w \in Workers,
         \/ \E r \in evidence : HitCache(w, r)
         \/ \E proposed \in [Proposals -> {"pending", "auto_accepted"}] :
              ProposeCandidates(w, proposed)
         \/ \E c \in unsaved[w] : SaveCandidate(w, c)
         \/ NextPage(w)
  PROVE  OneRowPerPage' /\ SaveNeverTripsConstraint' /\ CandidatesHaveEvidence'
           /\ DuplicatesStayKnown'
  <1> USE DEF StoreInv
  <1>1. evidence' = evidence /\ lock' = lock /\ doomed' = doomed
    BY DEF HitCache, ProposeCandidates, SaveCandidate, NextPage
  <1>2. OneRowPerPage'
    BY <1>1 DEF OneRowPerPage
  <1>3. /\ pc[w] # "matched"
        /\ \E p \in {"has_item", "saving", "idle", "foreign_key_error"} :
             pc' = [pc EXCEPT ![w] = p]
        /\ \A v \in Workers \ {w} : item'[v] = item[v]
    <2>1. ASSUME NEW r \in evidence, HitCache(w, r)
          PROVE  <1>3
      BY <2>1 DEF HitCache, TypeOK
    <2>2. ASSUME NEW proposed \in [Proposals -> {"pending", "auto_accepted"}],
                 ProposeCandidates(w, proposed)
          PROVE  <1>3
      BY <2>2 DEF ProposeCandidates
    <2>3. ASSUME NEW c \in unsaved[w], SaveCandidate(w, c)
          PROVE  <1>3
      <3>1. pc[w] = "saving" /\ item' = item
        BY <2>3 DEF SaveCandidate
      <3>2. pc' = pc \/ pc' = [pc EXCEPT ![w] = "foreign_key_error"]
        BY <2>3 DEF SaveCandidate
      <3>3. pc = [pc EXCEPT ![w] = "saving"]
        BY <3>1 DEF TypeOK
      <3> QED
        BY <3>1, <3>2, <3>3
    <2>4. ASSUME NextPage(w)
          PROVE  <1>3
      BY <2>4 DEF NextPage, TypeOK
    <2> QED
      BY <2>1, <2>2, <2>3, <2>4
  <1>4. SaveNeverTripsConstraint'
    BY <1>3 DEF SaveNeverTripsConstraint, TypeOK
  <1>5. DuplicatesStayKnown'
    BY <1>1, <1>3 DEF DuplicatesStayKnown, TypeOK, Duplicates, SameCompany
  <1>6. CandidatesHaveEvidence'
    <2>1. CASE candidates' = candidates
      BY <1>1, <2>1 DEF CandidatesHaveEvidence, Present
    <2>2. ASSUME NEW c \in unsaved[w], SaveCandidate(w, c), candidates' # candidates
          PROVE  CandidatesHaveEvidence'
      <3>1. Present(c.id.evidence_id)
        BY <2>2 DEF SaveCandidate
      <3>2. \A d \in candidates' : d \in candidates \/ d.id = c.id
        <4> SUFFICES ASSUME NEW d \in candidates'
                     PROVE  d \in candidates \/ d.id = c.id
          OBVIOUS
        <4> DEFINE old == {e \in candidates : e.id = c.id}
        <4>1. candidates' = (candidates \ old) \cup
                    (IF old = {} THEN {c} ELSE {Upserted(e, c) : e \in old})
          BY <2>2, <3>1 DEF SaveCandidate
        <4>2. \A e \in old : Upserted(e, c).id = c.id
          BY DEF TypeOK, Candidate, Upserted
        <4>3. CASE old = {}
          BY <4>1, <4>3
        <4>4. CASE old # {}
          <5>1. candidates' = (candidates \ old) \cup {Upserted(e, c) : e \in old}
            BY <4>1, <4>4
          <5> HIDE DEF old
          <5> QED
            BY <4>2, <5>1
        <4> QED
          BY <4>3, <4>4
      <3> QED
        BY <1>1, <3>1, <3>2 DEF CandidatesHaveEvidence, Present
    <2> QED
      BY <2>1, <2>2 DEF HitCache, ProposeCandidates, NextPage
  <1> QED
    BY <1>2, <1>4, <1>5, <1>6

(* The user's steps, and expiry, only remove rows or leave them in place.  *)
LEMMA UserAndExpiryStep ==
  ASSUME StoreInv, UserStep \/ \E r \in evidence : Expire(r)
  PROVE  OneRowPerPage' /\ SaveNeverTripsConstraint' /\ CandidatesHaveEvidence'
           /\ DuplicatesStayKnown'
  <1> USE DEF StoreInv
  <1>1. UNCHANGED <<lock, pc, item, doomed>>
    BY DEF UserStep, RenderCandidates, DeleteEvidence, ClearCompany, ClearAll, Decide, Expire
  <1>2. SaveNeverTripsConstraint'
    BY <1>1 DEF SaveNeverTripsConstraint
  <1>3. CASE \E r \in evidence : Expire(r)
    <2>1. PICK r \in evidence : Expire(r)
      BY <1>3
    <2> DEFINE old == [r EXCEPT !.fresh = FALSE]
    <2>2. /\ evidence' = (evidence \ {r}) \cup {old}
          /\ candidates' = candidates
          /\ old.id = r.id /\ old.url = r.url /\ old.hash = r.hash
      BY <2>1 DEF Expire, TypeOK, Row
    <2> HIDE DEF old
    <2>3. OneRowPerPage'
      BY <2>2 DEF OneRowPerPage
    <2>4. CandidatesHaveEvidence'
      BY <2>2 DEF CandidatesHaveEvidence, Present
    <2>5. DuplicatesStayKnown'
      BY <1>1, <2>2 DEF DuplicatesStayKnown, Duplicates, SameCompany
    <2> QED
      BY <1>2, <2>3, <2>4, <2>5
  <1>4. CASE UserStep
    <2>1. evidence' \subseteq evidence
      BY <1>4 DEF UserStep, RenderCandidates, DeleteEvidence, ClearCompany, ClearAll, Decide
    <2>2. OneRowPerPage'
      BY <2>1 DEF OneRowPerPage
    <2>3. DuplicatesStayKnown'
      BY <1>1, <2>1 DEF DuplicatesStayKnown, Duplicates, SameCompany
    <2>4. CandidatesHaveEvidence'
      <3> USE DEF CandidatesHaveEvidence, Present
      <3>1. ASSUME NEW company \in Companies, RenderCandidates(company)
            PROVE  CandidatesHaveEvidence'
        BY <3>1 DEF RenderCandidates
      <3>2. ASSUME NEW r \in evidence, DeleteEvidence(r)
            PROVE  CandidatesHaveEvidence'
        BY <3>2 DEF DeleteEvidence, CandidatesOf
      <3>3. ASSUME NEW company \in Companies, ClearCompany(company)
            PROVE  CandidatesHaveEvidence'
        BY <3>3 DEF ClearCompany
      <3>4. CASE ClearAll
        BY <3>4 DEF ClearAll
      <3>5. ASSUME NEW cid \in shown, NEW status \in Decided, Decide(cid, status)
            PROVE  CandidatesHaveEvidence'
        <4> DEFINE old == {c \in candidates : c.id = cid}
        <4>1. /\ evidence' = evidence
              /\ candidates' = (candidates \ old) \cup {[c EXCEPT !.status = status] : c \in old}
          BY <3>5 DEF Decide
        <4>2. \A c \in candidates : [c EXCEPT !.status = status].id = c.id
          BY DEF TypeOK, Candidate
        <4>3. \A c \in candidates' : \E d \in candidates : d.id = c.id
          BY <4>1, <4>2
        <4> QED
          BY <4>1, <4>3
      <3> QED
        BY <1>4, <3>1, <3>2, <3>3, <3>4, <3>5 DEF UserStep
    <2> QED
      BY <1>2, <2>2, <2>3, <2>4
  <1> QED
    BY <1>3, <1>4

(* StoreInv is inductive. *)
LEMMA StoreInvStep == StoreInv /\ [Next]_vars => StoreInv'
  <1> SUFFICES ASSUME StoreInv, [Next]_vars
               PROVE  StoreInv'
    OBVIOUS
  <1>1. TypeOK'
    BY TypeStep DEF StoreInv
  <1>2. ASSUME NEW w \in Workers, WorkerStep(w)
        PROVE  StoreInv'
    BY <1>1, <1>2, MatchStep, WriteStep, OtherWorkerStep DEF WorkerStep, StoreInv
  <1>3. CASE UserStep \/ \E r \in evidence : Expire(r)
    BY <1>1, <1>3, UserAndExpiryStep DEF StoreInv
  <1>4. CASE UNCHANGED vars
    BY <1>1, <1>4 DEF vars, StoreInv, OneRowPerPage, SaveNeverTripsConstraint,
                     CandidatesHaveEvidence, Present, DuplicatesStayKnown
  <1> QED
    BY <1>2, <1>3, <1>4 DEF Next

THEOREM StoreInvariant == Spec => []StoreInv
  BY InitStoreInv, StoreInvStep, PTL DEF Spec

(* Every variable has its type, for any number of workers and rows. *)
THEOREM StoreTypes == Spec => []TypeOK
  BY StoreInvariant, PTL DEF StoreInv

(* A company's rows never share an id, a URL or a content hash. *)
THEOREM StoreDeduplicates == Spec => []OneRowPerPage
  BY StoreInvariant, PTL DEF StoreInv

(* The duplicates save_evidence read are still all of them when it writes, *)
(* so no UNIQUE constraint ever ends a crawl: the lock is what ensures it. *)
THEOREM SavesNeverFail == Spec => []SaveNeverTripsConstraint
  BY StoreInvariant, PTL DEF StoreInv

(* No candidate outlives its evidence. *)
THEOREM CandidatesKeepEvidence == Spec => []CandidatesHaveEvidence
  BY StoreInvariant, PTL DEF StoreInv

(* DecisionsStick, step by step: a decided candidate that changes is being *)
(* decided again on the page, or its evidence row goes in the same step.   *)
LEMMA DecisionStep ==
  ASSUME StoreInv, [Next]_vars, NEW c \in candidates, c.status \in Decided
  PROVE  DecisionKept(c)
  <1> USE DEF StoreInv, DecisionKept
  <1>1. ASSUME NEW w \in Workers, WriteEvidence(w)
        PROVE  DecisionKept(c)
    <2>1. item[w].id \notin doomed[w]
      BY <1>1 DEF WriteEvidence, DuplicatesStayKnown
    <2>2. CASE c \in candidates'
      BY <2>2
    <2>3. CASE c \notin candidates'
      <3>1. c.id.evidence_id \in doomed[w]
        BY <1>1, <2>3 DEF WriteEvidence, CandidatesOf
      <3>2. \A r \in evidence' : r.id \notin doomed[w]
        BY <1>1, <2>1, <2>3 DEF WriteEvidence
      <3> QED
        BY <3>1, <3>2
    <2> QED
      BY <2>2, <2>3
  <1>2. ASSUME NEW w \in Workers, NEW d \in unsaved[w], SaveCandidate(w, d)
        PROVE  DecisionKept(c)
    <2> DEFINE old == {e \in candidates : e.id = d.id}
    <2>1. Upserted(c, d) = c
      BY DEF Upserted
    <2>2. CASE c \in old
      <3>1. candidates' = candidates
              \/ candidates' = (candidates \ old) \cup {Upserted(e, d) : e \in old}
        BY <1>2, <2>2 DEF SaveCandidate
      <3> QED
        BY <2>1, <2>2, <3>1
    <2>3. CASE c \notin old
      BY <1>2, <2>3 DEF SaveCandidate
    <2> QED
      BY <2>2, <2>3
  <1>3. ASSUME NEW r \in evidence, DeleteEvidence(r)
        PROVE  DecisionKept(c)
    BY <1>3 DEF DeleteEvidence, CandidatesOf, OneRowPerPage
  <1>4. ASSUME NEW company \in Companies, ClearCompany(company)
        PROVE  DecisionKept(c)
    BY <1>4 DEF ClearCompany
  <1>5. ASSUME NEW cid \in shown, NEW status \in Decided, Decide(cid, status)
        PROVE  DecisionKept(c)
    <2>1. CASE c.id # cid
      BY <1>5, <2>1 DEF Decide
    <2>2. CASE c.id = cid
      <3>1. \A d \in candidates' : d.id = cid => d.status = status
        BY <1>5 DEF Decide, TypeOK, Candidate
      <3>2. cid \notin shown'
        BY <1>5, <3>1 DEF Decide, PendingOf, Decided
      <3> QED
        BY <2>2, <3>2
    <2> QED
      BY <2>1, <2>2
  <1>6. CASE ClearAll
    BY <1>6 DEF ClearAll
  <1>7. CASE UNCHANGED candidates
    BY <1>7
  <1>8. ASSUME NEW w \in Workers, WorkerStep(w)
        PROVE  DecisionKept(c)
    <2>1. \/ WriteEvidence(w)
          \/ \E d \in unsaved[w] : SaveCandidate(w, d)
          \/ UNCHANGED candidates
      <3>1. ASSUME NEW company \in Companies, NEW url \in Urls, NEW hash \in Hashes,
                   NEW claims \in SUBSET Proposals,
                   MatchEvidence(w, company, url, hash, claims)
            PROVE  UNCHANGED candidates
        BY <3>1 DEF MatchEvidence
      <3>2. ASSUME NEW proposed \in [Proposals -> {"pending", "auto_accepted"}],
                   ProposeCandidates(w, proposed)
            PROVE  UNCHANGED candidates
        BY <3>2 DEF ProposeCandidates
      <3> QED
        BY <1>8, <3>1, <3>2 DEF WorkerStep, HitCache, NextPage
    <2> QED
      BY <1>1, <1>2, <1>7, <2>1
  <1>9. ASSUME UserStep
        PROVE  DecisionKept(c)
    BY <1>3, <1>4, <1>5, <1>6, <1>7, <1>9 DEF UserStep, RenderCandidates
  <1> QED
    BY <1>7, <1>8, <1>9 DEF Next, Expire, vars

(* No crawl in flight overwrites what the user accepted or rejected. *)
THEOREM UserDecisionsStick == Spec => DecisionsStick
  <1>1. StoreInv /\ [Next]_vars => [DecisionsKept]_vars
    BY DecisionStep DEF DecisionsKept
  <1> QED
    BY <1>1, StoreInvariant, PTL DEF Spec, DecisionsStick
=============================================================================
