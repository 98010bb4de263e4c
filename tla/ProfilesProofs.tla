--------------------------- MODULE ProfilesProofs ---------------------------
(***************************************************************************)
(* Proofs about the company page's profile and news (Profiles) and the     *)
(* values that crawls and the user bring into a profile (ProfileAdoption), *)
(* for every number of companies, workers, crawls and candidates.          *)
(***************************************************************************)
EXTENDS Profiles, ProfileAdoption, DataFacts, SequenceTheorems, FiniteSetTheorems, TLAPS

(* Profiles.                                                               *)

Phases == {"none", "loading", "complete", "failed"}

Asked == UNION {ToSet(ProviderOrder(c, adv)) : c \in Details, adv \in BOOLEAN}

JobRecord ==
    [kind: {"none", "profile", "news"}, at: {"none", "queued", "keyed", "asking", "answered", "over"},
     id: Nat, of: Details \cup {NoDetail}, key: ProfileKeys \cup {<<>>}, asks: SUBSET Asked,
     result: {"none", "lei", "plain", "error"}]

(* A worker started for the company c under the request id, and the        *)
(* fetches m during which the setting changed.                             *)
JobOK(k, c, id, m) ==
    /\ k \in JobRecord
    /\ k.kind = "none" <=> k.at = "none"
    /\ k.id <= id
    /\ k.at \notin {"none", "over"} => k.of \in Details /\ (k.id = id => k.of = c)
    /\ k.kind = "profile" /\ k.at \in {"keyed", "asking"} => k.key \in ProfileKeys /\ k.key[1] = k.of
    /\ k.kind = "profile" /\ k.at = "asking" =>
         k.key \in m \/ k.asks \subseteq ToSet(ProviderOrder(k.key[1], k.key[3]))

DetailsTypeOK ==
    /\ detail \in Details \cup {NoDetail}
    /\ detailId \in Nat /\ detailId >= 1
    /\ accepts \in BOOLEAN /\ advanced \in BOOLEAN
    /\ onPage \in [profile: Details \cup {NoDetail}, phase: Phases, news: Details \cup {NoDetail}, newsPhase: Phases]
    /\ DOMAIN job = DetailJobs
    /\ DOMAIN profileFile = ProfileKeys

(* The workers started are the first ones. *)
StartedInOrder == \E n \in 0..MaxDetails : \A j \in DetailJobs : job[j].kind # "none" <=> j <= n

DetailsInv ==
    /\ DetailsTypeOK
    /\ \A j \in DetailJobs : JobOK(job[j], detail, detailId, mixed)
    /\ StartedInOrder
    /\ DetailsBelong
    /\ CachedUnderItsMode
    /\ onPage.newsPhase = "failed" => detail \in Details

LEMMA InitDetailsInv == DetailsInit => DetailsInv
  <1> SUFFICES ASSUME DetailsInit
               PROVE  DetailsInv
    OBVIOUS
  <1>1. DetailsTypeOK
    <2>1. Blank \in [profile: Details \cup {NoDetail}, phase: Phases, news: Details \cup {NoDetail}, newsPhase: Phases]
      BY DEF Blank, Phases
    <2>2. DOMAIN job = DetailJobs /\ DOMAIN profileFile = ProfileKeys
      BY DEF DetailsInit
    <2>3. accepts \in BOOLEAN /\ advanced \in BOOLEAN
      BY DEF DetailsInit
    <2> QED
      BY <2>1, <2>2, <2>3 DEF DetailsInit, DetailsTypeOK
  <1>2. \A j \in DetailJobs : JobOK(job[j], detail, detailId, mixed)
    BY DEF DetailsInit, NoJob, JobOK, JobRecord
  <1>3. StartedInOrder
    <2>1. 0 \in 0..MaxDetails /\ \A j \in DetailJobs : job[j].kind = "none" /\ ~(j <= 0)
      BY DetailsAssumption DEF DetailsInit, NoJob, DetailJobs
    <2> QED
      BY <2>1 DEF StartedInOrder
  <1>4. DetailsBelong
    BY DEF DetailsInit, DetailsBelong, Blank
  <1>5. CachedUnderItsMode
    BY DEF DetailsInit, CachedUnderItsMode, NoProfileFile
  <1> QED
    BY <1>1, <1>2, <1>3, <1>4, <1>5 DEF DetailsInv, DetailsInit, Blank

(* The next worker is the first that was not started.                      *)
LEMMA NextJobIsFree ==
  ASSUME DetailsInv
  PROVE  /\ JobsStarted \in 0..MaxDetails
         /\ \A j \in DetailJobs : job[j].kind # "none" <=> j <= JobsStarted
  <1>1. PICK n \in 0..MaxDetails : \A j \in DetailJobs : job[j].kind # "none" <=> j <= n
    BY DEF DetailsInv, StartedInOrder
  <1>2. {j \in DetailJobs : job[j].kind # "none"} = 1..n
    BY <1>1, DetailsAssumption DEF DetailJobs
  <1>3. Cardinality(1..n) = n
    BY <1>1, DetailsAssumption, FS_Interval
  <1> QED
    BY <1>1, <1>2, <1>3 DEF JobsStarted

(* A worker that goes on and does not end.                                 *)
LEMMA WorkerStep ==
  ASSUME DetailsInv, NEW j \in DetailJobs, NEW k,
         job[j].kind # "none", k.kind = job[j].kind, k.id = job[j].id, k.at # "over",
         JobOK(k, detail, detailId, mixed'),
         job' = [job EXCEPT ![j] = k],
         mixed \subseteq mixed',
         DOMAIN profileFile' = ProfileKeys, CachedUnderItsMode', PageStays
  PROVE  DetailsInv'
  <1>0. UNCHANGED <<detail, detailId, accepts, enriched, advanced, onPage>>
    BY DEF PageStays
  <1>1. DOMAIN job = DetailJobs /\ job'[j] = k /\ \A i \in DetailJobs \ {j} : job'[i] = job[i]
    BY DEF DetailsInv, DetailsTypeOK
  <1>2. DetailsTypeOK'
    BY <1>0 DEF DetailsInv, DetailsTypeOK
  <1>3. \A i \in DetailJobs : JobOK(job'[i], detail, detailId, mixed')
    <2> TAKE i \in DetailJobs
    <2>1. CASE i = j
      BY <1>1, <2>1
    <2>2. CASE i # j
      <3>1. JobOK(job[i], detail, detailId, mixed) /\ job'[i] = job[i]
        BY <1>1, <2>2 DEF DetailsInv
      <3> QED
        BY <3>1 DEF JobOK
    <2> QED
      BY <2>1, <2>2
  <1>4. StartedInOrder'
    <2>1. \A i \in DetailJobs : job'[i].kind = job[i].kind
      BY <1>1
    <2> QED
      BY <2>1 DEF DetailsInv, StartedInOrder
  <1>5. DetailsBelong'
    <2>1. \A i \in DetailJobs : job[i].at # "over" =>
            job'[i].kind = job[i].kind /\ job'[i].id = job[i].id /\ job'[i].at # "over"
      BY <1>1
    <2> QED
      BY <1>0, <2>1 DEF DetailsInv, DetailsBelong
  <1> QED
    BY <1>0, <1>2, <1>3, <1>4, <1>5 DEF DetailsInv

LEMMA KeysAreTyped ==
  ASSUME NEW c \in Details, advanced \in BOOLEAN
  PROVE  ProfileKey(c) \in ProfileKeys /\ ProfileKey(c)[1] = c /\ ProfileKey(c)[3] = advanced
  <1> DEFINE known == c \in enriched
  <1>1. known \in BOOLEAN
    OBVIOUS
  <1>2. ProfileKey(c) = <<c, known, advanced>>
    BY DEF ProfileKey
  <1> HIDE DEF known
  <1> QED
    BY <1>1, <1>2 DEF ProfileKeys

(* The result of an answer.                                                *)
LEMMA AnswerIsOK ==
  ASSUME DetailsInv, NEW j \in DetailJobs, job[j].at \notin {"none", "over"},
         NEW result \in {"lei", "plain", "error"}, NEW m
  PROVE  /\ JobOK(Answered(j, result), detail, detailId, m)
         /\ Answered(j, result).kind = job[j].kind /\ Answered(j, result).id = job[j].id
         /\ Answered(j, result).at = "answered"
  <1>1. JobOK(job[j], detail, detailId, mixed)
    BY DEF DetailsInv
  <1> QED
    BY <1>1 DEF JobOK, JobRecord, Answered, NoJob

LEMMA StartedJob ==
  ASSUME DetailsInv, NEW j \in DetailJobs, job[j].at \notin {"none", "over"}
  PROVE  /\ job[j] \in JobRecord /\ job[j].kind # "none" /\ job[j].of \in Details
         /\ JobOK(job[j], detail, detailId, mixed)
  BY DEF DetailsInv, JobOK

(* Nothing but a worker, or a file, changes.                               *)
LEMMA LooksForProfileStep ==
  ASSUME DetailsInv, NEW j \in DetailJobs, LooksForProfile(j)
  PROVE  DetailsInv'
  <1> DEFINE key == ProfileKey(job[j].of)
             waits == [job[j] EXCEPT !.at = "keyed", !.key = key]
  <1>1. job[j].at = "queued" /\ job[j].kind = "profile"
    BY DEF LooksForProfile, TakesUp
  <1>2. /\ job[j] \in JobRecord /\ job[j].of \in Details
        /\ JobOK(job[j], detail, detailId, mixed)
    BY <1>1, StartedJob
  <1>3. key \in ProfileKeys /\ key[1] = job[j].of
    BY <1>2, KeysAreTyped DEF DetailsInv, DetailsTypeOK
  <1>4. UNCHANGED <<profileFile, mixed>> /\ PageStays
    BY DEF LooksForProfile, FilesAsTheyAre
  <1>5. CachedUnderItsMode' /\ DOMAIN profileFile' = ProfileKeys
    BY <1>4 DEF DetailsInv, DetailsTypeOK, CachedUnderItsMode
  <1>6. \/ \E result \in {"lei", "plain"} : job' = [job EXCEPT ![j] = Answered(j, result)]
        \/ job' = [job EXCEPT ![j] = waits]
    <2> HIDE DEF key
    <2>1. job' = [job EXCEPT ![j] =
                    IF profileFile[key].age = "fresh"
                    THEN Answered(j, IF "gleif" \in profileFile[key].got THEN "lei" ELSE "plain")
                    ELSE [job[j] EXCEPT !.at = "keyed", !.key = key]]
      BY DEF LooksForProfile, key
    <2> QED
      BY <2>1
  <1>7. CASE \E result \in {"lei", "plain"} : job' = [job EXCEPT ![j] = Answered(j, result)]
    <2>1. PICK result \in {"lei", "plain"} : job' = [job EXCEPT ![j] = Answered(j, result)]
      BY <1>7
    <2> QED
      BY <1>1, <1>4, <1>5, <2>1, AnswerIsOK, WorkerStep
  <1>8. CASE job' = [job EXCEPT ![j] = waits]
    <2> HIDE DEF key
    <2>1. /\ JobOK(waits, detail, detailId, mixed')
          /\ waits.kind = job[j].kind /\ waits.id = job[j].id /\ waits.at = "keyed"
      BY <1>1, <1>2, <1>3, <1>4 DEF JobOK, JobRecord
    <2> HIDE DEF waits
    <2> QED
      BY <1>1, <1>4, <1>5, <1>8, <2>1, WorkerStep
  <1> QED
    BY <1>6, <1>7, <1>8

LEMMA ChoosesProvidersStep ==
  ASSUME DetailsInv, NEW j \in DetailJobs, ChoosesProviders(j)
  PROVE  DetailsInv'
  <1> DEFINE asks == AskedOf(ProviderOrder(job[j].of, advanced))
             goes == [job[j] EXCEPT !.at = "asking", !.asks = asks]
  <1>1. job[j].at = "keyed" /\ job[j].kind = "profile"
    BY DEF ChoosesProviders
  <1>2. /\ job[j] \in JobRecord /\ job[j].of \in Details
        /\ JobOK(job[j], detail, detailId, mixed)
    BY <1>1, StartedJob
  <1>3. job[j].key \in ProfileKeys /\ job[j].key[1] = job[j].of
    BY <1>1, <1>2 DEF JobOK
  <1>4. advanced \in BOOLEAN /\ asks \subseteq ToSet(ProviderOrder(job[j].of, advanced))
    BY DEF AskedOf, DetailsInv, DetailsTypeOK
  <1>5. asks \subseteq Asked
    BY <1>2, <1>4 DEF Asked
  <1>6. /\ job' = [job EXCEPT ![j] = goes]
        /\ mixed' = IF advanced # job[j].key[3] THEN mixed \cup {job[j].key} ELSE mixed
        /\ profileFile' = profileFile /\ PageStays
    BY DEF ChoosesProviders, FilesAsTheyAre, DetailsInv, DetailsTypeOK
  <1>7. mixed \subseteq mixed' /\ (job[j].key \in mixed' \/ advanced = job[j].key[3])
    BY <1>6
  <1>8. CachedUnderItsMode' /\ DOMAIN profileFile' = ProfileKeys
    BY <1>6, <1>7 DEF DetailsInv, DetailsTypeOK, CachedUnderItsMode
  <1> HIDE DEF asks
  <1>9. /\ JobOK(goes, detail, detailId, mixed')
        /\ goes.kind = job[j].kind /\ goes.id = job[j].id /\ goes.at = "asking"
    <2>1. /\ goes \in JobRecord /\ goes.kind = "profile" /\ goes.id = job[j].id /\ goes.at = "asking"
          /\ goes.of = job[j].of /\ goes.key = job[j].key /\ goes.asks = asks
      BY <1>1, <1>2, <1>5 DEF JobRecord
    <2> HIDE DEF goes
    <2> QED
      BY <1>1, <1>2, <1>3, <1>4, <1>7, <2>1 DEF JobOK
  <1> HIDE DEF goes
  <1> QED
    BY <1>1, <1>6, <1>7, <1>8, <1>9, WorkerStep

LEMMA ProvidersAnswerStep ==
  ASSUME DetailsInv, NEW j \in DetailJobs, ProvidersAnswer(j)
  PROVE  DetailsInv'
  <1>1. job[j].at = "asking" /\ job[j].kind = "profile"
    BY DEF ProvidersAnswer
  <1>2. PICK failing \in SUBSET Failing :
          /\ profileFile' = [profileFile EXCEPT ![job[j].key] = [age |-> "fresh", got |-> job[j].asks \ failing]]
          /\ job' = [job EXCEPT ![j] =
                       Answered(j, IF "gleif" \in job[j].asks \ failing THEN "lei" ELSE "plain")]
    BY DEF ProvidersAnswer
  <1> DEFINE got == job[j].asks \ failing
             result == IF "gleif" \in got THEN "lei" ELSE "plain"
  <1>3. mixed' = mixed /\ PageStays
    BY DEF ProvidersAnswer
  <1>4. /\ job[j].key \in ProfileKeys
        /\ job[j].key \in mixed \/ got \subseteq ToSet(ProviderOrder(job[j].key[1], job[j].key[3]))
    BY <1>1 DEF DetailsInv, JobOK
  <1>5. DOMAIN profileFile = ProfileKeys
    BY DEF DetailsInv, DetailsTypeOK
  <1> HIDE DEF got
  <1>6. profileFile' = [profileFile EXCEPT ![job[j].key] = [age |-> "fresh", got |-> got]]
    BY <1>2 DEF got
  <1>7. DOMAIN profileFile' = ProfileKeys
    BY <1>5, <1>6
  <1>8. CachedUnderItsMode'
    <2> SUFFICES ASSUME NEW k \in ProfileKeys
                 PROVE  profileFile'[k].got \subseteq ToSet(ProviderOrder(k[1], k[3])) \/ k \in mixed'
      BY DEF CachedUnderItsMode
    <2>1. CASE k = job[j].key
      BY <1>3, <1>4, <1>5, <1>6, <2>1
    <2>2. CASE k # job[j].key
      BY <1>3, <1>5, <1>6, <2>2 DEF DetailsInv, CachedUnderItsMode
    <2> QED
      BY <2>1, <2>2
  <1>9. result \in {"lei", "plain"} /\ job' = [job EXCEPT ![j] = Answered(j, result)]
    BY <1>2 DEF got
  <1> HIDE DEF result
  <1> QED
    BY <1>1, <1>3, <1>7, <1>8, <1>9, AnswerIsOK, StartedJob, WorkerStep

(* A worker that takes up a fetch of news, answers it or breaks.           *)
LEMMA NewsWorkStep ==
  ASSUME DetailsInv, NEW j \in DetailJobs, FetchesNews(j) \/ NewsAnswers(j) \/ Breaks(j)
  PROVE  DetailsInv'
  <1> DEFINE goes == [job[j] EXCEPT !.at = "asking"]
  <1>1. job[j].at \in {"queued", "asking"}
    BY DEF FetchesNews, NewsAnswers, Breaks, TakesUp
  <1>2. /\ job[j] \in JobRecord /\ job[j].of \in Details /\ job[j].kind # "none"
        /\ JobOK(job[j], detail, detailId, mixed)
    BY <1>1, StartedJob
  <1>3. UNCHANGED <<profileFile, mixed>> /\ PageStays
    BY DEF FetchesNews, NewsAnswers, Breaks, FilesAsTheyAre
  <1>4. CachedUnderItsMode' /\ DOMAIN profileFile' = ProfileKeys
    BY <1>3 DEF DetailsInv, DetailsTypeOK, CachedUnderItsMode
  <1>5. \/ job' = [job EXCEPT ![j] = Answered(j, "plain")]
        \/ job' = [job EXCEPT ![j] = Answered(j, "error")]
        \/ job' = [job EXCEPT ![j] = goes] /\ job[j].kind = "news"
    BY DEF FetchesNews, NewsAnswers, Breaks, DetailsInv, DetailsTypeOK
  <1>6. CASE \E result \in {"plain", "error"} : job' = [job EXCEPT ![j] = Answered(j, result)]
    <2>1. PICK result \in {"plain", "error"} : job' = [job EXCEPT ![j] = Answered(j, result)]
      BY <1>6
    <2> QED
      BY <1>1, <1>2, <1>3, <1>4, <2>1, AnswerIsOK, WorkerStep
  <1>7. CASE job' = [job EXCEPT ![j] = goes] /\ job[j].kind = "news"
    <2>1. /\ JobOK(goes, detail, detailId, mixed')
          /\ goes.kind = job[j].kind /\ goes.id = job[j].id /\ goes.at = "asking"
      BY <1>1, <1>2, <1>3, <1>7 DEF JobOK, JobRecord
    <2> HIDE DEF goes
    <2> QED
      BY <1>2, <1>3, <1>4, <1>7, <2>1, WorkerStep
  <1> QED
    BY <1>5, <1>6, <1>7

LEMMA NewJobIsOK ==
  ASSUME NEW kind \in {"profile", "news"}, NEW c \in Details, NEW id \in Nat, NEW m
  PROVE  /\ JobOK(NewJob(kind, id, c), c, id, m)
         /\ NewJob(kind, id, c).kind = kind /\ NewJob(kind, id, c).id = id
         /\ NewJob(kind, id, c).at = "queued"
  <1> DEFINE k == NewJob(kind, id, c)
  <1>1. /\ k.kind = kind /\ k.at = "queued" /\ k.id = id /\ k.of = c
    BY DEF NewJob, NoJob
  <1>2. k \in JobRecord
    BY DEF NewJob, NoJob, JobRecord
  <1> HIDE DEF k
  <1>3. JobOK(k, c, id, m)
    BY <1>1, <1>2 DEF JobOK
  <1> QED
    BY <1>1, <1>3 DEF k

LEMMA OverIsOK ==
  ASSUME DetailsInv, NEW j \in DetailJobs, job[j].kind # "none", NEW c, NEW id \in Nat, NEW m
  PROVE  /\ JobOK(Over(j), c, id, m)
         /\ Over(j).kind = job[j].kind /\ Over(j).at = "over"
  <1>1. job[j] \in JobRecord
    BY DEF DetailsInv, JobOK
  <1> DEFINE k == Over(j)
  <1>2. k.kind = job[j].kind /\ k.at = "over" /\ k.id = 0
    BY DEF Over, NoJob
  <1>3. k \in JobRecord
    BY <1>1 DEF Over, NoJob, JobRecord
  <1> HIDE DEF k
  <1>4. JobOK(k, c, id, m)
    BY <1>2, <1>3 DEF JobOK
  <1> QED
    BY <1>2, <1>4 DEF k

(* A worker of an earlier request is fit for every later one.              *)
LEMMA EarlierJob ==
  ASSUME DetailsInv, NEW j \in DetailJobs, NEW c, NEW id \in Nat, id = detailId + 1
  PROVE  JobOK(job[j], c, id, mixed)
  <1>1. JobOK(job[j], detail, detailId, mixed) /\ detailId \in Nat
    BY DEF DetailsInv, DetailsTypeOK
  <1>2. job[j].id \in Nat
    BY <1>1 DEF JobOK, JobRecord
  <1> QED
    BY <1>1, <1>2 DEF JobOK

LEMMA ShowCompanyStep ==
  ASSUME DetailsInv, NEW c \in Details, ShowCompany(c)
  PROVE  DetailsInv'
  <1> DEFINE n == JobsStarted
             id == detailId + 1
             first == NewJob("profile", id, c)
             second == NewJob("news", id, c)
  <1>0. /\ n \in 0..MaxDetails /\ MaxDetails \in Nat
        /\ \A j \in DetailJobs : job[j].kind # "none" <=> j <= n
    BY NextJobIsFree, DetailsAssumption
  <1>1. n + 2 <= MaxDetails
    BY DEF ShowCompany
  <1>2. /\ detail' = c /\ detailId' = id /\ id \in Nat /\ id >= 1
        /\ job' = [job EXCEPT ![n + 1] = first, ![n + 2] = second]
        /\ onPage' = [profile |-> c, phase |-> "loading", news |-> NoDetail, newsPhase |-> "loading"]
        /\ UNCHANGED <<profileFile, accepts, advanced, mixed>>
    BY DEF ShowCompany, FilesAsTheyAre, DetailsInv, DetailsTypeOK
  <1>3. /\ JobOK(first, c, id, mixed) /\ first.kind = "profile" /\ first.id = id /\ first.at = "queued"
        /\ JobOK(second, c, id, mixed) /\ second.kind = "news" /\ second.id = id /\ second.at = "queued"
    BY <1>2, NewJobIsOK
  <1>4. n + 1 \in DetailJobs /\ n + 2 \in DetailJobs
    BY <1>0, <1>1 DEF DetailJobs
  <1>5. DOMAIN job = DetailJobs
    BY DEF DetailsInv, DetailsTypeOK
  <1> HIDE DEF n, id, first, second
  <1>6. /\ DOMAIN job' = DetailJobs /\ job'[n + 1] = first /\ job'[n + 2] = second
        /\ \A j \in DetailJobs : j # n + 1 /\ j # n + 2 => job'[j] = job[j]
    BY <1>0, <1>2, <1>4, <1>5
  <1>7. DetailsTypeOK'
    BY <1>2, <1>6 DEF DetailsInv, DetailsTypeOK, Phases
  <1>8. \A j \in DetailJobs : JobOK(job[j], detail, detailId, mixed)'
    <2> SUFFICES ASSUME NEW j \in DetailJobs
                 PROVE  JobOK(job'[j], c, id, mixed)
      BY <1>2
    <2>1. CASE j \in {n + 1, n + 2}
      BY <1>3, <1>6, <2>1
    <2>2. CASE j \notin {n + 1, n + 2}
      <3>1. JobOK(job[j], c, id, mixed)
        BY <1>2, EarlierJob DEF id
      <3> QED
        BY <1>6, <2>2, <3>1
    <2> QED
      BY <2>1, <2>2
  <1>9. StartedInOrder'
    <2>1. n + 2 \in 0..MaxDetails
      BY <1>0, <1>1
    <2>2. \A j \in DetailJobs : job'[j].kind # "none" <=> j <= n + 2
      <3> TAKE j \in DetailJobs
      <3>1. j \in Nat
        BY <1>0 DEF DetailJobs
      <3>2. CASE j \in {n + 1, n + 2}
        BY <1>0, <1>3, <1>6, <3>2
      <3>3. CASE j \notin {n + 1, n + 2}
        <4>1. job'[j] = job[j] /\ (job[j].kind # "none" <=> j <= n)
          BY <1>0, <1>6, <3>3
        <4>2. j <= n <=> j <= n + 2
          BY <1>0, <3>1, <3>3
        <4> QED
          BY <4>1, <4>2
      <3> QED
        BY <3>2, <3>3
    <2> QED
      BY <2>1, <2>2 DEF StartedInOrder
  <1>10. DetailsBelong'
    BY <1>2, <1>3, <1>4, <1>6 DEF DetailsBelong
  <1>11. CachedUnderItsMode'
    BY <1>2 DEF DetailsInv, CachedUnderItsMode
  <1> QED
    BY <1>2, <1>7, <1>8, <1>9, <1>10, <1>11 DEF DetailsInv

LEMMA RetryNewsStep ==
  ASSUME DetailsInv, RetryNews
  PROVE  DetailsInv'
  <1> DEFINE n == JobsStarted
             new == NewJob("news", detailId, detail)
  <1>0. /\ n \in 0..MaxDetails /\ MaxDetails \in Nat
        /\ \A j \in DetailJobs : job[j].kind # "none" <=> j <= n
    BY NextJobIsFree, DetailsAssumption
  <1>1. n < MaxDetails /\ detail \in Details /\ detailId \in Nat /\ accepts
    BY DEF RetryNews, DetailsInv, DetailsTypeOK
  <1>2. /\ job' = [job EXCEPT ![n + 1] = new]
        /\ onPage' = [onPage EXCEPT !.news = NoDetail, !.newsPhase = "loading"]
        /\ UNCHANGED <<profileFile, detail, detailId, accepts, advanced, mixed>>
    BY DEF RetryNews, FilesAsTheyAre
  <1>3. JobOK(new, detail, detailId, mixed) /\ new.kind = "news" /\ new.id = detailId /\ new.at = "queued"
    BY <1>1, NewJobIsOK
  <1>4. n + 1 \in DetailJobs
    BY <1>0, <1>1 DEF DetailJobs
  <1>5. DOMAIN job = DetailJobs
    BY DEF DetailsInv, DetailsTypeOK
  <1> HIDE DEF n, new
  <1>6. /\ DOMAIN job' = DetailJobs /\ job'[n + 1] = new
        /\ \A j \in DetailJobs : j # n + 1 => job'[j] = job[j]
    BY <1>2, <1>4, <1>5
  <1>7. DetailsTypeOK'
    BY <1>2, <1>6 DEF DetailsInv, DetailsTypeOK, Phases
  <1>8. \A j \in DetailJobs : JobOK(job[j], detail, detailId, mixed)'
    <2> SUFFICES ASSUME NEW j \in DetailJobs
                 PROVE  JobOK(job'[j], detail, detailId, mixed)
      BY <1>2
    <2> QED
      BY <1>3, <1>6 DEF DetailsInv
  <1>9. StartedInOrder'
    <2>1. n + 1 \in 0..MaxDetails
      BY <1>0, <1>1
    <2>2. \A j \in DetailJobs : job'[j].kind # "none" <=> j <= n + 1
      <3> TAKE j \in DetailJobs
      <3>1. j \in Nat
        BY <1>0 DEF DetailJobs
      <3>2. CASE j = n + 1
        BY <1>0, <1>3, <1>6, <3>2
      <3>3. CASE j # n + 1
        <4>1. job'[j] = job[j] /\ (job[j].kind # "none" <=> j <= n)
          BY <1>0, <1>6, <3>3
        <4>2. j <= n <=> j <= n + 1
          BY <1>0, <3>1, <3>3
        <4> QED
          BY <4>1, <4>2
      <3> QED
        BY <3>2, <3>3
    <2> QED
      BY <2>1, <2>2 DEF StartedInOrder
  <1>10. DetailsBelong'
    <2>1. \A j \in DetailJobs : job[j].kind = "profile" => job'[j] = job[j]
      <3>1. job[n + 1].kind = "none"
        BY <1>0, <1>4
      <3> QED
        BY <1>6, <3>1
    <2>2. onPage'.phase = onPage.phase /\ onPage'.profile = onPage.profile /\ onPage'.news = NoDetail
      BY <1>2 DEF DetailsInv, DetailsTypeOK
    <2> QED
      BY <1>2, <1>3, <1>4, <1>6, <2>1, <2>2 DEF DetailsInv, DetailsBelong
  <1>11. CachedUnderItsMode'
    BY <1>2 DEF DetailsInv, CachedUnderItsMode
  <1> QED
    BY <1>1, <1>2, <1>7, <1>8, <1>9, <1>10, <1>11 DEF DetailsInv

LEMMA ShutdownDetailsStep ==
  ASSUME DetailsInv, ShutdownDetails
  PROVE  DetailsInv'
  <1>1. /\ accepts' = FALSE /\ detailId' = detailId + 1 /\ detailId + 1 \in Nat /\ detailId + 1 >= 1
        /\ job' = [j \in DetailJobs |-> IF job[j].at = "queued" THEN Over(j) ELSE job[j]]
        /\ UNCHANGED <<profileFile, detail, advanced, mixed, onPage>>
    BY DEF ShutdownDetails, FilesAsTheyAre, DetailsInv, DetailsTypeOK
  <1>2. DetailsTypeOK'
    BY <1>1 DEF DetailsInv, DetailsTypeOK
  <1>3. \A j \in DetailJobs : JobOK(job'[j], detail, detailId + 1, mixed) /\ job'[j].kind = job[j].kind
    <2> TAKE j \in DetailJobs
    <2>1. CASE job[j].at = "queued"
      BY <1>1, <2>1, OverIsOK, StartedJob
    <2>2. CASE job[j].at # "queued"
      BY <1>1, <2>2, EarlierJob
    <2> QED
      BY <2>1, <2>2
  <1>4. StartedInOrder'
    BY <1>3 DEF DetailsInv, StartedInOrder
  <1>5. DetailsBelong'
    BY <1>1 DEF DetailsInv, DetailsBelong
  <1>6. CachedUnderItsMode'
    BY <1>1 DEF DetailsInv, CachedUnderItsMode
  <1> QED
    BY <1>1, <1>2, <1>3, <1>4, <1>5, <1>6 DEF DetailsInv

(* A result is rendered, or dropped.                                       *)
LEMMA SignalStep ==
  ASSUME DetailsInv, NEW j \in DetailJobs, ProfileSignal(j) \/ NewsSignal(j)
  PROVE  DetailsInv'
  <1>0. /\ job[j].at = "answered" /\ job[j].kind \in {"profile", "news"}
        /\ job' = [job EXCEPT ![j] = Over(j)]
        /\ UNCHANGED <<profileFile, detail, detailId, accepts, advanced, mixed>>
    BY DEF ProfileSignal, NewsSignal, FilesAsTheyAre
  <1>1. DOMAIN job = DetailJobs /\ detailId \in Nat
    BY DEF DetailsInv, DetailsTypeOK
  <1>2. /\ JobOK(Over(j), detail, detailId, mixed)
        /\ Over(j).kind = job[j].kind /\ Over(j).at = "over"
    BY <1>0, <1>1, OverIsOK
  <1>3. /\ DOMAIN job' = DetailJobs /\ job'[j] = Over(j)
        /\ \A i \in DetailJobs : i # j => job'[i] = job[i]
    BY <1>0, <1>1
  <1>4. IsCurrentRequest(job[j].id) => job[j].of = detail /\ detail \in Details
    BY <1>0, StartedJob DEF IsCurrentRequest, JobOK
  <1>5. \/ onPage' = onPage /\ ~IsCurrentRequest(job[j].id)
        \/ /\ job[j].kind = "profile" /\ IsCurrentRequest(job[j].id)
           /\ \/ onPage' = [onPage EXCEPT !.phase = "failed"]
              \/ onPage' = [onPage EXCEPT !.profile = job[j].of, !.phase = "complete"]
        \/ /\ job[j].kind = "news" /\ IsCurrentRequest(job[j].id)
           /\ \/ onPage' = [onPage EXCEPT !.newsPhase = "failed"]
              \/ onPage' = [onPage EXCEPT !.news = job[j].of, !.newsPhase = "complete"]
    BY DEF ProfileSignal, NewsSignal
  <1>6. DetailsTypeOK'
    BY <1>0, <1>3, <1>4, <1>5 DEF DetailsInv, DetailsTypeOK, Phases
  <1>7. \A i \in DetailJobs : JobOK(job[i], detail, detailId, mixed)'
    <2> SUFFICES ASSUME NEW i \in DetailJobs
                 PROVE  JobOK(job'[i], detail, detailId, mixed)
      BY <1>0
    <2> QED
      BY <1>2, <1>3 DEF DetailsInv
  <1>8. StartedInOrder'
    <2>1. \A i \in DetailJobs : job'[i].kind = job[i].kind
      BY <1>2, <1>3
    <2> QED
      BY <2>1 DEF DetailsInv, StartedInOrder
  <1>9. DetailsBelong'
    <2>1. CASE onPage' = onPage /\ ~IsCurrentRequest(job[j].id)
      BY <1>0, <1>3, <2>1 DEF DetailsInv, DetailsBelong, IsCurrentRequest
    <2>2. CASE /\ job[j].kind = "profile" /\ IsCurrentRequest(job[j].id)
               /\ \/ onPage' = [onPage EXCEPT !.phase = "failed"]
                  \/ onPage' = [onPage EXCEPT !.profile = job[j].of, !.phase = "complete"]
      <3>1. /\ onPage'.phase # "loading" /\ onPage'.news = onPage.news /\ onPage'.newsPhase = onPage.newsPhase
            /\ onPage'.profile \in {onPage.profile, detail}
        BY <1>4, <2>2 DEF DetailsInv, DetailsTypeOK
      <3>2. \A i \in DetailJobs : job[i].kind = "news" => job'[i] = job[i]
        BY <1>3, <2>2
      <3> QED
        BY <1>0, <3>1, <3>2 DEF DetailsInv, DetailsBelong
    <2>3. CASE /\ job[j].kind = "news" /\ IsCurrentRequest(job[j].id)
               /\ \/ onPage' = [onPage EXCEPT !.newsPhase = "failed"]
                  \/ onPage' = [onPage EXCEPT !.news = job[j].of, !.newsPhase = "complete"]
      <3>1. /\ onPage'.newsPhase # "loading" /\ onPage'.profile = onPage.profile /\ onPage'.phase = onPage.phase
            /\ onPage'.news \in {onPage.news, detail}
        BY <1>4, <2>3 DEF DetailsInv, DetailsTypeOK
      <3>2. \A i \in DetailJobs : job[i].kind = "profile" => job'[i] = job[i]
        BY <1>3, <2>3
      <3> QED
        BY <1>0, <3>1, <3>2 DEF DetailsInv, DetailsBelong
    <2> QED
      BY <1>5, <2>1, <2>2, <2>3
  <1>10. CachedUnderItsMode'
    BY <1>0 DEF DetailsInv, CachedUnderItsMode
  <1>11. onPage'.newsPhase = "failed" => detail \in Details
    BY <1>4, <1>5 DEF DetailsInv, DetailsTypeOK
  <1> QED
    BY <1>0, <1>6, <1>7, <1>8, <1>9, <1>10, <1>11 DEF DetailsInv

(* Files that grow too old, and the switch of the settings page.           *)
LEMMA SurroundingsStep ==
  ASSUME DetailsInv,
         TurnAdvanced \/ (\E c \in Details : NewsExpires(c)) \/ (\E k \in ProfileKeys : ProfileExpires(k))
           \/ UNCHANGED detailsVars
  PROVE  DetailsInv'
  <1>1. UNCHANGED <<detail, detailId, accepts, job, mixed, onPage>> /\ advanced' \in BOOLEAN
    BY DEF TurnAdvanced, NewsExpires, ProfileExpires, PageStays, detailsVars, DetailsInv, DetailsTypeOK
  <1>2. \/ profileFile' = profileFile
        \/ \E k \in ProfileKeys : profileFile' = [profileFile EXCEPT ![k] = NoProfileFile]
    BY DEF TurnAdvanced, NewsExpires, ProfileExpires, detailsVars
  <1>3. DOMAIN profileFile' = ProfileKeys /\ CachedUnderItsMode'
    BY <1>1, <1>2 DEF DetailsInv, DetailsTypeOK, CachedUnderItsMode, NoProfileFile
  <1>4. DetailsTypeOK'
    BY <1>1, <1>3 DEF DetailsInv, DetailsTypeOK
  <1>5. (\A j \in DetailJobs : JobOK(job[j], detail, detailId, mixed))' /\ StartedInOrder' /\ DetailsBelong'
    BY <1>1 DEF DetailsInv, StartedInOrder, DetailsBelong
  <1> QED
    BY <1>1, <1>3, <1>4, <1>5 DEF DetailsInv

LEMMA DetailsStep == DetailsInv /\ [DetailsNext]_detailsVars => DetailsInv'
  BY SurroundingsStep, ShowCompanyStep, RetryNewsStep, ShutdownDetailsStep, LooksForProfileStep,
     ChoosesProvidersStep, ProvidersAnswerStep, NewsWorkStep, SignalStep DEF DetailsNext

(* The inductive invariant of the company page's profile and news: whose   *)
(* each worker is, under which key it fetches, and that the workers of the *)
(* current request work for the company on the page.                       *)
THEOREM DetailsInvariant == DetailsSpec => []DetailsInv
  BY InitDetailsInv, DetailsStep, PTL DEF DetailsSpec

(* Profile and news on the page are those of its company, and a page that  *)
(* says it is loading one of them has a worker that will answer.           *)
THEOREM DetailsStayWithTheirCompany == DetailsSpec => []DetailsBelong
  BY DetailsInvariant, PTL DEF DetailsInv

(* A cached profile is made of the sources of the mode it is cached under, *)
(* unless the mode changed while it was fetched.                           *)
THEOREM CachesKeepTheirMode == DetailsSpec => []CachedUnderItsMode
  BY DetailsInvariant, PTL DEF DetailsInv

(* The order in which the parts of a profile are merged, and the field     *)
(* that prefers one source to another.                                     *)
Part == [source: DOMAIN Offers, full: BOOLEAN]

Rank(p) == Position(ProfilePriority, p.source)

FieldRank(f, p) == Position(FieldPriority[f], p.source)

Fills(f, p) == f \in Offers[p.source]

Better(f, p, q) ==
    \/ FieldRank(f, p) < FieldRank(f, q)
    \/ FieldRank(f, p) = FieldRank(f, q) /\ Rank(p) < Rank(q)
    \/ p.source = q.source /\ p.full

LEMMA PositionIs ==
  ASSUME NEW S, NEW s \in Seq(S), NEW x
  PROVE  /\ Position(s, x) \in Nat
         /\ (\E i \in 1..Len(s) : s[i] = x) => Position(s, x) \in 1..Len(s) /\ s[Position(s, x)] = x
  <1>1. DOMAIN s = 1..Len(s) /\ Len(s) \in Nat
    OBVIOUS
  <1>2. CASE \E i \in 1..Len(s) : s[i] = x
    <2>1. Position(s, x) = CHOOSE i \in 1..Len(s) : s[i] = x
      BY <1>1, <1>2 DEF Position
    <2>2. Position(s, x) \in 1..Len(s) /\ s[Position(s, x)] = x
      BY <1>2, <2>1
    <2> QED
      BY <1>1, <2>2
  <1>3. CASE ~ \E i \in 1..Len(s) : s[i] = x
    <2>1. Position(s, x) = 1 + Len(s)
      BY <1>1, <1>3 DEF Position
    <2> QED
      BY <1>1, <1>3, <2>1
  <1> QED
    BY <1>2, <1>3

LEMMA SourcesAre == DOMAIN Offers = {"akshare", "symbol_universe", "fmp", "alpha_vantage", "gleif", "wikidata"}
  BY DEF Offers

LEMMA PrioritiesAre ==
  /\ ProfilePriority \in Seq(DOMAIN Offers) /\ Len(ProfilePriority) = 6
  /\ \A i, j \in 1..6 : ProfilePriority[i] = ProfilePriority[j] => i = j
  /\ \A source \in DOMAIN Offers : \E i \in 1..6 : ProfilePriority[i] = source
  /\ \A f \in Fields : FieldPriority[f] \in Seq(DOMAIN Offers)
  <1>1. ProfilePriority \in Seq(DOMAIN Offers) /\ Len(ProfilePriority) = 6
    BY SourcesAre DEF ProfilePriority
  <1>2. /\ ProfilePriority[1] = "akshare" /\ ProfilePriority[2] = "symbol_universe" /\ ProfilePriority[3] = "fmp"
        /\ ProfilePriority[4] = "alpha_vantage" /\ ProfilePriority[5] = "gleif" /\ ProfilePriority[6] = "wikidata"
    BY DEF ProfilePriority
  <1>3. \A i \in 1..6 : i = 1 \/ i = 2 \/ i = 3 \/ i = 4 \/ i = 5 \/ i = 6
    OBVIOUS
  <1>4. \A i, j \in 1..6 : ProfilePriority[i] = ProfilePriority[j] => i = j
    BY <1>2, <1>3
  <1>5. \A source \in DOMAIN Offers : \E i \in 1..6 : ProfilePriority[i] = source
    BY <1>2, SourcesAre
  <1>6. ASSUME NEW f \in Fields
        PROVE  FieldPriority[f] \in Seq(DOMAIN Offers)
    <2>1. <<"gleif", "symbol_universe", "wikidata">> \in Seq(DOMAIN Offers)
      BY SourcesAre
    <2>6. <<"akshare", "symbol_universe", "fmp", "alpha_vantage", "wikidata">> \in Seq(DOMAIN Offers)
      BY SourcesAre
    <2>7. <<"akshare", "wikidata", "fmp", "alpha_vantage">> \in Seq(DOMAIN Offers)
      BY SourcesAre
    <2>2. CASE f = "legal_name"
      BY <2>1, <2>2 DEF FieldPriority
    <2>3. CASE f = "sector"
      BY <2>6, <2>3 DEF FieldPriority
    <2>4. CASE f = "description"
      BY <2>7, <2>4 DEF FieldPriority
    <2>5. CASE f = "country"
      BY EmptySeq, <2>5 DEF FieldPriority
    <2> QED
      BY <2>2, <2>3, <2>4, <2>5 DEF Fields
  <1> QED
    BY <1>1, <1>4, <1>5, <1>6

LEMMA RankIs ==
  ASSUME NEW p \in Part
  PROVE  /\ Rank(p) \in 1..6 /\ ProfilePriority[Rank(p)] = p.source
         /\ \A n \in 1..6 : p.source = ProfilePriority[n] <=> Rank(p) = n
         /\ \A f \in Fields : FieldRank(f, p) \in Nat
  <1>1. p.source \in DOMAIN Offers /\ p.full \in BOOLEAN
    BY DEF Part
  <1>2. Rank(p) \in 1..6 /\ ProfilePriority[Rank(p)] = p.source
    <2>1. \E i \in 1..Len(ProfilePriority) : ProfilePriority[i] = p.source
      BY <1>1, PrioritiesAre
    <2>2. ProfilePriority \in Seq(DOMAIN Offers)
      BY PrioritiesAre
    <2>3. /\ Position(ProfilePriority, p.source) \in 1..Len(ProfilePriority)
          /\ ProfilePriority[Position(ProfilePriority, p.source)] = p.source
      BY ONLY <2>1, <2>2, PositionIs
    <2> QED
      BY <2>3, PrioritiesAre DEF Rank
  <1>3. ASSUME NEW f \in Fields
        PROVE  FieldRank(f, p) \in Nat
    <2>1. FieldPriority[f] \in Seq(DOMAIN Offers)
      BY PrioritiesAre
    <2>2. Position(FieldPriority[f], p.source) \in Nat
      BY ONLY <2>1, PositionIs
    <2> QED
      BY <2>2 DEF FieldRank
  <1> QED
    BY <1>2, <1>3, PrioritiesAre

(* A part is told by its source and by whether it is full.                 *)
LEMMA PartIs ==
  ASSUME NEW p \in Part, NEW q \in Part, p.source = q.source, p.full = q.full
  PROVE  p = q
  BY DEF Part

LEMMA RanksTell ==
  ASSUME NEW p \in Part, NEW q \in Part
  PROVE  /\ Rank(p) = Rank(q) => p.source = q.source
         /\ p.source = q.source => Rank(p) = Rank(q) /\ \A f \in Fields : FieldRank(f, p) = FieldRank(f, q)
  BY RankIs DEF Rank, FieldRank

(* Of two different parts at most one is better than the other.            *)
LEMMA BetterExcludes ==
  ASSUME NEW f \in Fields, NEW p \in Part, NEW q \in Part, Better(f, p, q), Better(f, q, p)
  PROVE  p = q
  <1>1. /\ Rank(p) \in Nat /\ Rank(q) \in Nat /\ FieldRank(f, p) \in Nat /\ FieldRank(f, q) \in Nat
        /\ p.full \in BOOLEAN /\ q.full \in BOOLEAN
    BY RankIs DEF Part
  <1>2. p.source = q.source /\ p.full /\ q.full
    BY <1>1, RanksTell DEF Better
  <1> QED
    BY <1>1, <1>2, PartIs

LEMMA PartsOfSourceHolds ==
  ASSUME NEW parts \in Seq(Part), NEW source
  PROVE  /\ PartsOfSource(parts, source) \in Seq(Part)
         /\ Elements(PartsOfSource(parts, source)) = {p \in Elements(parts) : p.source = source}
  <1> DEFINE places == {i \in 1..Len(parts) : parts[i].source = source}
  <1>1. PartsOfSource(parts, source) = RowsAt(parts, places)
    BY ElementsAre DEF PartsOfSource
  <1>2. places \in SUBSET (1..Len(parts))
    OBVIOUS
  <1>3. {parts[i] : i \in places} = {p \in Elements(parts) : p.source = source}
    BY DEF Elements
  <1> HIDE DEF places
  <1>4. RowsAt(parts, places) \in Seq(Part) /\ Elements(RowsAt(parts, places)) = {parts[i] : i \in places}
    BY <1>2, RowsAtHolds
  <1> QED
    BY <1>1, <1>3, <1>4

LEMMA SortedFollows ==
  ASSUME NEW parts \in Seq(Part)
  PROVE  \E upTo : /\ upTo[0] = <<>>
                   /\ \A n \in 1..6 : upTo[n] = upTo[n - 1] \o PartsOfSource(parts, ProfilePriority[n])
                   /\ Sorted(parts) = upTo[6]
  <1> DEFINE V == Seq(Part)
             After(l, n) == l \o PartsOfSource(parts, ProfilePriority[n])
             step == [n \in 1..6 |-> [l \in V |-> After(l, n)]]
             Step(f, n) == IF n = 0 THEN <<>> ELSE After(f[n - 1], n)
             upTo == CHOOSE f : f = [n \in 0..6 |-> Step(f, n)]
  <1>1. \A l \in V, n \in 1..6 : After(l, n) \in V
    BY PartsOfSourceHolds, ElementsOfConcat
  <1>2. \E f \in [0..6 -> V] : f[0] = <<>> /\ \A n \in 1..6 : f[n] = After(f[n - 1], n)
    <2> DEFINE base == <<>>
               last == 6
    <2>1. base \in V /\ last \in Nat
      OBVIOUS
    <2> HIDE DEF V, After, base
    <2>2. step \in [1..last -> [V -> V]]
      BY <1>1
    <2>3. PICK f \in [0..last -> V] : Computes(f, last, base, step)
      <3> HIDE DEF step, last
      <3> QED
        BY ONLY <2>1, <2>2, Recursion
    <2>4. \A n \in 1..6 : n - 1 \in 0..6
      OBVIOUS
    <2> QED
      BY <2>3, <2>4 DEF base, Computes
  <1>3. upTo = [n \in 0..6 |-> Step(upTo, n)]
    <2> HIDE DEF V, After
    <2>1. PICK f \in [0..6 -> V] : f[0] = <<>> /\ \A n \in 1..6 : f[n] = After(f[n - 1], n)
      BY <1>2
    <2>2. \A n \in 0..6 : n = 0 \/ n \in 1..6
      OBVIOUS
    <2>3. f = [n \in 0..6 |-> Step(f, n)]
      BY <2>1, <2>2
    <2> HIDE DEF Step
    <2> QED
      BY <2>3
  <1>4. Sorted(parts) = upTo[6]
    <2>1. 0..Len(ProfilePriority) = 0..6 /\ Len(ProfilePriority) = 6
      BY PrioritiesAre
    <2> QED
      BY <2>1 DEF Sorted
  <1> HIDE DEF upTo, After, V
  <1>5. upTo[0] = <<>> /\ \A n \in 1..6 : upTo[n] = After(upTo[n - 1], n)
    <2>1. \A n \in 1..6 : n \in 0..6 /\ n # 0
      OBVIOUS
    <2> QED
      BY <1>3, <2>1
  <1> QED
    BY <1>4, <1>5 DEF After

(* What Sorted makes of the parts: the same ones, in the order of rank.    *)
InOrder(s) == \A i, j \in 1..Len(s) : i <= j => Rank(s[i]) <= Rank(s[j])

LEMMA SortedHolds ==
  ASSUME NEW parts \in Seq(Part)
  PROVE  Sorted(parts) \in Seq(Part) /\ Elements(Sorted(parts)) = Elements(parts) /\ InOrder(Sorted(parts))
  <1>1. PICK upTo : /\ upTo[0] = <<>>
                    /\ \A n \in 1..6 : upTo[n] = upTo[n - 1] \o PartsOfSource(parts, ProfilePriority[n])
                    /\ Sorted(parts) = upTo[6]
    BY SortedFollows
  <1>0. \A p \in Elements(parts) : p \in Part
    BY ElementsAre
  <1> DEFINE Reached(n) == /\ upTo[n] \in Seq(Part)
                           /\ Elements(upTo[n]) = {p \in Elements(parts) : Rank(p) <= n}
                           /\ InOrder(upTo[n])
             T == {n \in Nat : n <= 6 => Reached(n)}
  <1>2. 0 \in T
    <2>1. Len(<<>>) = 0 /\ <<>> \in Seq(Part)
      BY EmptySeq
    <2>2. 1..0 = {}
      OBVIOUS
    <2>3. Elements(<<>>) = {} /\ InOrder(<<>>)
      BY <2>1, <2>2 DEF Elements, InOrder
    <2>4. \A p \in Elements(parts) : ~(Rank(p) <= 0)
      BY <1>0, RankIs
    <2>5. Reached(0)
      BY <1>1, <2>1, <2>3, <2>4
    <2> HIDE DEF Reached
    <2> QED
      BY <2>5
  <1>3. ASSUME NEW n \in T
        PROVE  n + 1 \in T
    <2>0. n \in Nat
      OBVIOUS
    <2> SUFFICES ASSUME n + 1 <= 6
                 PROVE  Reached(n + 1)
      <3> HIDE DEF Reached
      <3> QED
        BY <2>0
    <2>1. Reached(n)
      <3> HIDE DEF Reached
      <3> QED
        BY <2>0
    <2> DEFINE l == upTo[n]
               r == PartsOfSource(parts, ProfilePriority[n + 1])
               both == upTo[n + 1]
    <2>2. n + 1 \in 1..6 /\ (n + 1) - 1 = n
      BY <2>0
    <2>3. both = l \o r
      BY <1>1, <2>2
    <2>4. /\ l \in Seq(Part) /\ Elements(l) = {p \in Elements(parts) : Rank(p) <= n} /\ InOrder(l)
      BY <2>1
    <2>5. r \in Seq(Part) /\ Elements(r) = {p \in Elements(parts) : p.source = ProfilePriority[n + 1]}
      BY PartsOfSourceHolds
    <2>6. Elements(r) = {p \in Elements(parts) : Rank(p) = n + 1}
      BY <1>0, <2>2, <2>5, RankIs
    <2> HIDE DEF l, r, both
    <2>7. both \in Seq(Part) /\ Elements(both) = Elements(l) \cup Elements(r)
      BY <2>3, <2>4, <2>5, ElementsOfConcat
    <2>8. Elements(both) = {p \in Elements(parts) : Rank(p) <= n + 1}
      <3>1. \A p \in Elements(parts) : Rank(p) <= n + 1 <=> Rank(p) <= n \/ Rank(p) = n + 1
        BY <1>0, <2>0, RankIs
      <3> QED
        BY <2>4, <2>6, <2>7, <3>1
    <2>9. InOrder(both)
      <3>1. /\ Len(l) \in Nat /\ Len(r) \in Nat /\ Len(both) = Len(l) + Len(r)
            /\ \A i \in 1..Len(l) + Len(r) : both[i] = IF i <= Len(l) THEN l[i] ELSE r[i - Len(l)]
        BY <2>3, <2>4, <2>5, ConcatLen, ConcatAt
      <3>2. \A i \in 1..Len(l) : l[i] \in Part /\ Rank(l[i]) <= n
        BY <2>4, ElementsAre
      <3>3. \A i \in 1..Len(r) : r[i] \in Part /\ Rank(r[i]) = n + 1
        BY <2>5, <2>6, ElementsAre
      <3> SUFFICES ASSUME NEW i \in 1..Len(both), NEW j \in 1..Len(both), i <= j
                   PROVE  Rank(both[i]) <= Rank(both[j])
        BY DEF InOrder
      <3>4. CASE j <= Len(l)
        <4>1. i \in 1..Len(l) /\ j \in 1..Len(l) /\ both[i] = l[i] /\ both[j] = l[j]
          BY <3>1, <3>4
        <4> QED
          BY <2>4, <4>1 DEF InOrder
      <3>5. CASE ~(j <= Len(l))
        <4>1. j - Len(l) \in 1..Len(r) /\ both[j] = r[j - Len(l)]
          BY <3>1, <3>5
        <4>2. Rank(both[j]) = n + 1
          BY <3>3, <4>1
        <4>3. CASE i <= Len(l)
          <5>1. i \in 1..Len(l) /\ both[i] = l[i]
            BY <3>1, <4>3
          <5>2. Rank(both[i]) \in Nat /\ Rank(both[i]) <= n
            BY <3>2, <5>1, RankIs
          <5> QED
            BY <2>0, <4>2, <5>2
        <4>4. CASE ~(i <= Len(l))
          <5>1. i - Len(l) \in 1..Len(r) /\ both[i] = r[i - Len(l)]
            BY <3>1, <4>4
          <5>2. Rank(both[i]) = n + 1
            BY <3>3, <5>1
          <5> QED
            BY <2>0, <4>2, <5>2
        <4> QED
          BY <4>3, <4>4
      <3> QED
        BY <3>4, <3>5
    <2> QED
      BY <2>7, <2>8, <2>9 DEF both
  <1>4. T = Nat
    <2> HIDE DEF T
    <2>1. T \in SUBSET Nat
      BY DEF T
    <2> QED
      BY <1>2, <1>3, <2>1, NaturalInduction
  <1>5. Reached(6)
    <2> HIDE DEF Reached
    <2> QED
      BY <1>4
  <1>6. {p \in Elements(parts) : Rank(p) <= 6} = Elements(parts)
    BY <1>0, RankIs
  <1> QED
    BY <1>1, <1>5, <1>6

(* A field's value after the first n parts is the best of those among them *)
(* that fill it.                                                           *)
BestOfFirst(f, s, n, best) ==
    \/ best = NoPart /\ \A i \in 1..n : ~Fills(f, s[i])
    \/ /\ \E k \in 1..n : best = s[k]
       /\ best \in Part /\ Fills(f, best)
       /\ \A i \in 1..n : Fills(f, s[i]) => s[i] = best \/ Better(f, best, s[i])

LEMMA NoPartIsNone == NoPart \notin Part
  BY SourcesAre DEF NoPart, Part

LEMMA AfterPartIs ==
  ASSUME NEW f \in Fields, NEW s \in Seq(Part), InOrder(s), NEW n \in Nat, n + 1 <= Len(s), NEW best,
         BestOfFirst(f, s, n, best)
  PROVE  BestOfFirst(f, s, n + 1, AfterPart(f, best, s[n + 1]))
  <1> DEFINE p == s[n + 1]
  <1>0. /\ n + 1 \in 1..Len(s) /\ Len(s) \in Nat /\ p \in Part
        /\ \A i \in 1..n : i \in 1..Len(s) /\ i <= n + 1 /\ s[i] \in Part /\ i \in 1..n + 1
        /\ \A i \in 1..n + 1 : i \in 1..n \/ i = n + 1
        /\ n + 1 \in 1..n + 1
    BY ElementsAre
  <1>1. \A i \in 1..n : Rank(s[i]) <= Rank(p)
    BY <1>0 DEF InOrder
  <1> HIDE DEF p
  <1>2. AfterPart(f, best, p) = IF ShouldUseField(f, best, p) THEN p ELSE best
    BY DEF AfterPart
  <1>3. p \in Part /\ p = s[n + 1]
    BY <1>0 DEF p
  <1>4. CASE ~Fills(f, p)
    <2>1. AfterPart(f, best, p) = best
      BY <1>2, <1>4 DEF ShouldUseField, Fills
    <2>2. BestOfFirst(f, s, n + 1, best)
      BY <1>0, <1>3, <1>4 DEF BestOfFirst
    <2> QED
      BY <1>3, <2>1, <2>2
  <1>5. CASE Fills(f, p) /\ best = NoPart
    <2>1. AfterPart(f, best, p) = p
      BY <1>2, <1>5 DEF ShouldUseField, Fills
    <2>2. \A i \in 1..n : ~Fills(f, s[i])
      BY <1>0, <1>5, NoPartIsNone DEF BestOfFirst
    <2>3. BestOfFirst(f, s, n + 1, p)
      BY <1>0, <1>3, <1>5, <2>2 DEF BestOfFirst
    <2> QED
      BY <1>3, <2>1, <2>3
  <1>6. CASE Fills(f, p) /\ best # NoPart
    <2>1. PICK k \in 1..n : best = s[k]
      BY <1>6 DEF BestOfFirst
    <2>2. /\ best \in Part /\ Fills(f, best)
          /\ \A i \in 1..n : Fills(f, s[i]) => s[i] = best \/ Better(f, best, s[i])
      BY <1>6 DEF BestOfFirst
    <2>3. k \in 1..n + 1 /\ Rank(best) <= Rank(p)
      BY <1>0, <1>1, <2>1
    <2>4. /\ Rank(best) \in Nat /\ Rank(p) \in Nat /\ FieldRank(f, best) \in Nat /\ FieldRank(f, p) \in Nat
          /\ best.full \in BOOLEAN /\ p.full \in BOOLEAN
      BY <1>3, <2>2, RankIs DEF Part
    <2>5. ASSUME ShouldUseField(f, best, p)
          PROVE  \/ best.source = p.source /\ p.full /\ ~best.full
                 \/ FieldRank(f, p) < FieldRank(f, best)
      BY <1>6, <2>5 DEF ShouldUseField, FieldRank
    <2>8. ASSUME best.source = p.source, p.full, ~best.full
          PROVE  ShouldUseField(f, best, p)
      BY <1>6, <2>8 DEF ShouldUseField, Fills
    <2>9. ASSUME best.source # p.source, FieldRank(f, p) < FieldRank(f, best)
          PROVE  ShouldUseField(f, best, p)
      BY <1>6, <2>9 DEF ShouldUseField, Fills, FieldRank
    <2>6. CASE ShouldUseField(f, best, p)
      <3>1. Better(f, p, best)
        BY <2>5, <2>6 DEF Better
      <3>2. ASSUME NEW i \in 1..n, Fills(f, s[i])
            PROVE  Better(f, p, s[i])
        <4> DEFINE q == s[i]
        <4>1. q \in Part /\ (q = best \/ Better(f, best, q))
          BY <1>0, <2>2, <3>2
        <4> SUFFICES Better(f, p, q)
          OBVIOUS
        <4> HIDE DEF q
        <4>2. Rank(q) \in Nat /\ FieldRank(f, q) \in Nat /\ q.full \in BOOLEAN
          <5>1. q \in Part
            BY <4>1
          <5>2. Rank(q) \in 1..6 /\ \A g \in Fields : FieldRank(g, q) \in Nat
            BY ONLY <5>1, RankIs
          <5>3. q.full \in BOOLEAN
            BY <5>1 DEF Part
          <5> QED
            BY <5>2, <5>3
        <4>3. CASE q = best
          BY <3>1, <4>3
        <4>4. CASE Better(f, best, q) /\ best.source = p.source /\ p.full /\ ~best.full
          <5>1. Rank(p) = Rank(best) /\ FieldRank(f, p) = FieldRank(f, best)
            BY <1>3, <2>2, <4>4, RanksTell
          <5> QED
            BY <4>4, <5>1 DEF Better
        <4>5. CASE Better(f, best, q) /\ FieldRank(f, p) < FieldRank(f, best)
          <5>1. best.source = q.source => FieldRank(f, best) = FieldRank(f, q)
            BY <2>2, <4>1, RanksTell
          <5>2. FieldRank(f, p) < FieldRank(f, q)
            BY <2>4, <4>2, <4>5, <5>1 DEF Better
          <5> QED
            BY <5>2 DEF Better
        <4> QED
          BY <2>5, <2>6, <4>1, <4>3, <4>4, <4>5
      <3>3. BestOfFirst(f, s, n + 1, p)
        BY <1>0, <1>3, <1>6, <3>2 DEF BestOfFirst
      <3> QED
        BY <1>2, <1>3, <2>6, <3>3
    <2>7. CASE ~ShouldUseField(f, best, p)
      <3>1. p = best \/ Better(f, best, p)
        <4>1. CASE best.source = p.source
          <5>1. CASE best.full
            BY <4>1, <5>1 DEF Better
          <5>2. CASE ~best.full
            <6>1. ~p.full
              BY <2>7, <2>8, <4>1, <5>2
            <6> QED
              BY <1>3, <2>2, <2>4, <4>1, <5>2, <6>1, PartIs
          <5> QED
            BY <5>1, <5>2
        <4>2. CASE best.source # p.source
          <5>1. FieldRank(f, best) <= FieldRank(f, p)
            BY <2>4, <2>7, <2>9, <4>2
          <5>2. Rank(best) # Rank(p)
            BY <1>3, <2>2, <4>2, RanksTell
          <5> QED
            BY <2>3, <2>4, <5>1, <5>2 DEF Better
        <4> QED
          BY <4>1, <4>2
      <3>2. BestOfFirst(f, s, n + 1, best)
        BY <1>0, <1>3, <2>1, <2>2, <2>3, <3>1 DEF BestOfFirst
      <3> QED
        BY <1>2, <1>3, <2>7, <3>2
    <2> QED
      BY <2>6, <2>7
  <1> QED
    BY <1>4, <1>5, <1>6

LEMMA MergeFollows ==
  ASSUME NEW parts \in Seq(Part), NEW f \in Fields
  PROVE  \E upTo : /\ upTo[0] = NoPart
                   /\ \A n \in 1..Len(Sorted(parts)) : upTo[n] = AfterPart(f, upTo[n - 1], Sorted(parts)[n])
                   /\ MergeProfiles(parts)[f] = upTo[Len(Sorted(parts))]
  <1> DEFINE s == Sorted(parts)
             V == Part \cup {NoPart}
             After(v, n) == AfterPart(f, v, s[n])
             last == Len(s)
             step == [n \in 1..last |-> [v \in V |-> After(v, n)]]
             Step(g, n) == IF n = 0 THEN NoPart ELSE After(g[n - 1], n)
             upTo == CHOOSE g : g = [n \in 0..last |-> Step(g, n)]
  <1>0. last \in Nat /\ \A n \in 1..last : s[n] \in Part
    BY SortedHolds, ElementsAre
  <1>1. \A v \in V, n \in 1..last : After(v, n) \in V
    BY <1>0 DEF AfterPart
  <1>2. \E g \in [0..last -> V] : g[0] = NoPart /\ \A n \in 1..last : g[n] = After(g[n - 1], n)
    <2>1. NoPart \in V
      OBVIOUS
    <2> HIDE DEF V, After, last
    <2>2. step \in [1..last -> [V -> V]]
      BY <1>1
    <2>3. PICK g \in [0..last -> V] : Computes(g, last, NoPart, step)
      <3> HIDE DEF step
      <3> QED
        BY ONLY <1>0, <2>1, <2>2, Recursion
    <2>4. \A n \in 1..last : n - 1 \in 0..last
      BY <1>0
    <2> QED
      BY <2>3, <2>4 DEF Computes
  <1>3. upTo = [n \in 0..last |-> Step(upTo, n)]
    <2> HIDE DEF V, After, last
    <2>1. PICK g \in [0..last -> V] : g[0] = NoPart /\ \A n \in 1..last : g[n] = After(g[n - 1], n)
      BY <1>2
    <2>2. \A n \in 0..last : n = 0 \/ n \in 1..last
      BY <1>0
    <2>3. g = [n \in 0..last |-> Step(g, n)]
      BY <2>1, <2>2
    <2> HIDE DEF Step
    <2> QED
      BY <2>3
  <1>4. MergeProfiles(parts)[f] = upTo[last]
    BY DEF MergeProfiles
  <1> HIDE DEF upTo, After, V, last
  <1>5. upTo[0] = NoPart /\ \A n \in 1..last : upTo[n] = After(upTo[n - 1], n)
    <2>1. \A n \in 1..last : n \in 0..last /\ n # 0
      BY <1>0
    <2> QED
      BY <1>0, <1>3, <2>1
  <1> QED
    BY <1>4, <1>5 DEF After, last

(* _merge_profiles gives every field the best of the parts that fill it.   *)
LEMMA MergeIsBest ==
  ASSUME NEW parts \in Seq(Part), NEW f \in Fields
  PROVE  MergeProfiles(parts)[f] = BestPart(f, Elements(parts))
  <1> DEFINE s == Sorted(parts)
             last == Len(s)
             best == MergeProfiles(parts)[f]
             filling == {p \in Elements(parts) : Fills(f, p)}
  <1>1. /\ s \in Seq(Part) /\ Elements(s) = Elements(parts) /\ InOrder(s) /\ last \in Nat
        /\ \A i \in 1..last : s[i] \in Part /\ s[i] \in Elements(parts)
        /\ \A p \in Elements(parts) : \E i \in 1..last : p = s[i]
    <2>1. s \in Seq(Part) /\ Elements(s) = Elements(parts) /\ InOrder(s)
      BY SortedHolds
    <2> HIDE DEF s
    <2>2. \A p \in Elements(s) : \E i \in 1..last : p = s[i]
      BY DEF Elements
    <2> QED
      BY <2>1, <2>2, ElementsAre
  <1>2. BestOfFirst(f, s, last, best)
    <2>1. PICK upTo : /\ upTo[0] = NoPart
                      /\ \A n \in 1..last : upTo[n] = AfterPart(f, upTo[n - 1], s[n])
                      /\ best = upTo[last]
      BY MergeFollows
    <2> HIDE DEF s, last, best
    <2> DEFINE T == {n \in Nat : n <= last => BestOfFirst(f, s, n, upTo[n])}
    <2>2. 0 \in T
      <3>1. BestOfFirst(f, s, 0, NoPart)
        BY DEF BestOfFirst
      <3> QED
        BY <2>1, <3>1
    <2>3. ASSUME NEW n \in T
          PROVE  n + 1 \in T
      <3>0. n \in Nat
        OBVIOUS
      <3> SUFFICES ASSUME n + 1 <= last
                   PROVE  BestOfFirst(f, s, n + 1, upTo[n + 1])
        BY <3>0
      <3>1. BestOfFirst(f, s, n, upTo[n]) /\ n + 1 \in 1..last /\ (n + 1) - 1 = n
        BY <1>1, <3>0
      <3>2. n + 1 <= Len(s)
        BY DEF last
      <3> QED
        BY <1>1, <2>1, <3>0, <3>1, <3>2, AfterPartIs
    <2>4. T = Nat
      <3> HIDE DEF T
      <3>1. T \in SUBSET Nat
        BY DEF T
      <3> QED
        BY <2>2, <2>3, <3>1, NaturalInduction
    <2> QED
      BY <1>1, <2>1, <2>4
  <1>3. BestPart(f, Elements(parts)) =
          IF filling = {} THEN NoPart
          ELSE CHOOSE p \in filling : \A q \in filling \ {p} : Better(f, p, q)
    BY DEF BestPart, Fills, Better, Rank, FieldRank
  <1>4. \A i \in 1..last : Fills(f, s[i]) => s[i] \in filling
    BY <1>1
  <1>5. \A q \in filling : q \in Part /\ Fills(f, q) /\ \E i \in 1..last : q = s[i]
    BY <1>1
  <1> HIDE DEF s, last, best, filling
  <1>6. CASE best = NoPart /\ \A i \in 1..last : ~Fills(f, s[i])
    BY <1>3, <1>5, <1>6 DEF best
  <1>7. CASE ~(best = NoPart /\ \A i \in 1..last : ~Fills(f, s[i]))
    <2>1. /\ best \in filling /\ best \in Part
          /\ \A q \in filling : q = best \/ Better(f, best, q)
      BY <1>2, <1>4, <1>5, <1>7 DEF BestOfFirst
    <2> DEFINE Is(p) == p \in filling /\ \A q \in filling \ {p} : Better(f, p, q)
    <2>2. Is(best)
      BY <2>1
    <2>3. ASSUME NEW p, Is(p)
          PROVE  p = best
      <3> SUFFICES ASSUME p # best
                   PROVE  FALSE
        OBVIOUS
      <3>1. Better(f, p, best) /\ Better(f, best, p) /\ p \in Part
        BY <1>5, <2>1, <2>3
      <3> QED
        BY <2>1, <3>1, BetterExcludes
    <2>4. best = CHOOSE p \in filling : \A q \in filling \ {p} : Better(f, p, q)
      BY <2>2, <2>3
    <2> QED
      BY <1>3, <2>1, <2>4 DEF best
  <1> QED
    BY <1>6, <1>7

(* What arrives comes from the providers that were asked.                  *)
LEMMA ProvidersAre ==
  ASSUME NEW c \in Details, NEW adv \in BOOLEAN
  PROVE  ProviderOrder(c, adv) \in Seq(DOMAIN Offers)
  <1> DEFINE first == IF c \in InChina THEN <<"akshare">> ELSE <<>>
             last == IF adv /\ c \in WithSymbol THEN <<"fmp", "alpha_vantage">> ELSE <<>>
  <1>1. <<"akshare">> \in Seq(DOMAIN Offers)
    BY SourcesAre
  <1>2. <<"wikidata", "gleif">> \in Seq(DOMAIN Offers)
    BY SourcesAre
  <1>3. <<"fmp", "alpha_vantage">> \in Seq(DOMAIN Offers)
    BY SourcesAre
  <1>4. first \in Seq(DOMAIN Offers) /\ last \in Seq(DOMAIN Offers)
    BY <1>1, <1>3, EmptySeq
  <1>5. ProviderOrder(c, adv) = first \o <<"wikidata", "gleif">> \o last
    BY DEF ProviderOrder
  <1> HIDE DEF first, last
  <1> QED
    BY <1>2, <1>4, <1>5, ConcatIsSeq

LEMMA SourcesAreFinite == IsFiniteSet(DOMAIN Offers)
  <1>1. IsFiniteSet({"akshare"}) /\ IsFiniteSet({"symbol_universe"}) /\ IsFiniteSet({"fmp"})
        /\ IsFiniteSet({"alpha_vantage"}) /\ IsFiniteSet({"gleif"}) /\ IsFiniteSet({"wikidata"})
    BY FS_Singleton
  <1>2. IsFiniteSet({"akshare"} \cup {"symbol_universe"}) /\ IsFiniteSet({"fmp"} \cup {"alpha_vantage"})
        /\ IsFiniteSet({"gleif"} \cup {"wikidata"})
    BY <1>1, FS_Union
  <1>3. IsFiniteSet(({"akshare"} \cup {"symbol_universe"}) \cup ({"fmp"} \cup {"alpha_vantage"}))
    BY <1>2, FS_Union
  <1>4. IsFiniteSet((({"akshare"} \cup {"symbol_universe"}) \cup ({"fmp"} \cup {"alpha_vantage"}))
                    \cup ({"gleif"} \cup {"wikidata"}))
    BY <1>2, <1>3, FS_Union
  <1>5. (({"akshare"} \cup {"symbol_universe"}) \cup ({"fmp"} \cup {"alpha_vantage"}))
          \cup ({"gleif"} \cup {"wikidata"}) = DOMAIN Offers
    BY SourcesAre
  <1> QED
    BY <1>4, <1>5

LEMMA ArrivalsAre ==
  ASSUME NEW c \in Details, NEW adv \in BOOLEAN, NEW arrived \in Arrivals(ProviderOrder(c, adv))
  PROVE  arrived \in Seq(DOMAIN Offers)
  <1> DEFINE asked == ToSet(ProviderOrder(c, adv))
  <1>1. asked \subseteq DOMAIN Offers
    BY ProvidersAre, ElementsAre
  <1> HIDE DEF asked
  <1>2. IsFiniteSet(asked) /\ Cardinality(asked) \in Nat
    BY <1>1, SourcesAreFinite, FS_Subset, FS_CardinalityType
  <1>3. PICK s \in SetToSeqs(asked), got \in SUBSET asked :
             arrived = RowsAt(s, {i \in DOMAIN s : s[i] \in got})
    BY DEF Arrivals, asked
  <1>4. s \in [1..Cardinality(asked) -> asked]
    BY DEF SetToSeqs
  <1>5. s \in Seq(DOMAIN Offers)
    BY <1>1, <1>2, <1>4
  <1> DEFINE places == {i \in DOMAIN s : s[i] \in got}
  <1>6. places \in SUBSET (1..Len(s))
    BY <1>5
  <1> HIDE DEF places
  <1> QED
    BY <1>3, <1>5, <1>6, RowsAtHolds DEF places

(* The parts get_profile merges.                                           *)
LEMMA PartsAre ==
  ASSUME NEW c \in Details, NEW arrived \in Seq(DOMAIN Offers)
  PROVE  LET parts == <<LocalPart(c)>> \o [i \in DOMAIN arrived |-> RemotePart(arrived[i])]
         IN  parts \in Seq(Part) /\ Elements(parts) = PartsOf(c, ToSet(arrived))
  <1> DEFINE l == <<LocalPart(c)>>
             r == [i \in DOMAIN arrived |-> RemotePart(arrived[i])]
  <1>1. LocalPart(c) \in Part
    BY LocalSourceAssumption DEF LocalPart, Part
  <1>2. l \in Seq(Part) /\ Elements(l) = {LocalPart(c)}
    <2>1. l \in Seq(Part) /\ Len(l) = 1 /\ l[1] = LocalPart(c)
      BY <1>1
    <2>2. 1..1 = {1}
      OBVIOUS
    <2> HIDE DEF l
    <2> QED
      BY <2>1, <2>2 DEF Elements
  <1>3. r \in Seq(Part) /\ Elements(r) = {RemotePart(p) : p \in ToSet(arrived)}
    <2>1. /\ DOMAIN arrived = 1..Len(arrived) /\ Len(arrived) \in Nat
          /\ \A i \in 1..Len(arrived) : arrived[i] \in DOMAIN Offers
      BY ElementsAre
    <2>2. \A i \in 1..Len(arrived) : RemotePart(arrived[i]) \in Part
      BY <2>1 DEF RemotePart, Part
    <2>3. r \in Seq(Part) /\ Len(r) = Len(arrived) /\ \A i \in 1..Len(arrived) : r[i] = RemotePart(arrived[i])
      BY <2>1, <2>2
    <2> HIDE DEF r
    <2>4. ToSet(arrived) = {arrived[i] : i \in 1..Len(arrived)}
      BY <2>1 DEF ToSet
    <2>5. Elements(r) = {r[i] : i \in 1..Len(arrived)}
      BY <2>3 DEF Elements
    <2> QED
      BY <2>3, <2>4, <2>5
  <1> HIDE DEF l, r
  <1>4. l \o r \in Seq(Part) /\ Elements(l \o r) = Elements(l) \cup Elements(r)
    BY <1>2, <1>3, ElementsOfConcat
  <1> QED
    BY <1>2, <1>3, <1>4 DEF l, r, PartsOf

LEMMA MergeIgnoresOrder == OrderDoesNotMatter
  <1> SUFFICES ASSUME NEW c \in Details, NEW adv \in BOOLEAN, NEW arrived \in Arrivals(ProviderOrder(c, adv)),
                      NEW f \in Fields
               PROVE  ProfileOf(c, arrived)[f] = BestPart(f, PartsOf(c, ToSet(arrived)))
    BY DEF OrderDoesNotMatter
  <1> DEFINE parts == <<LocalPart(c)>> \o [i \in DOMAIN arrived |-> RemotePart(arrived[i])]
  <1>1. arrived \in Seq(DOMAIN Offers)
    BY ArrivalsAre
  <1>2. parts \in Seq(Part) /\ Elements(parts) = PartsOf(c, ToSet(arrived))
    BY <1>1, PartsAre
  <1>3. ProfileOf(c, arrived) = MergeProfiles(parts)
    BY DEF ProfileOf
  <1> HIDE DEF parts
  <1> QED
    BY <1>2, <1>3, MergeIsBest

(* A merged profile gives every field the value of the preferred source    *)
(* among those that answered, whatever the order in which they did, and a  *)
(* cached one is of the mode it is cached under.                           *)
THEOREM MergesFollowPriority == DetailsSpec => []MergeFollowsPriority
  BY CachesKeepTheirMode, MergeIgnoresOrder, PTL DEF MergeFollowsPriority

-----------------------------------------------------------------------------
(* ProfileAdoption.                                                        *)

(* The fold apply_auto_accepted_candidates makes of the rows.              *)
LEMMA AdoptAllFollows ==
  ASSUME NEW value, NEW S, NEW some \in Seq(S)
  PROVE  \E after : /\ after[0] = value
                    /\ \A n \in 1..Len(some) : after[n] = Adopt(after[n - 1], some[n].of, some[n].status)
                    /\ AdoptAll(value, some) = after[Len(some)]
  <1> DEFINE Step(f, n) == IF n = 0 THEN value ELSE Adopt(f[n - 1], some[n].of, some[n].status)
             T == {m \in Nat : \E f : f = [n \in 0..m |-> Step(f, n)]}
             len == Len(some)
  <1>0. len \in Nat
    OBVIOUS
  <1>1. 0 \in T
    <2> DEFINE f == [n \in 0..0 |-> value]
    <2>1. f = [n \in 0..0 |-> Step(f, n)]
      OBVIOUS
    <2> HIDE DEF f
    <2> QED
      BY <2>1
  <1>2. \A m \in T : m + 1 \in T
    <2> SUFFICES ASSUME NEW m \in T
                 PROVE  m + 1 \in T
      OBVIOUS
    <2>1. PICK f : f = [n \in 0..m |-> Step(f, n)]
      OBVIOUS
    <2> DEFINE g == [n \in 0..m + 1 |-> IF n = m + 1 THEN Step(f, n) ELSE f[n]]
    <2>2. m \in Nat
      OBVIOUS
    <2>3. \A n \in 0..m + 1 : g[n] = Step(g, n)
      <3> SUFFICES ASSUME NEW n \in 0..m + 1
                   PROVE  g[n] = Step(g, n)
        OBVIOUS
      <3>1. CASE n = 0
        BY <2>1, <2>2, <3>1
      <3>2. CASE n # 0
        <4>1. n - 1 \in 0..m /\ n - 1 # m + 1 /\ n - 1 \in 0..m + 1
          BY <2>2, <3>2
        <4>2. g[n - 1] = f[n - 1]
          BY <4>1
        <4>3. g[n] = Step(f, n)
          <5>1. CASE n = m + 1
            BY <5>1
          <5>2. CASE n # m + 1
            <6>1. n \in 0..m
              BY <2>2, <5>2
            <6> HIDE DEF Step
            <6> QED
              BY <2>1, <5>2, <6>1
          <5> QED
            BY <5>1, <5>2
        <4> HIDE DEF g
        <4> QED
          BY <4>2, <4>3
      <3> QED
        BY <3>1, <3>2
    <2>4. g = [n \in 0..m + 1 |-> Step(g, n)]
      <3> HIDE DEF Step
      <3> QED
        BY <2>3
    <2> HIDE DEF g, Step
    <2> QED
      BY <2>2, <2>4
  <1>3. len \in T
    <2>1. T \in SUBSET Nat
      OBVIOUS
    <2> HIDE DEF T
    <2> QED
      BY <1>0, <1>1, <1>2, <2>1, NaturalInduction
  <1> DEFINE after == CHOOSE f : f = [n \in 0..len |-> Step(f, n)]
  <1>4. after = [n \in 0..len |-> Step(after, n)]
    <2>1. PICK f : f = [n \in 0..len |-> Step(f, n)]
      BY <1>3
    <2> HIDE DEF Step
    <2> QED
      BY <2>1
  <1>5. AdoptAll(value, some) = after[len]
    BY DEF AdoptAll
  <1> HIDE DEF after
  <1>6. after[0] = value
    BY <1>0, <1>4
  <1>7. \A n \in 1..len : after[n] = Adopt(after[n - 1], some[n].of, some[n].status)
    BY <1>0, <1>4
  <1> QED
    BY <1>5, <1>6, <1>7

Statuses == {"pending", "auto_accepted", "accepted", "rejected"}

StoredRow == [of: Claims, status: Statuses]

Is(rows, c, some) == \E i \in 1..Len(rows) : rows[i].of = c /\ rows[i].status \in some

Final == {"accepted", "rejected"}

(* The rows of a company: one of each candidate. *)
IsRows(rows) ==
    /\ rows \in Seq(StoredRow)
    /\ \A i, j \in 1..Len(rows) : rows[i].of = rows[j].of => i = j

(* A value an accepted candidate claims.                                   *)
AcceptedIn(rows) == {rows[i].of : i \in {n \in 1..Len(rows) : rows[n].status = "accepted"}}

CrawlRecord ==
    [at: {"none", "page", "list", "read", "write", "save"}, object: Nat, of: SUBSET Claims,
     status: Statuses \cup {"none"}, read: Provided \cup {NoValue} \cup {Says[c] : c \in Claims},
     spared: SUBSET Claims, found: BOOLEAN]

(* What a crawl has read of a candidate that was decided stays true of the *)
(* rows, unless it was overtaken.                                          *)
CrawlOK(k, n, rows, lost) ==
    /\ k \in CrawlRecord
    /\ k.at # "none" => k.object \in 1..n
    /\ k.at \in {"list", "read", "write", "save"} => \E c \in Claims : k.of = {c}
    /\ k.spared \subseteq k.of
    /\ k.at \notin {"list", "read", "write"} => k.spared = {}
    /\ k.at = "list" => k.status \in {"pending", "auto_accepted"}
    /\ k.at \in {"read", "write", "save"} => k.status \in Statuses
    /\ ~lost => \A c \in k.of :
         /\ c \in k.spared => Is(rows, c, {"rejected"})
         /\ k.at \in {"read", "write"} /\ c \in k.spared => k.status = "rejected"
         /\ k.at \in {"read", "write", "save"} /\ k.status \in Final => Is(rows, c, Final)

AdoptionTypeOK ==
    /\ object \in Seq(Provided \cup {NoValue} \cup {Says[c] : c \in Claims}) /\ Len(object) >= 1
    /\ heading \in Provided \cup {NoValue} \cup {Says[c] : c \in Claims}
    /\ IsRows(rowsOf)
    /\ offered \subseteq Claims
    /\ accepted \subseteq Claims
    /\ DOMAIN crawler = Crawlers
    /\ overtaken \in BOOLEAN

AdoptionInv ==
    /\ AdoptionTypeOK
    /\ \A w \in Crawlers : CrawlOK(crawler[w], Len(object), rowsOf, overtaken)
    /\ ~overtaken =>
         /\ \A c \in offered : ~Is(rowsOf, c, Final)
         /\ AcceptedIn(rowsOf) # {} => object[Len(object)] \in {Says[c] : c \in accepted}
         /\ sneaked = {}

LEMMA StatusesAre ==
  ASSUME NEW c, IsRows(rowsOf)
  PROVE  /\ \A s : s \in StatusesOf(c) <=> \E i \in 1..Len(rowsOf) : rowsOf[i].of = c /\ rowsOf[i].status = s
         /\ StatusesOf(c) = {} <=> \A i \in 1..Len(rowsOf) : rowsOf[i].of # c
  <1>1. DOMAIN rowsOf = 1..Len(rowsOf)
    BY DEF IsRows
  <1>2. StatusesOf(c) = {rowsOf[i].status : i \in {n \in 1..Len(rowsOf) : rowsOf[n].of = c}}
    BY <1>1 DEF StatusesOf, Range
  <1> QED
    BY <1>2

(* The fold over the rows ends with a value the user accepted, if there is *)
(* one: nothing that was accepted for him replaces it.                     *)
LEMMA AcceptedPrevails ==
  ASSUME NEW value, IsRows(rowsOf), AcceptedIn(rowsOf) # {}
  PROVE  AdoptAll(value, rowsOf) \in {Says[c] : c \in AcceptedIn(rowsOf)}
  <1> DEFINE len == Len(rowsOf)
             final == {Says[c] : c \in AcceptedIn(rowsOf)}
  <1>0. rowsOf \in Seq(StoredRow) /\ len \in Nat
    BY DEF IsRows
  <1>1. PICK after : /\ after[0] = value
                     /\ \A n \in 1..Len(rowsOf) : after[n] = Adopt(after[n - 1], rowsOf[n].of, rowsOf[n].status)
                     /\ AdoptAll(value, rowsOf) = after[Len(rowsOf)]
    <2> HIDE DEF len
    <2> QED
      BY ONLY <1>0, AdoptAllFollows
  <1> DEFINE Settled(n) == (\E i \in 1..n : rowsOf[i].status = "accepted") => after[n] \in final
             T == {n \in Nat : n <= len => Settled(n)}
  <1>2. 0 \in T
    OBVIOUS
  <1>3. \A n \in T : n + 1 \in T
    <2> SUFFICES ASSUME NEW n \in Nat, n + 1 <= len, Settled(n),
                        \E i \in 1..n + 1 : rowsOf[i].status = "accepted"
                 PROVE  after[n + 1] \in final
      <3> HIDE DEF final
      <3>1. \A n \in Nat : n + 1 <= len => n <= len
        BY <1>0
      <3> QED
        BY <3>1
    <2>1. n + 1 \in 1..len /\ after[n + 1] = Adopt(after[n], rowsOf[n + 1].of, rowsOf[n + 1].status)
      BY <1>0, <1>1
    <2>2. CASE rowsOf[n + 1].status = "accepted"
      BY <2>1, <2>2 DEF Adopt, AcceptedIn
    <2>3. CASE rowsOf[n + 1].status # "accepted"
      <3>1. \E i \in 1..n : rowsOf[i].status = "accepted"
        BY <2>3
      <3>2. after[n] \in final
        BY <3>1
      <3>3. AcceptedIn(rowsOf) \subseteq Claims
        <4>1. \A i \in 1..Len(rowsOf) : rowsOf[i] \in StoredRow
          BY <1>0
        <4> QED
          BY <4>1 DEF AcceptedIn, StoredRow
      <3>4. after[n] # NoValue
        BY <3>2, <3>3, AdoptionAssumption
      <3> QED
        BY <2>1, <2>3, <3>2, <3>4 DEF Adopt
    <2> QED
      BY <2>2, <2>3
  <1>4. len \in T
    <2>1. T \in SUBSET Nat
      OBVIOUS
    <2> HIDE DEF T
    <2> QED
      BY <1>0, <1>2, <1>3, <2>1, NaturalInduction
  <1>5. \E i \in 1..len : rowsOf[i].status = "accepted"
    BY DEF AcceptedIn
  <1> QED
    BY <1>0, <1>1, <1>4, <1>5

Values == Provided \cup {NoValue} \cup {Says[c] : c \in Claims}

LEMMA RowsAreTyped ==
  ASSUME NEW rows, IsRows(rows)
  PROVE  /\ Len(rows) \in Nat /\ DOMAIN rows = 1..Len(rows)
         /\ \A i \in 1..Len(rows) : rows[i] \in StoredRow /\ rows[i].of \in Claims /\ rows[i].status \in Statuses
  <1>1. /\ Len(rows) \in Nat /\ DOMAIN rows = 1..Len(rows)
        /\ \A i \in 1..Len(rows) : rows[i] \in StoredRow
    BY DEF IsRows
  <1> QED
    BY <1>1 DEF StoredRow

LEMMA AdoptedValue ==
  ASSUME NEW value \in Values, IsRows(rowsOf)
  PROVE  AdoptAll(value, rowsOf) \in Values
  <1> DEFINE len == Len(rowsOf)
  <1>0. rowsOf \in Seq(StoredRow) /\ len \in Nat
    BY DEF IsRows
  <1>1. PICK after : /\ after[0] = value
                     /\ \A n \in 1..Len(rowsOf) : after[n] = Adopt(after[n - 1], rowsOf[n].of, rowsOf[n].status)
                     /\ AdoptAll(value, rowsOf) = after[Len(rowsOf)]
    <2> HIDE DEF len
    <2> QED
      BY ONLY <1>0, AdoptAllFollows
  <1> DEFINE T == {n \in Nat : n <= len => after[n] \in Values}
  <1>2. 0 \in T
    BY <1>1
  <1>3. \A n \in T : n + 1 \in T
    <2> SUFFICES ASSUME NEW n \in Nat, n + 1 <= len, after[n] \in Values
                 PROVE  after[n + 1] \in Values
      <3>1. \A n \in Nat : n + 1 <= len => n <= len
        BY <1>0
      <3> QED
        BY <3>1
    <2>1. n + 1 \in 1..len /\ after[n + 1] = Adopt(after[n], rowsOf[n + 1].of, rowsOf[n + 1].status)
      BY <1>0, <1>1
    <2>2. rowsOf[n + 1].of \in Claims
      BY <2>1, RowsAreTyped
    <2> QED
      BY <2>1, <2>2 DEF Adopt, Values
  <1>4. len \in T
    <2>1. T \in SUBSET Nat
      OBVIOUS
    <2> HIDE DEF T
    <2> QED
      BY <1>0, <1>2, <1>3, <2>1, NaturalInduction
  <1> QED
    BY <1>0, <1>1, <1>4

LEMMA PendingAreUndecided ==
  ASSUME NEW rows, IsRows(rows)
  PROVE  PendingIn(rows) \subseteq Claims /\ \A c \in PendingIn(rows) : ~Is(rows, c, Final)
  <1>1. DOMAIN rows = 1..Len(rows) /\ \A i \in 1..Len(rows) : rows[i].of \in Claims
    BY RowsAreTyped
  <1>2. PendingIn(rows) = {rows[i].of : i \in {n \in 1..Len(rows) : rows[n].status = "pending"}}
    BY <1>1 DEF PendingIn, Range
  <1> QED
    BY <1>1, <1>2 DEF IsRows, Is, Final

LEMMA AcceptedAre ==
  ASSUME NEW rows, IsRows(rows)
  PROVE  {r.of : r \in {x \in Range(rows) : x.status = "accepted"}} = AcceptedIn(rows)
         /\ ({x \in Range(rows) : x.status = "accepted"} = {} <=> AcceptedIn(rows) = {})
  <1>1. DOMAIN rows = 1..Len(rows)
    BY RowsAreTyped
  <1> QED
    BY <1>1 DEF AcceptedIn, Range

LEMMA RejectedAre ==
  ASSUME IsRows(rowsOf)
  PROVE  \A c \in Claims : c \in Rejected <=> Is(rowsOf, c, {"rejected"})
  BY StatusesAre DEF Rejected, Is

(* A crawl that does nothing while others change the rows and profiles.    *)
LEMMA CrawlStays ==
  ASSUME NEW k, NEW n \in Nat, NEW n2 \in Nat, n <= n2, NEW rows, NEW rows2,
         NEW lost \in BOOLEAN, NEW lost2 \in BOOLEAN, lost => lost2, CrawlOK(k, n, rows, lost),
         ~lost2 => \A c \in k.of : /\ Is(rows, c, {"rejected"}) => Is(rows2, c, {"rejected"})
                                   /\ Is(rows, c, Final) => Is(rows2, c, Final)
  PROVE  CrawlOK(k, n2, rows2, lost2)
  <1>1. k.at # "none" => k.object \in 1..n2
    BY DEF CrawlOK
  <1> QED
    BY <1>1 DEF CrawlOK

LEMMA InitAdoptionInv == AdoptionInit => AdoptionInv
  <1> SUFFICES ASSUME AdoptionInit
               PROVE  AdoptionInv
    OBVIOUS
  <1>1. PICK v \in Provided \cup {NoValue} : object = <<v>>
    BY DEF AdoptionInit
  <1>2. object \in Seq(Values) /\ Len(object) = 1 /\ heading \in Values
    BY <1>1 DEF AdoptionInit, Values
  <1>3. rowsOf = <<>> /\ IsRows(rowsOf) /\ AcceptedIn(rowsOf) = {}
    BY DEF AdoptionInit, IsRows, AcceptedIn
  <1>4. AdoptionTypeOK
    <2>1. DOMAIN crawler = Crawlers /\ overtaken \in BOOLEAN /\ offered = {} /\ accepted = {}
      BY DEF AdoptionInit
    <2> QED
      BY <1>2, <1>3, <2>1 DEF AdoptionTypeOK, Values
  <1>5. \A w \in Crawlers : CrawlOK(crawler[w], Len(object), rowsOf, overtaken)
    <2>1. CrawlOK(IdleCrawler, Len(object), rowsOf, FALSE)
      BY DEF IdleCrawler, CrawlOK, CrawlRecord
    <2> QED
      BY <2>1 DEF AdoptionInit
  <1> QED
    BY <1>3, <1>4, <1>5 DEF AdoptionInit, AdoptionInv

LEMMA LoadProfileStep ==
  ASSUME AdoptionInv, LoadProfile
  PROVE  AdoptionInv'
  <1>1. PICK v \in Provided \cup {NoValue, heading} :
          /\ object' = Append(object, AdoptAll(v, rowsOf))
          /\ Headed(AdoptAll(v, rowsOf))
    BY DEF LoadProfile
  <1> DEFINE value == AdoptAll(v, rowsOf)
  <1>2. /\ accepted' = {r.of : r \in {x \in Range(rowsOf) : x.status = "accepted"}}
        /\ offered' \in {offered, PendingIn(rowsOf)}
        /\ UNCHANGED <<rowsOf, crawler, sneaked, overtaken>>
    BY DEF LoadProfile
  <1>3. object \in Seq(Values) /\ heading \in Values /\ IsRows(rowsOf) /\ Len(object) >= 1
    BY DEF AdoptionInv, AdoptionTypeOK, Values
  <1>4. value \in Values
    BY <1>3, AdoptedValue DEF Values
  <1>5. heading' \in Values
    BY <1>1, <1>3, <1>4 DEF Headed
  <1>6. accepted' = AcceptedIn(rowsOf) /\ AcceptedIn(rowsOf) \subseteq Claims
    <2>1. accepted' = AcceptedIn(rowsOf)
      BY <1>2, <1>3, AcceptedAre
    <2>2. \A i \in 1..Len(rowsOf) : rowsOf[i].of \in Claims
      BY <1>3, RowsAreTyped
    <2> QED
      BY <2>1, <2>2 DEF AcceptedIn
  <1>7. AcceptedIn(rowsOf) # {} => value \in {Says[c] : c \in AcceptedIn(rowsOf)}
    BY <1>3, AcceptedPrevails
  <1> HIDE DEF value
  <1>8. /\ object' \in Seq(Values) /\ Len(object') = Len(object) + 1 /\ Len(object) \in Nat
        /\ object'[Len(object')] = value
    BY <1>1, <1>3, <1>4 DEF value
  <1>9. offered' \subseteq Claims /\ (~overtaken => \A c \in offered' : ~Is(rowsOf, c, Final))
    BY <1>2, <1>3, PendingAreUndecided DEF AdoptionInv, AdoptionTypeOK
  <1>10. AdoptionTypeOK'
    BY <1>2, <1>3, <1>5, <1>6, <1>8, <1>9 DEF AdoptionInv, AdoptionTypeOK, Values
  <1>11. \A w \in Crawlers : CrawlOK(crawler[w], Len(object'), rowsOf, overtaken)
    BY <1>8, CrawlStays DEF AdoptionInv, AdoptionTypeOK
  <1> QED
    BY <1>2, <1>6, <1>7, <1>8, <1>9, <1>10, <1>11 DEF AdoptionInv

(* A step of one crawl that changes nothing else.                          *)
LEMMA CrawlerStep ==
  ASSUME AdoptionInv, NEW w \in Crawlers, NEW k,
         CrawlOK(k, Len(object), rowsOf, overtaken),
         crawler' = [crawler EXCEPT ![w] = k],
         UNCHANGED <<object, heading, rowsOf, offered, accepted, sneaked, overtaken>>
  PROVE  AdoptionInv'
  <1>1. DOMAIN crawler = Crawlers
    BY DEF AdoptionInv, AdoptionTypeOK
  <1>2. AdoptionTypeOK'
    BY <1>1 DEF AdoptionInv, AdoptionTypeOK
  <1>3. \A u \in Crawlers : CrawlOK(crawler'[u], Len(object), rowsOf, overtaken)
    BY <1>1 DEF AdoptionInv
  <1> QED
    BY <1>2, <1>3 DEF AdoptionInv

LEMMA StartAdoptingStep ==
  ASSUME AdoptionInv, NEW w \in Crawlers, StartAdopting(w)
  PROVE  AdoptionInv'
  <1> DEFINE k == [crawler[w] EXCEPT !.at = "page", !.object = Loaded]
  <1>1. /\ crawler[w].at = "none" /\ crawler' = [crawler EXCEPT ![w] = k]
        /\ UNCHANGED <<object, heading, rowsOf, offered, accepted, sneaked, overtaken>>
    BY DEF StartAdopting, Nowhere, AdoptionInv, AdoptionTypeOK
  <1>2. CrawlOK(crawler[w], Len(object), rowsOf, overtaken)
    BY DEF AdoptionInv
  <1>3. Len(object) \in Nat /\ Len(object) \in 1..Len(object)
    BY DEF AdoptionInv, AdoptionTypeOK
  <1>4. CrawlOK(k, Len(object), rowsOf, overtaken)
    <2>1. k \in CrawlRecord /\ k.at = "page" /\ k.object = Len(object) /\ k.of = crawler[w].of /\ k.spared = {}
      BY <1>1, <1>2, <1>3 DEF CrawlOK, CrawlRecord, Loaded
    <2> HIDE DEF k
    <2> QED
      BY <1>3, <2>1 DEF CrawlOK
  <1> HIDE DEF k
  <1> QED
    BY <1>1, <1>4, CrawlerStep

LEMMA VisitPageStep ==
  ASSUME AdoptionInv, NEW w \in Crawlers, NEW c \in Claims, VisitPage(w, c)
  PROVE  AdoptionInv'
  <1> DEFINE status == CandidateStatus(object[crawler[w].object], c)
             spared == {c} \cap Rejected
             k == [crawler[w] EXCEPT !.at = "list", !.of = {c}, !.status = status, !.spared = spared]
  <1>1. /\ crawler[w].at = "page" /\ crawler' = [crawler EXCEPT ![w] = k]
        /\ UNCHANGED <<object, heading, rowsOf, offered, accepted, sneaked, overtaken>>
    BY DEF VisitPage, AdoptionInv, AdoptionTypeOK
  <1>2. CrawlOK(crawler[w], Len(object), rowsOf, overtaken)
    BY DEF AdoptionInv
  <1>3. c \in spared => Is(rowsOf, c, {"rejected"})
    BY RejectedAre DEF AdoptionInv, AdoptionTypeOK
  <1>4. status \in {"pending", "auto_accepted"}
    BY DEF CandidateStatus
  <1> HIDE DEF status, spared
  <1>5. spared \subseteq {c}
    BY DEF spared
  <1>6. CrawlOK(k, Len(object), rowsOf, overtaken)
    <2>1. /\ k \in CrawlRecord /\ k.at = "list" /\ k.object = crawler[w].object /\ k.of = {c}
          /\ k.spared = spared /\ k.status = status
      BY <1>1, <1>2, <1>4, <1>5 DEF CrawlOK, CrawlRecord, Statuses
    <2> HIDE DEF k
    <2> QED
      BY <1>1, <1>2, <1>3, <1>4, <1>5, <2>1 DEF CrawlOK
  <1> HIDE DEF k
  <1> QED
    BY <1>1, <1>6, CrawlerStep

LEMMA ListStatusesStep ==
  ASSUME AdoptionInv, NEW w \in Crawlers, ListStatuses(w)
  PROVE  AdoptionInv'
  <1>0. CrawlOK(crawler[w], Len(object), rowsOf, overtaken) /\ IsRows(rowsOf) /\ DOMAIN crawler = Crawlers
    BY DEF AdoptionInv, AdoptionTypeOK
  <1>1. PICK c \in crawler[w].of :
          LET decided == StatusesOf(c) \cap {"accepted", "rejected"} IN
          crawler' = [crawler EXCEPT ![w].at = "read",
                                     ![w].status = IF decided = {} THEN @ ELSE CHOOSE s \in decided : TRUE]
    BY DEF ListStatuses
  <1> DEFINE decided == StatusesOf(c) \cap {"accepted", "rejected"}
             status == IF decided = {} THEN crawler[w].status ELSE CHOOSE s \in decided : TRUE
             k == [crawler[w] EXCEPT !.at = "read", !.status = status]
  <1>2. crawler' = [crawler EXCEPT ![w] = k]
    BY <1>0, <1>1
  <1>3. crawler[w].at = "list" /\ crawler[w].of = {c} /\ crawler[w].status \in {"pending", "auto_accepted"}
    BY <1>0, <1>1 DEF ListStatuses, CrawlOK
  <1>4. /\ UNCHANGED <<object, heading, rowsOf, offered, accepted, sneaked, overtaken>>
    BY DEF ListStatuses, Nowhere
  <1>5. /\ decided # {} => status \in decided
        /\ decided = {} => status \in {"pending", "auto_accepted"}
    BY <1>3
  <1>6. decided # {} => Is(rowsOf, c, Final)
    BY <1>0, StatusesAre DEF Is, Final
  <1>7. Is(rowsOf, c, {"rejected"}) => decided = {"rejected"}
    <2> SUFFICES ASSUME NEW i \in 1..Len(rowsOf), rowsOf[i].of = c, rowsOf[i].status = "rejected"
                 PROVE  decided = {"rejected"}
      BY DEF Is
    <2>1. \A s : s \in StatusesOf(c) => s = "rejected"
      BY <1>0, StatusesAre DEF IsRows
    <2>2. "rejected" \in StatusesOf(c)
      BY <1>0, StatusesAre
    <2> QED
      BY <2>1, <2>2
  <1>8. decided \subseteq Final
    BY DEF Final
  <1> HIDE DEF decided, status
  <1>9. CrawlOK(k, Len(object), rowsOf, overtaken)
    <2>1. status \in Statuses /\ (status \in Final => decided # {}) /\ (decided = {"rejected"} => status = "rejected")
      BY <1>5, <1>8 DEF Statuses, Final
    <2>2. /\ k \in CrawlRecord /\ k.at = "read" /\ k.object = crawler[w].object /\ k.of = {c}
          /\ k.spared = crawler[w].spared /\ k.status = status
      BY <1>0, <1>3, <2>1 DEF CrawlOK, CrawlRecord, Statuses
    <2> HIDE DEF k
    <2> QED
      BY <1>0, <1>3, <1>6, <1>7, <2>1, <2>2 DEF CrawlOK
  <1> HIDE DEF k
  <1> QED
    BY <1>2, <1>4, <1>9, CrawlerStep

LEMMA ReadFieldStep ==
  ASSUME AdoptionInv, NEW w \in Crawlers, ReadField(w)
  PROVE  AdoptionInv'
  <1> DEFINE value == object[crawler[w].object]
             k == [crawler[w] EXCEPT !.at = "write", !.read = value]
  <1>1. /\ crawler[w].at = "read" /\ crawler' = [crawler EXCEPT ![w] = k]
        /\ UNCHANGED <<object, heading, rowsOf, offered, accepted, sneaked, overtaken>>
    BY DEF ReadField, Nowhere, AdoptionInv, AdoptionTypeOK
  <1>2. CrawlOK(crawler[w], Len(object), rowsOf, overtaken)
    BY DEF AdoptionInv
  <1>3. value \in Provided \cup {NoValue} \cup {Says[c] : c \in Claims}
    BY <1>1, <1>2 DEF AdoptionInv, AdoptionTypeOK, CrawlOK
  <1> HIDE DEF value
  <1>4. CrawlOK(k, Len(object), rowsOf, overtaken)
    <2>1. /\ k \in CrawlRecord /\ k.at = "write" /\ k.object = crawler[w].object /\ k.of = crawler[w].of
          /\ k.spared = crawler[w].spared /\ k.status = crawler[w].status
      BY <1>1, <1>2, <1>3 DEF CrawlOK, CrawlRecord
    <2> HIDE DEF k
    <2> QED
      BY <1>1, <1>2, <2>1 DEF CrawlOK
  <1> HIDE DEF k
  <1> QED
    BY <1>1, <1>4, CrawlerStep

LEMMA WriteFieldStep ==
  ASSUME AdoptionInv, NEW w \in Crawlers, WriteField(w)
  PROVE  AdoptionInv'
  <1>0. /\ CrawlOK(crawler[w], Len(object), rowsOf, overtaken) /\ IsRows(rowsOf) /\ DOMAIN crawler = Crawlers
        /\ object \in Seq(Values) /\ Len(object) \in Nat /\ accepted \subseteq Claims /\ overtaken \in BOOLEAN
    BY DEF AdoptionInv, AdoptionTypeOK, Values
  <1>1. PICK c \in crawler[w].of :
          LET k == crawler[w]
              before == object[k.object]
              adopts == k.status = "accepted" \/ (k.status = "auto_accepted" /\ k.read = NoValue)
          IN  /\ object' = [object EXCEPT ![k.object] = IF adopts THEN Says[c] ELSE @]
              /\ accepted' = IF adopts /\ k.status = "accepted" /\ k.object = Loaded THEN accepted \cup {c} ELSE accepted
              /\ sneaked' = IF adopts THEN sneaked \cup (k.spared \cap Rejected) ELSE sneaked
              /\ overtaken' = (overtaken \/ (adopts /\ before # k.read))
    BY DEF WriteField
  <1> DEFINE at == crawler[w].object
             status == crawler[w].status
             adopts == status = "accepted" \/ (status = "auto_accepted" /\ crawler[w].read = NoValue)
             lost == overtaken \/ (adopts /\ object[at] # crawler[w].read)
             k == [crawler[w] EXCEPT !.at = "save", !.read = NoValue, !.spared = {}]
  <1>2. /\ crawler[w].at = "write" /\ crawler' = [crawler EXCEPT ![w] = k]
        /\ UNCHANGED <<heading, rowsOf, offered>>
    BY <1>0 DEF WriteField
  <1>3. /\ object' = [object EXCEPT ![at] = IF adopts THEN Says[c] ELSE object[at]]
        /\ accepted' = IF adopts /\ status = "accepted" /\ at = Len(object) THEN accepted \cup {c} ELSE accepted
        /\ sneaked' = IF adopts THEN sneaked \cup (crawler[w].spared \cap Rejected) ELSE sneaked
        /\ overtaken' = lost
    BY <1>1 DEF Loaded
  <1>4. at \in 1..Len(object) /\ crawler[w].of = {c} /\ c \in Claims /\ crawler[w].spared \subseteq {c}
    BY <1>0, <1>1, <1>2 DEF CrawlOK
  <1>5. lost \in BOOLEAN /\ (overtaken => lost)
    OBVIOUS
  <1>6. /\ object' \in Seq(Values) /\ Len(object') = Len(object)
        /\ object'[at] = (IF adopts THEN Says[c] ELSE object[at])
        /\ \A i \in 1..Len(object) : i # at => object'[i] = object[i]
    <2>1. (IF adopts THEN Says[c] ELSE object[at]) \in Values
      BY <1>0, <1>4 DEF Values
    <2> HIDE DEF adopts, at
    <2> QED
      BY <1>0, <1>3, <1>4, <2>1
  <1>7. accepted' \subseteq Claims /\ accepted \subseteq accepted'
    BY <1>0, <1>3, <1>4
  <1>8. CrawlOK(k, Len(object), rowsOf, lost)
    <2>1. /\ k \in CrawlRecord /\ k.at = "save" /\ k.object = at /\ k.of = {c} /\ k.spared = {} /\ k.status = status
      BY <1>0, <1>4 DEF CrawlOK, CrawlRecord
    <2>2. /\ status \in Statuses
          /\ ~overtaken => (status \in Final => Is(rowsOf, c, Final))
      BY <1>0, <1>2, <1>4 DEF CrawlOK
    <2> HIDE DEF k, lost, status
    <2> QED
      BY <1>4, <1>5, <2>1, <2>2 DEF CrawlOK
  <1>9. \A u \in Crawlers : CrawlOK(crawler'[u], Len(object), rowsOf, lost)
    <2> TAKE u \in Crawlers
    <2>1. CASE u = w
      BY <1>0, <1>2, <1>8, <2>1
    <2>2. CASE u # w
      <3>1. crawler'[u] = crawler[u] /\ CrawlOK(crawler[u], Len(object), rowsOf, overtaken)
        BY <1>0, <1>2, <2>2 DEF AdoptionInv
      <3> HIDE DEF lost
      <3> QED
        BY <1>0, <1>5, <3>1 DEF CrawlOK
    <2> QED
      BY <2>1, <2>2
  <1>10. ~lost => sneaked' = {}
    <2>1. ~overtaken => (adopts => crawler[w].spared = {})
      BY <1>0, <1>2, <1>4 DEF CrawlOK
    <2>2. ~overtaken => sneaked = {}
      BY DEF AdoptionInv
    <2> QED
      BY <1>3, <2>1, <2>2
  <1>11. ~lost /\ AcceptedIn(rowsOf) # {} => object'[Len(object)] \in {Says[d] : d \in accepted'}
    <2> SUFFICES ASSUME ~lost, AcceptedIn(rowsOf) # {}
                 PROVE  object'[Len(object)] \in {Says[d] : d \in accepted'}
      OBVIOUS
    <2>1. object[Len(object)] \in {Says[d] : d \in accepted}
      BY DEF AdoptionInv
    <2>2. CASE at = Len(object) /\ adopts
      <3>1. CASE status = "accepted"
        <4>1. object'[Len(object)] = Says[c] /\ c \in accepted'
          BY <1>3, <1>6, <2>2, <3>1
        <4> QED
          BY <4>1
      <3>2. CASE status # "accepted"
        <4>1. object[Len(object)] = NoValue
          BY <2>2, <3>2
        <4> QED
          BY <1>0, <2>1, <4>1, AdoptionAssumption
      <3> QED
        BY <3>1, <3>2
    <2>3. CASE ~(at = Len(object) /\ adopts)
      <3>1. object'[Len(object)] = object[Len(object)]
        <4>1. CASE at = Len(object)
          BY <1>6, <2>3, <4>1
        <4>2. CASE at # Len(object)
          <5>1. Len(object) \in 1..Len(object)
            BY <1>0, <1>4
          <5> HIDE DEF at
          <5> QED
            BY <1>6, <4>2, <5>1
        <4> QED
          BY <4>1, <4>2
      <3> QED
        BY <1>7, <2>1, <3>1
    <2> QED
      BY <2>2, <2>3
  <1> HIDE DEF lost, k, adopts, at, status
  <1>12. AdoptionTypeOK'
    BY <1>0, <1>2, <1>3, <1>5, <1>6, <1>7 DEF AdoptionInv, AdoptionTypeOK, Values
  <1> QED
    BY <1>2, <1>3, <1>5, <1>6, <1>9, <1>10, <1>11, <1>12 DEF AdoptionInv

(* Rows to which one is added at most, or of which one changes, and which  *)
(* keep what is decided.                                                   *)
LEMMA RowsGrow ==
  ASSUME NEW rows, IsRows(rows), NEW c \in Claims, NEW s \in Statuses, NEW rows2,
         \/ (\A i \in 1..Len(rows) : rows[i].of # c) /\ rows2 = <<[of |-> c, status |-> s]>> \o rows
         \/ rows2 = [i \in DOMAIN rows |-> IF rows[i].of = c /\ rows[i].status \notin Final
                                           THEN [of |-> c, status |-> s] ELSE rows[i]]
  PROVE  /\ IsRows(rows2)
         /\ \A d : Is(rows, d, Final) => Is(rows2, d, Final)
         /\ \A d : Is(rows, d, {"rejected"}) => Is(rows2, d, {"rejected"})
         /\ (s \in Final => Is(rows, c, Final))
              => \A j \in 1..Len(rows2) : rows2[j].status \in Final => \E i \in 1..Len(rows) : rows[i] = rows2[j]
  <1> DEFINE row == [of |-> c, status |-> s]
  <1>0. /\ rows \in Seq(StoredRow) /\ Len(rows) \in Nat /\ DOMAIN rows = 1..Len(rows)
        /\ \A i \in 1..Len(rows) : rows[i] \in StoredRow
    BY RowsAreTyped DEF IsRows
  <1>4. Len(rows) \in Nat
    BY <1>0
  <1>1. row \in StoredRow /\ row.of = c /\ row.status = s
    BY DEF StoredRow
  <1> HIDE DEF row
  <1>2. CASE (\A i \in 1..Len(rows) : rows[i].of # c) /\ rows2 = <<row>> \o rows
    <2> DEFINE front == <<row>>
    <2>1. front \in Seq(StoredRow) /\ Len(front) = 1 /\ front[1] = row
      BY <1>1
    <2>0. rows \in Seq(StoredRow) /\ rows2 = front \o rows
      BY <1>0, <1>2
    <2> HIDE DEF front
    <2>2. rows2 \in Seq(StoredRow)
      BY ONLY <2>0, <2>1, ConcatIsSeq
    <2>30. Len(rows2) = Len(front) + Len(rows)
      BY ONLY <2>0, <2>1, ConcatLen
    <2>31. \A i \in 1..Len(front) + Len(rows) :
             rows2[i] = IF i <= Len(front) THEN front[i] ELSE rows[i - Len(front)]
      BY ONLY <2>0, <2>1, ConcatAt
    <2>3. Len(rows2) = Len(rows) + 1
      BY <1>4, <2>1, <2>30
    <2>4. \A i \in 1..Len(rows2) : rows2[i] = IF i = 1 THEN row ELSE rows[i - 1]
      <3>1. \A i \in 1..1 + Len(rows) : rows2[i] = IF i <= 1 THEN front[i] ELSE rows[i - 1]
        BY <2>1, <2>31
      <3> QED
        BY <1>4, <2>1, <2>3, <3>1
    <2>5. \A i \in 1..Len(rows) : i + 1 \in 1..Len(rows2) /\ rows2[i + 1] = rows[i]
      BY <1>4, <2>3, <2>4
    <2>6. \A i \in 1..Len(rows2) : i # 1 => i - 1 \in 1..Len(rows)
      BY <1>4, <2>3
    <2>7. IsRows(rows2)
      <3> SUFFICES ASSUME NEW i \in 1..Len(rows2), NEW j \in 1..Len(rows2), rows2[i].of = rows2[j].of
                   PROVE  i = j
        BY <2>2 DEF IsRows
      <3>1. CASE i = 1 /\ j # 1
        BY <1>1, <1>2, <2>4, <2>6, <3>1
      <3>2. CASE i # 1 /\ j = 1
        BY <1>1, <1>2, <2>4, <2>6, <3>2
      <3>3. CASE i # 1 /\ j # 1
        <4>1. i - 1 \in 1..Len(rows) /\ j - 1 \in 1..Len(rows) /\ rows[i - 1].of = rows[j - 1].of
          BY <2>4, <2>6, <3>3
        <4>2. i - 1 = j - 1
          BY <4>1 DEF IsRows
        <4> QED
          BY <1>4, <2>3, <4>2
      <3> QED
        BY <3>1, <3>2, <3>3
    <2>8. (s \in Final => Is(rows, c, Final)) => s \notin Final
      BY <1>2 DEF Is
    <2> QED
      BY <1>1, <2>4, <2>5, <2>6, <2>7, <2>8 DEF Is
  <1>3. CASE rows2 = [i \in DOMAIN rows |-> IF rows[i].of = c /\ rows[i].status \notin Final THEN row ELSE rows[i]]
    <2>0. \A i \in 1..Len(rows) :
            (IF rows[i].of = c /\ rows[i].status \notin Final THEN row ELSE rows[i]) \in StoredRow
      BY <1>0, <1>1
    <2>1. rows2 \in Seq(StoredRow) /\ Len(rows2) = Len(rows)
      <3> DEFINE at(i) == IF rows[i].of = c /\ rows[i].status \notin Final THEN row ELSE rows[i]
      <3>1. rows2 = [i \in 1..Len(rows) |-> at(i)] /\ \A i \in 1..Len(rows) : at(i) \in StoredRow
        BY <1>0, <1>3, <2>0
      <3> HIDE DEF at
      <3> QED
        BY <1>4, <3>1
    <2>2. \A i \in 1..Len(rows) : rows2[i] = IF rows[i].of = c /\ rows[i].status \notin Final THEN row ELSE rows[i]
      BY <1>0, <1>3
    <2>3. \A i \in 1..Len(rows) : rows2[i].of = rows[i].of
      BY <1>1, <2>2
    <2>4. IsRows(rows2)
      BY <2>1, <2>3 DEF IsRows
    <2>5. \A i \in 1..Len(rows) : rows[i].status \in Final => rows2[i] = rows[i]
      BY <2>2
    <2>6. /\ \A d : Is(rows, d, Final) => Is(rows2, d, Final)
          /\ \A d : Is(rows, d, {"rejected"}) => Is(rows2, d, {"rejected"})
      BY <2>1, <2>5 DEF Is, Final
    <2>7. (s \in Final => Is(rows, c, Final))
            => \A j \in 1..Len(rows2) : rows2[j].status \in Final => rows2[j] = rows[j]
      <3> SUFFICES ASSUME s \in Final => Is(rows, c, Final), NEW j \in 1..Len(rows), rows2[j].status \in Final
                   PROVE  rows2[j] = rows[j]
        BY <2>1
      <3>1. CASE rows[j].of = c /\ rows[j].status \notin Final
        <4>1. s \in Final
          BY <1>1, <2>2, <3>1
        <4> QED
          BY <3>1, <4>1 DEF Is, IsRows
      <3>2. CASE ~(rows[j].of = c /\ rows[j].status \notin Final)
        BY <2>2, <3>2
      <3> QED
        BY <3>1, <3>2
    <2> QED
      BY <2>1, <2>4, <2>6, <2>7
  <1> QED
    BY <1>2, <1>3 DEF row

LEMMA SaveStatusStep ==
  ASSUME AdoptionInv, NEW w \in Crawlers, SaveStatus(w)
  PROVE  AdoptionInv'
  <1> DEFINE status == crawler[w].status
             saved == [crawler[w] EXCEPT !.at = "page", !.of = {}, !.status = "none", !.found = TRUE]
  <1>0. /\ CrawlOK(crawler[w], Len(object), rowsOf, overtaken) /\ IsRows(rowsOf) /\ DOMAIN crawler = Crawlers
        /\ Len(object) \in Nat /\ overtaken \in BOOLEAN /\ crawler[w].at = "save"
    BY DEF AdoptionInv, AdoptionTypeOK, SaveStatus
  <1>1. PICK c \in crawler[w].of :
          \/ crawler' = [crawler EXCEPT ![w] = IdleCrawler] /\ UNCHANGED rowsOf
          \/ /\ crawler' = [crawler EXCEPT ![w].at = "page", ![w].of = {}, ![w].status = "none", ![w].found = TRUE]
             /\ rowsOf' = IF StatusesOf(c) = {} THEN <<[of |-> c, status |-> crawler[w].status]>> \o rowsOf
                          ELSE [i \in DOMAIN rowsOf |->
                                  IF rowsOf[i].of = c /\ rowsOf[i].status \notin {"accepted", "rejected"}
                                  THEN [of |-> c, status |-> crawler[w].status] ELSE rowsOf[i]]
    BY DEF SaveStatus
  <1>2. UNCHANGED <<object, heading, offered, accepted, sneaked, overtaken>>
    BY DEF SaveStatus
  <1>3. crawler[w].of = {c} /\ c \in Claims /\ status \in Statuses /\ crawler[w].spared = {}
    BY <1>0, <1>1 DEF CrawlOK
  <1>4. ~overtaken => (status \in Final => Is(rowsOf, c, Final))
    BY <1>0, <1>3 DEF CrawlOK
  <1>5. CASE crawler' = [crawler EXCEPT ![w] = IdleCrawler] /\ UNCHANGED rowsOf
    <2>1. CrawlOK(IdleCrawler, Len(object), rowsOf, overtaken)
      BY DEF IdleCrawler, CrawlOK, CrawlRecord
    <2> QED
      BY <1>2, <1>5, <2>1, CrawlerStep
  <1>6. CASE /\ crawler' = [crawler EXCEPT ![w].at = "page", ![w].of = {}, ![w].status = "none", ![w].found = TRUE]
             /\ rowsOf' = IF StatusesOf(c) = {} THEN <<[of |-> c, status |-> crawler[w].status]>> \o rowsOf
                          ELSE [i \in DOMAIN rowsOf |->
                                  IF rowsOf[i].of = c /\ rowsOf[i].status \notin {"accepted", "rejected"}
                                  THEN [of |-> c, status |-> crawler[w].status] ELSE rowsOf[i]]
    <2>1. \/ (\A i \in 1..Len(rowsOf) : rowsOf[i].of # c) /\ rowsOf' = <<[of |-> c, status |-> status]>> \o rowsOf
          \/ rowsOf' = [i \in DOMAIN rowsOf |-> IF rowsOf[i].of = c /\ rowsOf[i].status \notin Final
                                                THEN [of |-> c, status |-> status] ELSE rowsOf[i]]
      BY <1>0, <1>6, StatusesAre DEF Final
    <2> HIDE DEF status
    <2>2. /\ IsRows(rowsOf')
          /\ \A d : Is(rowsOf, d, Final) => Is(rowsOf', d, Final)
          /\ \A d : Is(rowsOf, d, {"rejected"}) => Is(rowsOf', d, {"rejected"})
          /\ (status \in Final => Is(rowsOf, c, Final))
               => \A j \in 1..Len(rowsOf') : rowsOf'[j].status \in Final
                                               => \E i \in 1..Len(rowsOf) : rowsOf[i] = rowsOf'[j]
      BY <1>0, <1>3, <2>1, RowsGrow
    <2>3. ~overtaken => \A j \in 1..Len(rowsOf') : rowsOf'[j].status \in Final
                                                     => \E i \in 1..Len(rowsOf) : rowsOf[i] = rowsOf'[j]
      BY <1>4, <2>2
    <2>4. ~overtaken => /\ \A d : Is(rowsOf', d, Final) => Is(rowsOf, d, Final)
                        /\ AcceptedIn(rowsOf') \subseteq AcceptedIn(rowsOf)
      BY <2>3 DEF Is, Final, AcceptedIn
    <2>5. crawler' = [crawler EXCEPT ![w] = saved]
      BY <1>0, <1>6
    <2>6. CrawlOK(saved, Len(object), rowsOf', overtaken)
      <3>1. /\ saved \in CrawlRecord /\ saved.at = "page" /\ saved.object = crawler[w].object /\ saved.of = {}
            /\ saved.spared = {}
        BY <1>0, <1>3 DEF CrawlOK, CrawlRecord
      <3> HIDE DEF saved
      <3> QED
        BY <1>0, <3>1 DEF CrawlOK
    <2> HIDE DEF saved
    <2>7. \A u \in Crawlers : CrawlOK(crawler'[u], Len(object), rowsOf', overtaken)
      <3> TAKE u \in Crawlers
      <3>1. CASE u = w
        BY <1>0, <2>5, <2>6, <3>1
      <3>2. CASE u # w
        <4>1. crawler'[u] = crawler[u] /\ CrawlOK(crawler[u], Len(object), rowsOf, overtaken)
          BY <1>0, <2>5, <3>2 DEF AdoptionInv
        <4> QED
          BY <2>2, <4>1 DEF CrawlOK
      <3> QED
        BY <3>1, <3>2
    <2>8. AdoptionTypeOK'
      BY <1>0, <1>2, <2>2, <2>5 DEF AdoptionInv, AdoptionTypeOK
    <2> QED
      BY <1>2, <2>4, <2>7, <2>8 DEF AdoptionInv
  <1> QED
    BY <1>1, <1>5, <1>6

LEMMA CrawlIsShownStep ==
  ASSUME AdoptionInv, NEW w \in Crawlers, CrawlIsShown(w)
  PROVE  AdoptionInv'
  <1>1. /\ crawler' = [crawler EXCEPT ![w] = IdleCrawler] /\ offered' = PendingIn(rowsOf)
        /\ UNCHANGED <<object, rowsOf, accepted, sneaked, overtaken>>
        /\ IF crawler[w].found THEN Headed(object[Loaded]) ELSE UNCHANGED heading
    BY DEF CrawlIsShown
  <1>2. IsRows(rowsOf) /\ DOMAIN crawler = Crawlers
    BY DEF AdoptionInv, AdoptionTypeOK
  <1>3. offered' \subseteq Claims /\ \A c \in offered' : ~Is(rowsOf, c, Final)
    BY <1>1, <1>2, PendingAreUndecided
  <1>4. heading' \in Values
    <2>1. object \in Seq(Values) /\ Len(object) >= 1 /\ heading \in Values
      BY DEF AdoptionInv, AdoptionTypeOK, Values
    <2>2. object[Len(object)] \in Values
      BY <2>1
    <2> QED
      BY <1>1, <2>1, <2>2 DEF Headed, Loaded
  <1>5. CrawlOK(IdleCrawler, Len(object), rowsOf, overtaken)
    BY DEF IdleCrawler, CrawlOK, CrawlRecord
  <1>6. AdoptionTypeOK'
    BY <1>1, <1>2, <1>3, <1>4 DEF AdoptionInv, AdoptionTypeOK, Values
  <1>7. \A u \in Crawlers : CrawlOK(crawler'[u], Len(object), rowsOf, overtaken)
    BY <1>1, <1>2, <1>5 DEF AdoptionInv
  <1> QED
    BY <1>1, <1>3, <1>6, <1>7 DEF AdoptionInv

LEMMA RedecidedRows ==
  ASSUME IsRows(rowsOf), NEW c \in Claims, NEW s \in Final
  PROVE  /\ IsRows(Redecided(c, s)) /\ Len(Redecided(c, s)) = Len(rowsOf)
         /\ \A i \in 1..Len(rowsOf) :
              /\ Redecided(c, s)[i].of = rowsOf[i].of
              /\ Redecided(c, s)[i].status = IF rowsOf[i].of = c THEN s ELSE rowsOf[i].status
  <1> DEFINE row == [of |-> c, status |-> s]
             at(i) == IF rowsOf[i].of = c THEN row ELSE rowsOf[i]
             new == Redecided(c, s)
  <1>0. /\ DOMAIN rowsOf = 1..Len(rowsOf)
        /\ \A i \in 1..Len(rowsOf) : rowsOf[i] \in StoredRow
    BY RowsAreTyped
  <1>4. Len(rowsOf) \in Nat
    BY RowsAreTyped
  <1>1. row \in StoredRow /\ row.of = c /\ row.status = s
    BY DEF StoredRow, Statuses, Final
  <1> HIDE DEF row
  <1>2. new = [i \in 1..Len(rowsOf) |-> at(i)] /\ \A i \in 1..Len(rowsOf) : at(i) \in StoredRow
    BY <1>0, <1>1 DEF Redecided, row
  <1>3. \A i \in 1..Len(rowsOf) : /\ at(i).of = rowsOf[i].of
                                  /\ at(i).status = IF rowsOf[i].of = c THEN s ELSE rowsOf[i].status
    BY <1>1
  <1> HIDE DEF at, new
  <1>5. new \in Seq(StoredRow) /\ Len(new) = Len(rowsOf) /\ \A i \in 1..Len(rowsOf) : new[i] = at(i)
    BY <1>2, <1>4
  <1>6. IsRows(new)
    BY <1>3, <1>5 DEF IsRows
  <1> QED
    BY <1>3, <1>5, <1>6 DEF new

(* The user decides on a candidate nobody decided on.                      *)
LEMMA DecisionStep ==
  ASSUME AdoptionInv, NEW c \in Claims, NEW s \in Final, c \in offered,
         rowsOf' = Redecided(c, s), offered' = PendingIn(rowsOf'),
         UNCHANGED <<crawler, sneaked, overtaken>>,
         \/ s = "rejected" /\ UNCHANGED <<object, heading, accepted>>
         \/ /\ object' = [object EXCEPT ![Loaded] = Says[c]] /\ Headed(Says[c])
            /\ accepted' = accepted \cup {c}
  PROVE  AdoptionInv'
  <1>0. /\ IsRows(rowsOf) /\ DOMAIN crawler = Crawlers /\ object \in Seq(Values) /\ Len(object) >= 1
        /\ Len(object) \in Nat /\ heading \in Values /\ overtaken \in BOOLEAN /\ accepted \subseteq Claims
    BY DEF AdoptionInv, AdoptionTypeOK, Values
  <1>1. /\ IsRows(rowsOf') /\ Len(rowsOf') = Len(rowsOf)
        /\ \A i \in 1..Len(rowsOf) :
             /\ rowsOf'[i].of = rowsOf[i].of
             /\ rowsOf'[i].status = IF rowsOf[i].of = c THEN s ELSE rowsOf[i].status
    BY <1>0, RedecidedRows
  <1>2. offered' \subseteq Claims /\ \A d \in offered' : ~Is(rowsOf', d, Final)
    BY <1>1, PendingAreUndecided
  <1>3. Says[c] \in Values
    BY DEF Values
  <1>4. heading' \in Values
    BY <1>0, <1>3 DEF Headed
  <1>5. object' \in Seq(Values) /\ Len(object') = Len(object)
    BY <1>0, <1>3 DEF Loaded
  <1>6. \A d : Is(rowsOf, d, Final) => Is(rowsOf', d, Final)
    BY <1>1 DEF Is
  <1>7. ~overtaken => \A d : Is(rowsOf, d, {"rejected"}) => Is(rowsOf', d, {"rejected"})
    <2>1. ~overtaken => ~Is(rowsOf, c, Final)
      BY DEF AdoptionInv
    <2> QED
      BY <1>1, <2>1 DEF Is, Final
  <1>8. \A u \in Crawlers : CrawlOK(crawler[u], Len(object), rowsOf', overtaken)
    <2> TAKE u \in Crawlers
    <2>1. CrawlOK(crawler[u], Len(object), rowsOf, overtaken)
      BY DEF AdoptionInv
    <2> QED
      BY <1>6, <1>7, <2>1 DEF CrawlOK
  <1>9. ~overtaken /\ AcceptedIn(rowsOf') # {} => object'[Len(object)] \in {Says[d] : d \in accepted'}
    <2>1. CASE s = "rejected" /\ UNCHANGED <<object, heading, accepted>>
      <3>1. AcceptedIn(rowsOf') \subseteq AcceptedIn(rowsOf)
        BY <1>1, <2>1 DEF AcceptedIn
      <3> QED
        BY <2>1, <3>1 DEF AdoptionInv
    <2>2. CASE /\ object' = [object EXCEPT ![Loaded] = Says[c]] /\ Headed(Says[c])
               /\ accepted' = accepted \cup {c}
      <3>1. object'[Len(object)] = Says[c]
        BY <1>0, <2>2 DEF Loaded
      <3> QED
        BY <2>2, <3>1
    <2> QED
      BY <2>1, <2>2
  <1>10. accepted' \subseteq Claims
    BY <1>0
  <1>11. AdoptionTypeOK'
    BY <1>0, <1>1, <1>2, <1>4, <1>5, <1>10 DEF AdoptionTypeOK, Values
  <1>12. ~overtaken => sneaked = {}
    BY DEF AdoptionInv
  <1> QED
    BY <1>2, <1>5, <1>8, <1>9, <1>11, <1>12 DEF AdoptionInv

(* Pages are forgotten, and what is left are rows that were there.         *)
LEMMA ForgetStep ==
  ASSUME AdoptionInv, NEW some \in SUBSET Claims, NEW left, ForgetPages(some, left), IsRows(left),
         \A j \in 1..Len(left) : \E i \in 1..Len(rowsOf) : left[j] = rowsOf[i],
         \A i \in 1..Len(rowsOf) : rowsOf[i].of \in some \/ \E j \in 1..Len(left) : left[j] = rowsOf[i]
  PROVE  AdoptionInv'
  <1>0. /\ IsRows(rowsOf) /\ overtaken \in BOOLEAN
    BY DEF AdoptionInv, AdoptionTypeOK
  <1> DEFINE lost == overtaken \/ \E w \in Crawlers : crawler[w].of \cap some # {}
  <1>1. /\ rowsOf' = left /\ offered' = PendingIn(left) /\ overtaken' = lost
        /\ UNCHANGED <<object, heading, crawler, accepted, sneaked>>
    BY DEF ForgetPages
  <1>2. lost \in BOOLEAN /\ (overtaken => lost)
    OBVIOUS
  <1>3. offered' \subseteq Claims /\ \A d \in offered' : ~Is(left, d, Final)
    BY <1>1, PendingAreUndecided
  <1>4. AcceptedIn(left) \subseteq AcceptedIn(rowsOf)
    BY DEF AcceptedIn
  <1>5. \A d, statuses : d \notin some /\ Is(rowsOf, d, statuses) => Is(left, d, statuses)
    BY DEF Is
  <1>6. \A u \in Crawlers : CrawlOK(crawler[u], Len(object), left, lost)
    <2> TAKE u \in Crawlers
    <2>1. CrawlOK(crawler[u], Len(object), rowsOf, overtaken)
      BY DEF AdoptionInv
    <2>2. ~lost => \A d \in crawler[u].of : d \notin some
      OBVIOUS
    <2> HIDE DEF lost
    <2> QED
      BY <1>2, <1>5, <2>1, <2>2 DEF CrawlOK
  <1> HIDE DEF lost
  <1>7. AdoptionTypeOK'
    BY <1>1, <1>2, <1>3 DEF AdoptionInv, AdoptionTypeOK
  <1> QED
    BY <1>1, <1>2, <1>3, <1>4, <1>6, <1>7 DEF AdoptionInv

LEMMA RowsWithoutOne ==
  ASSUME IsRows(rowsOf), NEW c
  PROVE  /\ IsRows(RowsWithout(c))
         /\ \A j \in 1..Len(RowsWithout(c)) : \E i \in 1..Len(rowsOf) : RowsWithout(c)[j] = rowsOf[i]
         /\ \A i \in 1..Len(rowsOf) :
              rowsOf[i].of = c \/ \E j \in 1..Len(RowsWithout(c)) : RowsWithout(c)[j] = rowsOf[i]
  <1> DEFINE rows == RowsWithout(c)
  <1>0. rowsOf \in Seq(StoredRow) /\ Len(rowsOf) \in Nat /\ DOMAIN rowsOf = 1..Len(rowsOf)
    BY RowsAreTyped DEF IsRows
  <1>1. CASE \A i \in 1..Len(rowsOf) : rowsOf[i].of # c
    <2>1. rows = rowsOf
      BY <1>0, <1>1 DEF RowsWithout
    <2> QED
      BY <2>1
  <1>2. CASE \E i \in 1..Len(rowsOf) : rowsOf[i].of = c
    <2> DEFINE n == CHOOSE i \in DOMAIN rowsOf : rowsOf[i].of = c
    <2>1. n \in 1..Len(rowsOf) /\ rowsOf[n].of = c
      BY <1>0, <1>2
    <2>2. rows = RemoveAt(rowsOf, n)
      BY <1>0, <1>2 DEF RowsWithout
    <2> HIDE DEF n, rows
    <2>3. /\ rows \in Seq(StoredRow) /\ Len(rows) = Len(rowsOf) - 1
          /\ \A i \in 1..Len(rowsOf) - 1 : rows[i] = IF i < n THEN rowsOf[i] ELSE rowsOf[i + 1]
      BY <1>0, <2>1, <2>2, RemoveAtProperties
    <2>4. Len(rowsOf) \in Nat
      BY <1>0
    <2> DEFINE from(i) == IF i < n THEN i ELSE i + 1
    <2>5. \A i \in 1..Len(rows) : from(i) \in 1..Len(rowsOf) /\ rows[i] = rowsOf[from(i)]
      BY <2>1, <2>3, <2>4
    <2>6. \A i, j \in 1..Len(rows) : from(i) = from(j) => i = j
      BY <2>1, <2>3, <2>4
    <2>7. \A i \in 1..Len(rowsOf) : i = n \/ \E j \in 1..Len(rows) : from(j) = i
      <3> TAKE i \in 1..Len(rowsOf)
      <3>1. CASE i < n
        <4>1. i \in 1..Len(rows) /\ from(i) = i
          BY <2>1, <2>3, <2>4, <3>1
        <4> QED
          BY <4>1
      <3>2. CASE i > n
        <4>1. i - 1 \in 1..Len(rows) /\ from(i - 1) = i
          BY <2>1, <2>3, <2>4, <3>2
        <4> QED
          BY <4>1
      <3>3. i < n \/ i = n \/ i > n
        BY <2>1, <2>4
      <3> QED
        BY <3>1, <3>2, <3>3
    <2> HIDE DEF from
    <2>8. IsRows(rows)
      BY <2>3, <2>5, <2>6 DEF IsRows
    <2>9. \A i \in 1..Len(rowsOf) : rowsOf[i].of = c \/ \E j \in 1..Len(rows) : rows[j] = rowsOf[i]
      BY <2>1, <2>5, <2>7
    <2> QED
      BY <2>5, <2>8, <2>9 DEF rows
  <1> QED
    BY <1>1, <1>2

LEMMA AdoptionStep == AdoptionInv /\ [AdoptionNext]_adoptionVars => AdoptionInv'
  <1> SUFFICES ASSUME AdoptionInv, [AdoptionNext]_adoptionVars
               PROVE  AdoptionInv'
    OBVIOUS
  <1>0. IsRows(rowsOf)
    BY DEF AdoptionInv, AdoptionTypeOK
  <1>1. CASE UNCHANGED adoptionVars
    <2>1. UNCHANGED <<object, heading, rowsOf, offered, crawler, accepted, sneaked, overtaken>>
      BY <1>1 DEF adoptionVars
    <2>2. AdoptionTypeOK'
      BY <2>1 DEF AdoptionInv, AdoptionTypeOK
    <2> QED
      BY <2>1, <2>2 DEF AdoptionInv
  <1>2. ASSUME NEW c \in Claims, RejectCandidate(c) \/ AcceptCandidate(c)
        PROVE  AdoptionInv'
    <2>1. CASE RejectCandidate(c)
      <3>1. "rejected" \in Final
        BY DEF Final
      <3> QED
        BY <2>1, <3>1, DecisionStep DEF RejectCandidate
    <2>2. CASE AcceptCandidate(c)
      <3>1. "accepted" \in Final
        BY DEF Final
      <3> QED
        BY <2>2, <3>1, DecisionStep DEF AcceptCandidate
    <2> QED
      BY <1>2, <2>1, <2>2
  <1>3. ASSUME NEW c \in Claims, ForgetPages({c}, RowsWithout(c))
        PROVE  AdoptionInv'
    <2> DEFINE left == RowsWithout(c)
    <2>1. /\ IsRows(left) /\ {c} \in SUBSET Claims
          /\ \A j \in 1..Len(left) : \E i \in 1..Len(rowsOf) : left[j] = rowsOf[i]
          /\ \A i \in 1..Len(rowsOf) : rowsOf[i].of \in {c} \/ \E j \in 1..Len(left) : left[j] = rowsOf[i]
      BY <1>0, RowsWithoutOne
    <2>2. ForgetPages({c}, left)
      BY <1>3
    <2> HIDE DEF left
    <2> QED
      BY <2>1, <2>2, ForgetStep
  <1>4. CASE ForgetPages(Claims, <<>>)
    <2>1. IsRows(<<>>) /\ Claims \in SUBSET Claims
      BY DEF IsRows
    <2>2. \A j \in 1..Len(<<>>) : \E i \in 1..Len(rowsOf) : <<>>[j] = rowsOf[i]
      OBVIOUS
    <2>3. \A i \in 1..Len(rowsOf) : rowsOf[i].of \in Claims
      BY <1>0, RowsAreTyped
    <2> QED
      BY <1>4, <2>1, <2>2, <2>3, ForgetStep
  <1> QED
    BY <1>1, <1>2, <1>3, <1>4, LoadProfileStep, StartAdoptingStep, VisitPageStep, ListStatusesStep,
       ReadFieldStep, WriteFieldStep, SaveStatusStep, CrawlIsShownStep DEF AdoptionNext

(* The inductive invariant of the adoption of candidates: what each crawl  *)
(* has read of the rows is still so, unless it was overtaken, and what the *)
(* page offers for decision is undecided.                                  *)
THEOREM AdoptionInvariant == AdoptionSpec => []AdoptionInv
  BY InitAdoptionInv, AdoptionStep, PTL DEF AdoptionSpec

(* What the user accepted is in the profile, and what he rejected is not   *)
(* applied by a crawl, unless the crawl is overtaken: for any number of    *)
(* crawls, candidates and profiles loaded.                                 *)
THEOREM DecisionsPrevail == AdoptionSpec => []DecisionsShow
  <1>1. AdoptionInv => DecisionsShow
    <2> SUFFICES ASSUME AdoptionInv
                 PROVE  DecisionsShow
      OBVIOUS
    <2>1. {r \in Range(rowsOf) : r.status = "accepted"} = {} <=> AcceptedIn(rowsOf) = {}
      BY AcceptedAre DEF AdoptionInv, AdoptionTypeOK
    <2> QED
      BY <2>1 DEF AdoptionInv, DecisionsShow, Loaded
  <1> QED
    BY <1>1, AdoptionInvariant, PTL
=============================================================================
