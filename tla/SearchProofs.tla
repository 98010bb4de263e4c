---------------------------- MODULE SearchProofs ----------------------------
(***************************************************************************)
(* What is proved about a search: the page implements its promise and      *)
(* shows what belongs to its inputs (SearchPage), what its two stages keep *)
(* is accounted for (LocalSearch, EnrichSearch), its cards are companies   *)
(* and none is lost (Ranking), and the index it looks into says what it    *)
(* lacks and finds each spelling of what it has (SymbolIndex), for any     *)
(* number of texts, filters, searches, threads, providers, companies and   *)
(* securities.                                                             *)
(***************************************************************************)
EXTENDS SearchPage, LocalSearch, EnrichSearch, Ranking, SymbolIndex, DataFacts, SequenceTheorems, FiniteSetTheorems,
        TLAPS

(* Searches are started in order, under request ids that grow; what has    *)
(* not been started is blank, and only the newest search can be current.   *)
SearchesInOrder ==
    \A j \in Numbers :
      /\ j > latest => search[j] = NoSearch /\ work[j] = "none"
      /\ j < latest => search[j].id < requestId
      /\ j = latest => search[j].id <= requestId

(* A worker works for a search of a text; until its search has been        *)
(* superseded the page waits for what it brings.                           *)
WorkersAwaited ==
    \A j \in Numbers :
      /\ work[j] # "none" => j <= latest /\ search[j].text # NoText
      /\ work[j] \in {"queued", "searching", "searched"} /\ Current(j)
           => screen = [kind |-> "loading", of |-> j]
      /\ work[j] \in {"enrichQueued", "enriching", "enriched"}
           => /\ search[j].event = j
              /\ search[j].with = search[j].filter
              /\ Current(j) => label = j /\ screen = [kind |-> "local", of |-> j]

(* The newest search, while it is current, is about what is in the box and *)
(* on show.                                                                *)
NewestIsOnShow ==
    latest # 0 /\ Current(latest) /\ search[latest].text # NoText
      => search[latest].text = box /\ search[latest].filter = filter

SearchPageInv ==
    /\ SearchPageTypeOK
    /\ SearchesInOrder
    /\ WorkersAwaited
    /\ NewestIsOnShow

LEMMA InitSearchPageInv == SearchPageInit => SearchPageInv
  <1> SUFFICES ASSUME SearchPageInit
               PROVE  SearchPageInv
    OBVIOUS
  <1> USE PageAssumption DEF SearchPageInit, Numbers
  <1>1. SearchPageTypeOK
    <2>1. filter \in Filters
      OBVIOUS
    <2>2. search \in [Numbers -> [id: Nat, text: Texts \cup {NoText}, filter: Filters \cup {NoFilter},
                                  event: 0..MaxSearches, with: Filters \cup {NoFilter}]]
      BY DEF NoSearch
    <2>3. timer \in BOOLEAN /\ accepting \in BOOLEAN
      OBVIOUS
    <2> QED
      BY <2>1, <2>2, <2>3 DEF SearchPageTypeOK, Stages
  <1>2. SearchesInOrder /\ WorkersAwaited /\ NewestIsOnShow
    BY DEF SearchesInOrder, WorkersAwaited, NewestIsOnShow, NoSearch
  <1> QED
    BY <1>1, <1>2 DEF SearchPageInv

LEMMA SearchPageTypeStep == SearchPageTypeOK /\ [SearchPageNext]_searchPageVars => SearchPageTypeOK'
  <1> SUFFICES ASSUME SearchPageTypeOK, [SearchPageNext]_searchPageVars
               PROVE  SearchPageTypeOK'
    OBVIOUS
  <1> USE PageAssumption DEF SearchPageTypeOK, Numbers, inputVars
  <1>1. ASSUME NEW t \in Texts \cup {NoText}, EditText(t)
        PROVE  SearchPageTypeOK'
    BY <1>1 DEF EditText, AlarmLatest
  <1>2. ASSUME NEW f \in Filters, ChangeFilter(f)
        PROVE  SearchPageTypeOK'
    BY <1>2 DEF ChangeFilter, AlarmLatest
  <1>3. CASE CancelSearch
    <2>1. requestId' \in Nat
      BY <1>3 DEF CancelSearch
    <2>2. alarms' \subseteq Numbers
      BY <1>3 DEF CancelSearch, AlarmLatest
    <2>3. timer' \in BOOLEAN
      BY <1>3 DEF CancelSearch
    <2> QED
      BY <1>3, <2>1, <2>2, <2>3 DEF CancelSearch
  <1>4. CASE StartSearch
    <2>0. /\ latest < MaxSearches /\ requestId' = requestId + 1 /\ label' = 0
          /\ latest' = latest + 1
          /\ screen' \in {[kind |-> "initial", of |-> 0], [kind |-> "loading", of |-> latest + 1]}
      BY ONLY <1>4 DEF StartSearch
    <2>1. requestId' \in Nat /\ latest' \in 0..MaxSearches /\ label' \in 0..MaxSearches
      BY ONLY <2>0, SearchPageTypeOK, PageAssumption DEF SearchPageTypeOK
    <2>2. alarms' \subseteq Numbers
      BY <1>4 DEF StartSearch, AlarmLatest
    <2>3. timer' \in BOOLEAN
      BY <1>4 DEF StartSearch
    <2>4. screen' \in [kind: {"initial", "loading", "local", "failed", "full", "partial"},
                       of: 0..MaxSearches]
      <3>1. 0 \in 0..MaxSearches /\ latest + 1 \in 0..MaxSearches
        BY ONLY <2>0, SearchPageTypeOK, PageAssumption DEF SearchPageTypeOK
      <3> QED
        BY ONLY <2>0, <3>1
    <2>5. search' \in [Numbers -> [id: Nat, text: Texts \cup {NoText}, filter: Filters \cup {NoFilter},
                                   event: 0..MaxSearches, with: Filters \cup {NoFilter}]]
      <3>1. latest + 1 \in Numbers
        BY <1>4 DEF StartSearch
      <3>2. CASE box = NoText
        <4>1. search' = [search EXCEPT ![latest + 1].id = requestId + 1]
          BY <1>4, <3>2 DEF StartSearch
        <4>2. requestId + 1 \in Nat
          OBVIOUS
        <4> DEFINE n == latest + 1
                   S == [id: Nat, text: Texts \cup {NoText}, filter: Filters \cup {NoFilter},
                         event: 0..MaxSearches, with: Filters \cup {NoFilter}]
                   new == [search[n] EXCEPT !.id = requestId + 1]
        <4>3. search[n] \in S
          BY <3>1
        <4>4. new \in S
          BY <4>2, <4>3
        <4>5. search' = [search EXCEPT ![n] = new]
          BY <4>1
        <4>6. search \in [Numbers -> S] /\ n \in Numbers
          BY <3>1
        <4> HIDE DEF n, S, new
        <4>7. search' \in [Numbers -> S]
          BY <4>4, <4>5, <4>6
        <4> QED
          BY <4>7 DEF S
      <3>3. CASE box # NoText
        <4>1. search' = [search EXCEPT ![latest + 1] =
                [id |-> requestId + 1, text |-> box, filter |-> filter, event |-> 0, with |-> NoFilter]]
          BY <1>4, <3>3 DEF StartSearch
        <4>2. requestId + 1 \in Nat /\ 0 \in 0..MaxSearches
          OBVIOUS
        <4> QED
          BY <3>1, <4>1, <4>2
      <3> QED
        BY <3>2, <3>3
    <2>6. Cleared \in [Numbers -> Stages]
      BY DEF Cleared, Stages
    <2>7. work' \in [Numbers -> Stages]
      <3>1. work' = Cleared \/ work' = [Cleared EXCEPT ![latest + 1] = "queued"]
        BY <1>4 DEF StartSearch, Queued
      <3>2. "queued" \in Stages
        BY DEF Stages
      <3> HIDE DEF Numbers
      <3> QED
        BY <2>6, <3>1, <3>2
    <2> QED
      BY <1>4, <2>1, <2>2, <2>3, <2>4, <2>5, <2>7 DEF StartSearch
  <1>5. CASE ShutdownPage
    <2>1. alarms' \subseteq Numbers
      BY <1>5 DEF ShutdownPage, AlarmLatest
    <2>2. timer' \in BOOLEAN /\ accepting' \in BOOLEAN
      BY <1>5 DEF ShutdownPage
    <2>3. work' \in [Numbers -> Stages]
      BY <1>5 DEF ShutdownPage, Cleared, Stages
    <2> QED
      BY <1>5, <2>1, <2>2, <2>3 DEF ShutdownPage
  <1>6. ASSUME NEW j \in Numbers, TakeUp(j)
        PROVE  SearchPageTypeOK'
    <2>1. /\ work' = [work EXCEPT ![j] = "searching"] \/ work' = [work EXCEPT ![j] = "enriching"]
          /\ UNCHANGED <<inputVars, latest, search, outcome, alarms, screen, label>>
      BY ONLY <1>6 DEF TakeUp
    <2>2. work' \in [Numbers -> Stages]
      BY ONLY <2>1, SearchPageTypeOK DEF SearchPageTypeOK, Stages
    <2> QED
      BY ONLY <2>1, <2>2, SearchPageTypeOK DEF SearchPageTypeOK, inputVars
  <1>7. ASSUME NEW j \in Numbers, WorkerEnds(j)
        PROVE  SearchPageTypeOK'
    <2>1. /\ work' = [work EXCEPT ![j] = "searched"] \/ work' = [work EXCEPT ![j] = "enriched"]
          /\ \E o \in {"ok", "failed", "cancelled"} : outcome' = [outcome EXCEPT ![j] = o]
          /\ UNCHANGED <<inputVars, latest, search, alarms, screen, label>>
      BY ONLY <1>7 DEF WorkerEnds, WorkerOutcomes
    <2>2. work' \in [Numbers -> Stages]
      BY ONLY <2>1, SearchPageTypeOK DEF SearchPageTypeOK, Stages
    <2>3. outcome' \in [Numbers -> {"none", "ok", "cancelled", "failed"}]
      BY ONLY <2>1, SearchPageTypeOK DEF SearchPageTypeOK
    <2> QED
      BY ONLY <2>1, <2>2, <2>3, SearchPageTypeOK DEF SearchPageTypeOK, inputVars
  <1>8. ASSUME NEW j \in Numbers, LocalSignal(j)
        PROVE  SearchPageTypeOK'
    <2>1. work' \in [Numbers -> Stages]
      <3>1. \/ work' = [work EXCEPT ![j] = "gone"]
            \/ work' = [work EXCEPT ![j] = "enrichQueued"]
        BY ONLY <1>8 DEF LocalSignal, Discard
      <3> QED
        BY ONLY <3>1, SearchPageTypeOK DEF SearchPageTypeOK, Stages
    <2>2. screen' \in [kind: {"initial", "loading", "local", "failed", "full", "partial"},
                       of: 0..MaxSearches]
      BY <1>8 DEF LocalSignal, Discard
    <2>3. search' \in [Numbers -> [id: Nat, text: Texts \cup {NoText}, filter: Filters \cup {NoFilter},
                                   event: 0..MaxSearches, with: Filters \cup {NoFilter}]]
      <3>1. \/ search' = search
            \/ search' = [search EXCEPT ![j].event = latest, ![j].with = filter]
        BY <1>8 DEF LocalSignal, Discard
      <3>2. CASE search' = [search EXCEPT ![j].event = latest, ![j].with = filter]
        <4> DEFINE R == [id: Nat, text: Texts \cup {NoText}, filter: Filters \cup {NoFilter},
                         event: 0..MaxSearches, with: Filters \cup {NoFilter}]
                   new == [[search[j] EXCEPT !.event = latest] EXCEPT !.with = filter]
        <4>1. search \in [Numbers -> R] /\ search[j] \in R
          BY ONLY SearchPageTypeOK, j \in Numbers DEF SearchPageTypeOK
        <4>2. latest \in 0..MaxSearches /\ filter \in Filters \cup {NoFilter}
          BY ONLY SearchPageTypeOK DEF SearchPageTypeOK
        <4>3. new \in R
          <5>1. [search[j] EXCEPT !.event = latest] \in R
            BY ONLY <4>1, <4>2
          <5> QED
            BY ONLY <4>2, <5>1
        <4>4. search' = [search EXCEPT ![j] = new]
          BY ONLY <3>2, <4>1
        <4> HIDE DEF new, R
        <4>5. search' \in [Numbers -> R]
          BY ONLY <4>1, <4>3, <4>4
        <4> QED
          BY <4>5 DEF R
      <3> QED
        BY <3>1, <3>2
    <2>4. label' \in 0..MaxSearches
      BY <1>8 DEF LocalSignal, Discard
    <2> QED
      BY <1>8, <2>1, <2>2, <2>3, <2>4 DEF LocalSignal
  <1>9. ASSUME NEW j \in Numbers, PublicSignal(j)
        PROVE  SearchPageTypeOK'
    <2>1. work' \in [Numbers -> Stages]
      <3>1. work' = [work EXCEPT ![j] = "gone"]
        BY ONLY <1>9 DEF PublicSignal, Discard
      <3> QED
        BY ONLY <3>1, SearchPageTypeOK DEF SearchPageTypeOK, Stages
    <2>2. screen' \in [kind: {"initial", "loading", "local", "failed", "full", "partial"},
                       of: 0..MaxSearches]
      BY <1>9 DEF PublicSignal, Discard
    <2>3. UNCHANGED <<search, label>>
      BY <1>9 DEF PublicSignal, Discard
    <2> QED
      BY <1>9, <2>1, <2>2, <2>3 DEF PublicSignal
  <1>10. CASE UNCHANGED searchPageVars
    BY <1>10 DEF searchPageVars
  <1> QED
    BY <1>1, <1>2, <1>3, <1>4, <1>5, <1>6, <1>7, <1>8, <1>9, <1>10 DEF SearchPageNext, TimerFires

-----------------------------------------------------------------------------

(* What the page still waits for, and what is current, is its newest search. *)
LEMMA OnlyNewestIsCurrent ==
  ASSUME SearchPageInv, NEW j \in Numbers, work[j] # "none", Current(j)
  PROVE  j = latest
  BY DEF SearchPageInv, SearchPageTypeOK, SearchesInOrder, Current, Numbers

(* An edit, a change of the filter or a cancellation makes the newest      *)
(* search one of the past.                                                 *)
LEMMA RequestMovesOn ==
  ASSUME SearchPageInv, requestId' = requestId + 1,
         UNCHANGED <<latest, search, work, screen, label>>
  PROVE  SearchesInOrder' /\ WorkersAwaited' /\ NewestIsOnShow' /\ (latest = 0 \/ ~Current(latest)')
  <1> USE DEF SearchPageInv, SearchPageTypeOK, Numbers
  <1>1. \A j \in Numbers : j <= latest => ~Current(j)'
    BY DEF SearchesInOrder, Current
  <1>2. SearchesInOrder'
    BY DEF SearchesInOrder
  <1>3. WorkersAwaited'
    BY <1>1 DEF WorkersAwaited
  <1>4. latest = 0 \/ ~Current(latest)'
    BY <1>1
  <1>5. NewestIsOnShow'
    BY <1>4 DEF NewestIsOnShow, Current
  <1> QED
    BY <1>2, <1>3, <1>4, <1>5

LEMMA StartKeepsInv ==
  ASSUME SearchPageInv, StartSearch
  PROVE  SearchesInOrder' /\ WorkersAwaited' /\ NewestIsOnShow'
  <1> DEFINE n == latest + 1
  <1>1. /\ n \in Numbers /\ latest' = n /\ requestId' = requestId + 1 /\ requestId \in Nat
        /\ latest \in Nat
    BY PageAssumption DEF StartSearch, SearchPageInv, SearchPageTypeOK, Numbers
  <1>2. \A j \in Numbers \ {n} : search'[j] = search[j]
    BY DEF StartSearch, SearchPageInv, SearchPageTypeOK
  <1>3. search'[n].id = requestId + 1
    <2>1. search \in [Numbers -> [id: Nat, text: Texts \cup {NoText}, filter: Filters \cup {NoFilter},
                                  event: 0..MaxSearches, with: Filters \cup {NoFilter}]]
      BY DEF SearchPageInv, SearchPageTypeOK
    <2> QED
      BY <1>1, <2>1 DEF StartSearch
  <1>4. search'[n].text = box /\ (box # NoText => search'[n].filter = filter)
    <2>1. search \in [Numbers -> [id: Nat, text: Texts \cup {NoText}, filter: Filters \cup {NoFilter},
                                  event: 0..MaxSearches, with: Filters \cup {NoFilter}]]
      BY DEF SearchPageInv, SearchPageTypeOK
    <2>2. search[n].text = NoText
      BY <1>1 DEF SearchPageInv, SearchesInOrder, NoSearch
    <2>3. CASE box = NoText
      <3>1. search' = [search EXCEPT ![n].id = requestId + 1]
        BY <2>3 DEF StartSearch
      <3> QED
        BY <1>1, <2>1, <2>2, <2>3, <3>1
    <2>4. CASE box # NoText
      <3>1. search' = [search EXCEPT ![n] = [id |-> requestId + 1, text |-> box, filter |-> filter,
                                             event |-> 0, with |-> NoFilter]]
        BY <2>4 DEF StartSearch
      <3> QED
        BY <1>1, <2>1, <2>4, <3>1
    <2> QED
      BY <2>3, <2>4
  <1>5. /\ \A j \in Numbers \ {n} : work'[j] \in {work[j], "gone"}
        /\ work[n] = "none" /\ work'[n] \in {"none", "queued"}
        /\ work'[n] = "queued" => box # NoText /\ screen' = [kind |-> "loading", of |-> n]
        /\ \A j \in Numbers : work[j] = "none" /\ j # n => work'[j] = "none"
    <2>1. work[n] = "none" /\ Cleared[n] = "none"
      BY <1>1 DEF SearchPageInv, SearchesInOrder, Cleared
    <2>2. \A j \in Numbers : Cleared[j] \in {work[j], "gone"} /\ (work[j] = "none" => Cleared[j] = "none")
      BY DEF Cleared
    <2>3. CASE box = NoText
      BY <2>1, <2>2, <2>3 DEF StartSearch
    <2>4. CASE box # NoText
      <3>1. work' = [Cleared EXCEPT ![n] = "queued"] /\ DOMAIN Cleared = Numbers
        BY <2>4 DEF StartSearch, Queued, Cleared
      <3>2. screen' = [kind |-> "loading", of |-> n]
        BY <2>4 DEF StartSearch
      <3> HIDE DEF n
      <3> QED
        BY <1>1, <2>1, <2>2, <2>4, <3>1, <3>2
    <2> QED
      BY <2>3, <2>4
  <1>6. \A j \in Numbers : j <= latest => search[j].id <= requestId /\ search[j].id \in Nat
    BY DEF SearchPageInv, SearchPageTypeOK, SearchesInOrder, Numbers
  <1>7. \A j \in Numbers : j <= latest => ~Current(j)'
    BY <1>1, <1>2, <1>6 DEF Current, Numbers
  <1>8. SearchesInOrder'
    <2> SUFFICES ASSUME NEW j \in Numbers
                 PROVE  /\ j > latest' => search'[j] = NoSearch /\ work'[j] = "none"
                        /\ j < latest' => search'[j].id < requestId'
                        /\ j = latest' => search'[j].id <= requestId'
      BY DEF SearchesInOrder
    <2>1. j > latest' => search'[j] = NoSearch /\ work'[j] = "none"
      BY <1>1, <1>2, <1>5 DEF SearchPageInv, SearchesInOrder, Numbers
    <2>2. j < latest' => search'[j].id < requestId'
      BY <1>1, <1>2, <1>6 DEF Numbers
    <2>3. j = latest' => search'[j].id <= requestId'
      BY <1>1, <1>3
    <2> QED
      BY <2>1, <2>2, <2>3
  <1>9. WorkersAwaited'
    <2> SUFFICES ASSUME NEW j \in Numbers
                 PROVE  WorkersAwaited!(j)'
      BY DEF WorkersAwaited
    <2>1. CASE j = n
      BY <1>1, <1>4, <1>5, <2>1 DEF Numbers
    <2>2. CASE j # n
      <3>1. work'[j] # "none" => work[j] # "none" /\ j <= latest /\ j <= latest' /\ search'[j] = search[j]
                                  /\ search[j].text # NoText /\ ~Current(j)'
        BY <1>1, <1>2, <1>5, <1>7, <2>2 DEF SearchPageInv, WorkersAwaited, Numbers
      <3>2. work'[j] \in {"enrichQueued", "enriching", "enriched"}
              => search'[j].event = j /\ search'[j].with = search'[j].filter
        BY <1>2, <1>5, <2>2 DEF SearchPageInv, WorkersAwaited
      <3> QED
        BY <3>1, <3>2
    <2> QED
      BY <2>1, <2>2
  <1>10. NewestIsOnShow'
    BY <1>1, <1>4 DEF NewestIsOnShow, StartSearch
  <1> QED
    BY <1>8, <1>9, <1>10

LEMMA SignalKeepsInv ==
  ASSUME SearchPageInv, NEW j \in Numbers, LocalSignal(j) \/ PublicSignal(j)
  PROVE  SearchesInOrder' /\ WorkersAwaited' /\ NewestIsOnShow'
  <1> USE DEF SearchPageInv, SearchPageTypeOK
  <1>1. /\ UNCHANGED <<box, filter, requestId, latest>>
        /\ \A i \in Numbers \ {j} : work'[i] = work[i] /\ search'[i] = search[i]
        /\ search'[j].id = search[j].id /\ search'[j].text = search[j].text
        /\ search'[j].filter = search[j].filter
        /\ work[j] # "none" /\ work'[j] \in {"gone", "enrichQueued"}
    BY DEF LocalSignal, PublicSignal, Discard, inputVars
  <1>2. \A i \in Numbers : Current(i)' <=> Current(i)
    BY <1>1 DEF Current
  <1>3. j <= latest /\ search[j].text # NoText
    BY <1>1 DEF WorkersAwaited
  <1>4. SearchesInOrder'
    <2> SUFFICES ASSUME NEW i \in Numbers
                 PROVE  SearchesInOrder!(i)'
      BY DEF SearchesInOrder
    <2>1. CASE i = j
      BY <1>1, <1>3, <2>1 DEF SearchesInOrder, Numbers
    <2>2. CASE i # j
      BY <1>1, <2>2 DEF SearchesInOrder
    <2> QED
      BY <2>1, <2>2
  <1>5. NewestIsOnShow'
    BY <1>1, <1>2, PageAssumption DEF NewestIsOnShow, Numbers
  <1>6. CASE ~Current(j)
    <2>1. work'[j] = "gone" /\ UNCHANGED <<screen, label>>
      BY <1>6 DEF LocalSignal, PublicSignal, Discard
    <2>2. WorkersAwaited'
      BY <1>1, <1>2, <1>3, <2>1 DEF WorkersAwaited
    <2> QED
      BY <1>4, <1>5, <2>2
  <1>7. CASE Current(j)
    <2>1. j = latest
      BY <1>1, <1>7, OnlyNewestIsCurrent
    <2>2. \A i \in Numbers \ {j} : work[i] # "none" => ~Current(i)
      BY <2>1, OnlyNewestIsCurrent
    <2>3. work'[j] = "enrichQueued"
            => /\ search'[j].event = j /\ search'[j].with = search'[j].filter
               /\ label' = j /\ screen' = [kind |-> "local", of |-> j]
      <3>1. SUFFICES ASSUME work'[j] = "enrichQueued"
                     PROVE  /\ search'[j].event = j /\ search'[j].with = search'[j].filter
                            /\ label' = j /\ screen' = [kind |-> "local", of |-> j]
        OBVIOUS
      <3>2. LocalSignal(j) /\ search' = [search EXCEPT ![j].event = latest, ![j].with = filter]
        BY <3>1 DEF LocalSignal, PublicSignal, Discard
      <3>3. search'[j].event = j /\ search'[j].with = filter
        BY <2>1, <3>2
      <3>4. search[j].filter = filter
        BY <1>3, <1>7, <2>1 DEF NewestIsOnShow, Numbers
      <3>5. label' = j /\ screen' = [kind |-> "local", of |-> j]
        BY <3>1, <3>2 DEF LocalSignal, Discard
      <3> QED
        BY <1>1, <3>3, <3>4, <3>5
    <2>4. WorkersAwaited'
      <3> SUFFICES ASSUME NEW i \in Numbers
                   PROVE  WorkersAwaited!(i)'
        BY DEF WorkersAwaited
      <3>1. CASE i = j
        BY <1>1, <1>3, <2>3, <3>1
      <3>2. CASE i # j
        BY <1>1, <1>2, <2>2, <3>2 DEF WorkersAwaited
      <3> QED
        BY <3>1, <3>2
    <2> QED
      BY <1>4, <1>5, <2>4
  <1> QED
    BY <1>6, <1>7

LEMMA SearchPageStep == SearchPageInv /\ [SearchPageNext]_searchPageVars => SearchPageInv'
  <1> SUFFICES ASSUME SearchPageInv, [SearchPageNext]_searchPageVars
               PROVE  SearchPageInv'
    OBVIOUS
  <1>1. SearchPageTypeOK'
    BY SearchPageTypeStep DEF SearchPageInv
  <1>2. SUFFICES SearchesInOrder' /\ WorkersAwaited' /\ NewestIsOnShow'
    BY <1>1 DEF SearchPageInv
  <1>3. ASSUME NEW t \in Texts \cup {NoText}, EditText(t)
        PROVE  SearchesInOrder' /\ WorkersAwaited' /\ NewestIsOnShow'
    BY <1>3, RequestMovesOn DEF EditText
  <1>4. ASSUME NEW f \in Filters, ChangeFilter(f)
        PROVE  SearchesInOrder' /\ WorkersAwaited' /\ NewestIsOnShow'
    BY <1>4, RequestMovesOn DEF ChangeFilter
  <1>5. CASE CancelSearch
    BY <1>5, RequestMovesOn DEF CancelSearch
  <1>6. CASE StartSearch
    BY <1>6, StartKeepsInv
  <1>7. CASE ShutdownPage
    <2>1. /\ UNCHANGED <<box, filter, requestId, latest, search, screen, label>>
          /\ work' = Cleared
      BY <1>7 DEF ShutdownPage
    <2>2. \A i \in Numbers : work'[i] \in {work[i], "gone"} /\ (work[i] = "none" => work'[i] = "none")
      BY <2>1 DEF Cleared
    <2> QED
      BY <2>1, <2>2 DEF SearchPageInv, SearchesInOrder, WorkersAwaited, NewestIsOnShow, Current
  <1>8. ASSUME NEW j \in Numbers, TakeUp(j) \/ WorkerEnds(j)
        PROVE  SearchesInOrder' /\ WorkersAwaited' /\ NewestIsOnShow'
    <2>1. /\ UNCHANGED <<box, filter, requestId, latest, search, screen, label>>
          /\ \A i \in Numbers \ {j} : work'[i] = work[i]
          /\ \/ work[j] = "queued" /\ work'[j] = "searching"
             \/ work[j] = "enrichQueued" /\ work'[j] = "enriching"
             \/ work[j] = "searching" /\ work'[j] = "searched"
             \/ work[j] = "enriching" /\ work'[j] = "enriched"
      BY <1>8 DEF TakeUp, WorkerEnds, inputVars, SearchPageInv, SearchPageTypeOK
    <2>2. SearchesInOrder'
      BY <2>1 DEF SearchPageInv, SearchesInOrder
    <2>3. WorkersAwaited'
      BY <2>1 DEF SearchPageInv, WorkersAwaited, Current
    <2>4. NewestIsOnShow'
      BY <2>1 DEF SearchPageInv, NewestIsOnShow, Current
    <2> QED
      BY <2>2, <2>3, <2>4
  <1>9. ASSUME NEW j \in Numbers, LocalSignal(j) \/ PublicSignal(j)
        PROVE  SearchesInOrder' /\ WorkersAwaited' /\ NewestIsOnShow'
    BY <1>9, SignalKeepsInv
  <1>10. CASE UNCHANGED searchPageVars
    BY <1>10 DEF searchPageVars, inputVars, SearchPageInv, SearchesInOrder, WorkersAwaited,
                 NewestIsOnShow, Current
  <1> QED
    BY <1>3, <1>4, <1>5, <1>6, <1>7, <1>8, <1>9, <1>10 DEF SearchPageNext, TimerFires

(* The inductive invariant of the search page holds in every state.        *)
THEOREM SearchPageInvariant == SearchPageSpec => []SearchPageInv
  BY InitSearchPageInv, SearchPageStep, PTL DEF SearchPageSpec

(* The variables of the page keep their types.                             *)
THEOREM SearchPageTypes == SearchPageSpec => []SearchPageTypeOK
  <1>1. SearchPageInv => SearchPageTypeOK
    BY DEF SearchPageInv
  <1> QED
    BY <1>1, SearchPageInvariant, PTL

-----------------------------------------------------------------------------

(* Every step of the page is a step of the promise or changes nothing in   *)
(* it: giving up, asking, or showing what was asked for last.              *)
LEMMA PromiseStep ==
  SearchPageInv /\ [SearchPageNext]_searchPageVars => [Promise!PromiseNext]_(Promise!promiseVars)
  <1> SUFFICES ASSUME SearchPageInv, [SearchPageNext]_searchPageVars
               PROVE  Promise!PromiseNext \/ UNCHANGED <<Wanted, screen>>
    BY DEF Promise!promiseVars
  <1> USE DEF SearchPageInv, SearchPageTypeOK
  <1>1. ASSUME requestId' = requestId + 1, UNCHANGED <<latest, search, work, screen, label>>
        PROVE  Promise!PromiseNext \/ UNCHANGED <<Wanted, screen>>
    <2>1. Wanted' = 0
      BY <1>1, RequestMovesOn DEF Wanted, Current
    <2> QED
      BY <1>1, <2>1 DEF Promise!PromiseNext, Promise!GiveUp
  <1>2. ASSUME UNCHANGED <<requestId, latest, search, screen>>
        PROVE  UNCHANGED <<Wanted, screen>>
    BY <1>2 DEF Wanted, Current
  <1>3. CASE StartSearch
    <2> DEFINE n == latest + 1
    <2>1. n \in Numbers /\ latest' = n /\ n # 0 /\ requestId' = requestId + 1
      BY <1>3, PageAssumption DEF StartSearch, Numbers
    <2>2. search'[n].id = requestId + 1 /\ search'[n].text = box
      <3>1. search[n].text = NoText
        BY <2>1 DEF SearchesInOrder, NoSearch
      <3>2. CASE box = NoText
        <4>1. search' = [search EXCEPT ![n].id = requestId + 1]
          BY <1>3, <3>2 DEF StartSearch
        <4> QED
          BY <2>1, <3>1, <3>2, <4>1
      <3>3. CASE box # NoText
        <4>1. search' = [search EXCEPT ![n] = [id |-> requestId + 1, text |-> box, filter |-> filter,
                                               event |-> 0, with |-> NoFilter]]
          BY <1>3, <3>3 DEF StartSearch
        <4> QED
          BY <2>1, <3>3, <4>1
      <3> QED
        BY <3>2, <3>3
    <2>3. CASE box = NoText
      <3>1. Wanted' = 0 /\ screen' = [kind |-> "initial", of |-> 0]
        BY <1>3, <2>1, <2>2, <2>3 DEF Wanted, StartSearch
      <3> QED
        BY <3>1 DEF Promise!PromiseNext, Promise!AskNothing, Promise!Initial
    <2>4. CASE box # NoText
      <3>1. Wanted' = n /\ screen' = [kind |-> "loading", of |-> n]
        BY <1>3, <2>1, <2>2, <2>4 DEF Wanted, Current, StartSearch
      <3>2. n \in 1..MaxSearches
        BY <2>1 DEF Numbers
      <3> QED
        BY <3>1, <3>2 DEF Promise!PromiseNext, Promise!Ask
    <2> QED
      BY <2>3, <2>4
  <1>4. ASSUME NEW j \in Numbers, LocalSignal(j) \/ PublicSignal(j)
        PROVE  Promise!PromiseNext \/ UNCHANGED <<Wanted, screen>>
    <2>1. /\ UNCHANGED <<requestId, latest>>
          /\ \A i \in Numbers : search'[i].id = search[i].id /\ search'[i].text = search[i].text
          /\ work[j] \in {"searched", "enriched"}
      <3>1. /\ UNCHANGED <<inputVars, latest>> /\ work[j] \in {"searched", "enriched"}
            /\ search' = search \/ search' = [search EXCEPT ![j].event = latest, ![j].with = filter]
        BY ONLY <1>4 DEF LocalSignal, PublicSignal, Discard
      <3>2. ASSUME NEW i \in Numbers
            PROVE  search'[i].id = search[i].id /\ search'[i].text = search[i].text
        BY <3>1
      <3> QED
        BY ONLY <3>1, <3>2 DEF inputVars
    <2>2. Wanted' = Wanted
      <3>1. latest # 0 => latest \in Numbers
        BY PageAssumption DEF SearchPageTypeOK, Numbers
      <3>2. latest # 0 => (Current(latest) <=> Current(latest)') /\ search'[latest].text = search[latest].text
        BY ONLY <2>1, <3>1 DEF Current
      <3> QED
        BY ONLY <2>1, <3>2 DEF Wanted
    <2>3. CASE ~Current(j) \/ outcome[j] = "cancelled"
      BY <1>4, <2>2, <2>3 DEF LocalSignal, PublicSignal, Discard
    <2>4. CASE Current(j) /\ outcome[j] # "cancelled"
      <3>1. Wanted = j /\ Wanted' = j /\ j \in 1..MaxSearches
        BY <2>1, <2>2, <2>4, OnlyNewestIsCurrent DEF Wanted, WorkersAwaited, Numbers
      <3>2. CASE LocalSignal(j)
        <4>1. screen = [kind |-> "loading", of |-> j]
          BY <2>4, <3>2 DEF WorkersAwaited, LocalSignal
        <4>2. screen' \in {[kind |-> "failed", of |-> j], [kind |-> "local", of |-> j]}
          BY <2>4, <3>2 DEF LocalSignal
        <4>3. Promise!Show(j, "failed", {"loading"}) \/ Promise!Show(j, "local", {"loading"})
          BY <3>1, <4>1, <4>2 DEF Promise!Show
        <4> QED
          BY <3>1, <4>3 DEF Promise!PromiseNext
      <3>3. CASE PublicSignal(j)
        <4>1. screen = [kind |-> "local", of |-> j]
          BY <2>4, <3>3 DEF WorkersAwaited, PublicSignal
        <4>2. screen' \in {[kind |-> "full", of |-> j], [kind |-> "partial", of |-> j]}
          BY <2>4, <3>3 DEF PublicSignal
        <4>3. Promise!Show(j, "full", {"local"}) \/ Promise!Show(j, "partial", {"local"})
          BY <3>1, <4>1, <4>2 DEF Promise!Show
        <4> QED
          BY <3>1, <4>3 DEF Promise!PromiseNext
      <3> QED
        BY <1>4, <3>2, <3>3
    <2> QED
      BY <2>3, <2>4
  <1>5. ASSUME NEW t \in Texts \cup {NoText}, EditText(t)
        PROVE  Promise!PromiseNext \/ UNCHANGED <<Wanted, screen>>
    BY <1>1, <1>5 DEF EditText
  <1>6. ASSUME NEW f \in Filters, ChangeFilter(f)
        PROVE  Promise!PromiseNext \/ UNCHANGED <<Wanted, screen>>
    BY <1>1, <1>6 DEF ChangeFilter
  <1>7. CASE CancelSearch
    BY <1>1, <1>7 DEF CancelSearch
  <1>8. CASE ShutdownPage
    BY <1>2, <1>8 DEF ShutdownPage
  <1>9. ASSUME NEW j \in Numbers, TakeUp(j) \/ WorkerEnds(j)
        PROVE  UNCHANGED <<Wanted, screen>>
    BY <1>2, <1>9 DEF TakeUp, WorkerEnds, inputVars
  <1>10. CASE UNCHANGED searchPageVars
    BY <1>2, <1>10 DEF searchPageVars, inputVars
  <1> QED
    BY <1>3, <1>4, <1>5, <1>6, <1>7, <1>8, <1>9, <1>10 DEF SearchPageNext, TimerFires

(* The search page implements SearchPromise: whatever threads bring in     *)
(* whatever order, only the search asked for last and not given up since   *)
(* changes what is shown.                                                  *)
THEOREM SearchPageKeepsPromise == SearchPageSpec => PromiseKept
  <1>1. SearchPageInit => Promise!PromiseInit
    BY DEF SearchPageInit, Promise!PromiseInit, Promise!Initial, Wanted
  <1> QED
    BY <1>1, PromiseStep, SearchPageInvariant, PTL
    DEF SearchPageSpec, PromiseKept, Promise!PromiseSpec

(* What a step puts up was asked for with the text and the filter that are *)
(* on show.                                                                *)
LEMMA ScreenStep ==
  SearchPageInv /\ [SearchPageNext]_searchPageVars
    => (screen' # screen /\ screen'.kind \in {"local", "full", "partial"}
          => search[screen'.of].text = box /\ search[screen'.of].filter = filter)
  <1> SUFFICES ASSUME SearchPageInv, [SearchPageNext]_searchPageVars,
                      screen' # screen, screen'.kind \in {"local", "full", "partial"}
               PROVE  search[screen'.of].text = box /\ search[screen'.of].filter = filter
    OBVIOUS
  <1>1. ~StartSearch
    BY DEF StartSearch
  <1>2. PICK j \in Numbers : LocalSignal(j) \/ PublicSignal(j)
    BY <1>1 DEF SearchPageNext, TimerFires, EditText, ChangeFilter, CancelSearch, ShutdownPage,
                TakeUp, WorkerEnds, searchPageVars
  <1>3. Current(j) /\ screen'.of = j /\ work[j] # "none"
    BY <1>2 DEF LocalSignal, PublicSignal, Discard
  <1>4. j = latest /\ latest # 0 /\ search[j].text # NoText
    BY <1>3, OnlyNewestIsCurrent, PageAssumption DEF SearchPageInv, WorkersAwaited, Numbers
  <1> QED
    BY <1>3, <1>4 DEF SearchPageInv, NewestIsOnShow

(* The page puts up only what belongs to the inputs on show; a supplement  *)
(* runs under event and filter of the search it supplements; and the label *)
(* it will write to is there.                                              *)
THEOREM SearchPageShowsInputs == SearchPageSpec => ScreenBelongs
  <1>1. SearchPageInv /\ [SearchPageNext]_searchPageVars
          => [screen' # screen /\ screen'.kind \in {"local", "full", "partial"}
                => /\ search[screen'.of].text = box
                   /\ search[screen'.of].filter = filter]_searchPageVars
    BY ScreenStep
  <1>2. SearchPageInv => \A j \in Numbers :
                           work[j] \in {"enrichQueued", "enriching", "enriched"}
                             => /\ search[j].event = j
                                /\ search[j].with = search[j].filter
                                /\ Current(j) => label = j
    BY DEF SearchPageInv, WorkersAwaited
  <1> QED
    BY <1>1, <1>2, SearchPageInvariant, PTL DEF SearchPageSpec, ScreenBelongs

-----------------------------------------------------------------------------
(* LocalSearch.                                                            *)

Answer == [rows: SUBSET Providers, excused: SUBSET Providers]

MemoryEntry == [key: SearchKeys, rows: SUBSET Providers, excused: SUBSET Providers]

LocalTypeOK ==
    /\ searchStage \in [Searches -> {"none", "local", "over"}]
    /\ searchKey \in [Searches -> SearchKeys \cup {NoKey}]
    /\ gathered \in [Searches -> Answer]
    /\ localAt \in [Searches -> Nat \ {0}]
    /\ memory \in Seq(MemoryEntry)

(* A dictionary of no more than MemoryLimit answers, each accounted for.   *)
IsMemory(m) ==
    /\ m \in Seq(MemoryEntry)
    /\ Len(m) <= MemoryLimit
    /\ \A i, j \in 1..Len(m) : m[i].key = m[j].key => i = j
    /\ \A i \in 1..Len(m) : Accounted(m[i].key, LocalSet(m[i].key), m[i])

(* The indexes of k that come before the n-th.                             *)
Before(k, n) == {LocalOf[k][i] : i \in {m \in DOMAIN LocalOf[k] : m < n}}

(* Those a search has gone past hold nothing of its key that it does not   *)
(* have or excuse.                                                         *)
AskedIsAccounted ==
    \A s \in Searches :
      /\ searchStage[s] = "none" => localAt[s] = 1 /\ gathered[s] = Nothing
      /\ searchStage[s] = "local" =>
           /\ searchKey[s] \in SearchKeys
           /\ Accounted(searchKey[s], Before(searchKey[s], localAt[s]), gathered[s])

LocalInv == LocalTypeOK /\ IsMemory(memory) /\ AskedIsAccounted

LEMMA InitLocalInv == LocalInit => LocalInv
  <1> SUFFICES ASSUME LocalInit
               PROVE  LocalInv
    OBVIOUS
  <1> USE LocalAssumption DEF LocalInit, CallsInit
  <1>1. LocalTypeOK
    BY DEF LocalTypeOK, Nothing, Answer
  <1>2. IsMemory(memory)
    BY DEF IsMemory
  <1>3. AskedIsAccounted
    BY DEF AskedIsAccounted
  <1> QED
    BY <1>1, <1>2, <1>3 DEF LocalInv

(* What is left of the cache when a key is taken out.                      *)
LEMMA WithoutKey ==
  ASSUME IsMemory(memory), NEW k
  PROVE  /\ IsMemory(Without(k))
         /\ \A i \in 1..Len(Without(k)) : Without(k)[i].key # k
         /\ (\E n \in 1..Len(memory) : memory[n].key = k) => Len(Without(k)) < MemoryLimit
  <1> DEFINE at == {i \in DOMAIN memory : memory[i].key = k}
             n == CHOOSE i \in at : TRUE
  <1>1. /\ memory \in Seq(MemoryEntry) /\ DOMAIN memory = 1..Len(memory) /\ Len(memory) \in Nat
        /\ Len(memory) <= MemoryLimit /\ MemoryLimit \in Nat
        /\ \A i, j \in 1..Len(memory) : memory[i].key = memory[j].key => i = j
        /\ \A i \in 1..Len(memory) : Accounted(memory[i].key, LocalSet(memory[i].key), memory[i])
    BY LocalAssumption DEF IsMemory
  <1>2. CASE at = {}
    <2>1. Without(k) = memory /\ \A i \in 1..Len(memory) : memory[i].key # k
      BY <1>1, <1>2 DEF Without
    <2> QED
      BY <2>1
  <1>3. CASE at # {}
    <2>1. n \in 1..Len(memory) /\ memory[n].key = k
      BY <1>1, <1>3
    <2>2. Without(k) = RemoveAt(memory, n)
      BY <1>3 DEF Without
    <2> HIDE DEF n, at
    <2>3. /\ Without(k) \in Seq(MemoryEntry) /\ Len(Without(k)) = Len(memory) - 1
          /\ \A i \in 1..Len(memory) - 1 : Without(k)[i] = IF i < n THEN memory[i] ELSE memory[i + 1]
      <3>1. memory \in Seq(MemoryEntry)
        BY <1>1
      <3>2. /\ RemoveAt(memory, n) \in Seq(MemoryEntry) /\ Len(RemoveAt(memory, n)) = Len(memory) - 1
            /\ \A i \in 1..Len(memory) - 1 :
                  RemoveAt(memory, n)[i] = IF i < n THEN memory[i] ELSE memory[i + 1]
        BY ONLY <2>1, <3>1, RemoveAtProperties, Zenon
      <3> QED
        BY ONLY <2>2, <3>2, Zenon
    <2> DEFINE from(i) == IF i < n THEN i ELSE i + 1
    <2>4. \A i \in 1..Len(memory) - 1 :
            from(i) \in 1..Len(memory) /\ from(i) # n /\ Without(k)[i] = memory[from(i)]
      BY <1>1, <2>1, <2>3
    <2>5. \A i, j \in 1..Len(memory) - 1 : from(i) = from(j) => i = j
      BY <1>1, <2>1
    <2> HIDE DEF from
    <2>6. \A i \in 1..Len(memory) - 1 : Without(k)[i].key # k
      BY <1>1, <2>1, <2>4
    <2>7. \A i, j \in 1..Len(memory) - 1 : Without(k)[i].key = Without(k)[j].key => i = j
      BY <1>1, <2>4, <2>5
    <2>8. \A i \in 1..Len(memory) - 1 :
             Accounted(Without(k)[i].key, LocalSet(Without(k)[i].key), Without(k)[i])
      BY <1>1, <2>4
    <2>9. Len(memory) - 1 < MemoryLimit
      BY <1>1
    <2>10. Len(memory) - 1 <= MemoryLimit
      BY <1>1
    <2>11. IsMemory(Without(k))
      BY ONLY <2>3, <2>7, <2>8, <2>10, Zenon DEF IsMemory
    <2> QED
      BY ONLY <2>3, <2>6, <2>9, <2>11, Zenon
  <1> QED
    BY <1>2, <1>3

(* A new answer at the end of a cache that does not hold its key.          *)
LEMMA AppendedAnswer ==
  ASSUME NEW m, IsMemory(m), NEW e \in MemoryEntry,
         \A i \in 1..Len(m) : m[i].key # e.key,
         Accounted(e.key, LocalSet(e.key), e)
  PROVE  /\ Append(m, e) \in Seq(MemoryEntry)
         /\ Len(Append(m, e)) = Len(m) + 1
         /\ \A i, j \in 1..Len(m) + 1 : Append(m, e)[i].key = Append(m, e)[j].key => i = j
         /\ \A i \in 1..Len(m) + 1 :
              Accounted(Append(m, e)[i].key, LocalSet(Append(m, e)[i].key), Append(m, e)[i])
  <1> DEFINE all == Append(m, e)
  <1>1. m \in Seq(MemoryEntry) /\ Len(m) \in Nat
    BY DEF IsMemory
  <1>2. /\ all \in Seq(MemoryEntry) /\ Len(all) = Len(m) + 1
        /\ \A i \in 1..Len(m) + 1 : all[i] = IF i <= Len(m) THEN m[i] ELSE e
    BY <1>1
  <1> HIDE DEF all
  <1>3. \A i \in 1..Len(m) + 1 : i \in 1..Len(m) \/ (i = Len(m) + 1 /\ ~(i <= Len(m)))
    BY <1>1
  <1>4. \A i, j \in 1..Len(m) + 1 : all[i].key = all[j].key => i = j
    BY <1>1, <1>2, <1>3 DEF IsMemory
  <1>5. \A i \in 1..Len(m) + 1 : Accounted(all[i].key, LocalSet(all[i].key), all[i])
    BY <1>1, <1>2, <1>3 DEF IsMemory
  <1> QED
    BY <1>2, <1>4, <1>5 DEF all

(* _put_local_cache keeps the cache a dictionary within its limit.         *)
LEMMA MemoryWithAnswer ==
  ASSUME IsMemory(memory), NEW e \in MemoryEntry, Accounted(e.key, LocalSet(e.key), e)
  PROVE  IsMemory(MemoryWith(e))
  <1> DEFINE rest == Without(e.key)
             all == Append(rest, e)
             first == IF Len(all) > MemoryLimit THEN Len(all) - MemoryLimit + 1 ELSE 1
  <1>1. IsMemory(rest) /\ \A i \in 1..Len(rest) : rest[i].key # e.key
    BY WithoutKey
  <1> HIDE DEF rest
  <1>2. /\ all \in Seq(MemoryEntry)
        /\ Len(all) = Len(rest) + 1
        /\ \A i, j \in 1..Len(all) : all[i].key = all[j].key => i = j
        /\ \A i \in 1..Len(all) : Accounted(all[i].key, LocalSet(all[i].key), all[i])
    BY <1>1, AppendedAnswer
  <1>3. MemoryWith(e) = SubSeq(all, first, Len(all))
    BY DEF MemoryWith, rest
  <1>4. Len(rest) \in Nat /\ Len(rest) <= MemoryLimit /\ MemoryLimit \in Nat \ {0}
    BY <1>1, LocalAssumption DEF IsMemory
  <1> HIDE DEF all
  <1>5. /\ first \in 1..Len(all) /\ Len(all) \in Nat
        /\ Len(all) - first + 1 <= MemoryLimit /\ Len(all) - first + 1 \in 1..Len(all)
    <2> DEFINE n == Len(all)
    <2>1. n \in Nat \ {0} /\ MemoryLimit \in Nat \ {0} /\ n <= MemoryLimit + 1
      BY <1>2, <1>4
    <2>2. first = IF n > MemoryLimit THEN n - MemoryLimit + 1 ELSE 1
      OBVIOUS
    <2> HIDE DEF n, first
    <2>3. first \in 1..n /\ n - first + 1 <= MemoryLimit /\ n - first + 1 \in 1..n
      BY <2>1, <2>2
    <2> QED
      BY <2>1, <2>3 DEF n
  <1> HIDE DEF first
  <1> DEFINE m == SubSeq(all, first, Len(all))
  <1>6. /\ m \in Seq(MemoryEntry)
        /\ Len(m) = Len(all) - first + 1
        /\ \A i \in 1..Len(all) - first + 1 : m[i] = all[first + i - 1]
    BY <1>2, <1>5
  <1>7. \A i \in 1..Len(all) - first + 1 : first + i - 1 \in 1..Len(all)
    BY <1>5
  <1>8. \A i, j \in 1..Len(all) - first + 1 : first + i - 1 = first + j - 1 => i = j
    BY <1>5
  <1> HIDE DEF m
  <1>9. \A i, j \in 1..Len(m) : m[i].key = m[j].key => i = j
    BY <1>2, <1>6, <1>7, <1>8
  <1>10. \A i \in 1..Len(m) : Accounted(m[i].key, LocalSet(m[i].key), m[i])
    BY <1>2, <1>6, <1>7
  <1>11. IsMemory(m)
    BY <1>5, <1>6, <1>9, <1>10 DEF IsMemory
  <1> QED
    BY <1>3, <1>11 DEF m

LEMMA LocalStartKeepsInv ==
  ASSUME LocalInv, NEW s \in Searches, NEW k \in SearchKeys, LocalStart(s, k)
  PROVE  LocalInv'
  <1>0. LocalTypeOK /\ IsMemory(memory) /\ AskedIsAccounted
    BY DEF LocalInv
  <1>1. LocalTypeOK' /\ AskedIsAccounted'
    <2>1. \E a \in {gathered[s], Nothing}, st \in {"local", "over"} :
            /\ searchKey' = [searchKey EXCEPT ![s] = k]
            /\ gathered' = [gathered EXCEPT ![s] = a]
            /\ searchStage' = [searchStage EXCEPT ![s] = st]
            /\ localAt' = [localAt EXCEPT ![s] = 1]
      <3>1. LocalReturns(s) \/ (searchStage' = [searchStage EXCEPT ![s] = "local"]
                                /\ UNCHANGED <<gathered, localAt>>)
        BY DEF LocalStart
      <3>2. searchKey' = [searchKey EXCEPT ![s] = k] /\ localAt[s] = 1
        BY <1>0 DEF LocalStart, AskedIsAccounted
      <3>3. CASE LocalReturns(s)
        BY <3>2, <3>3 DEF LocalReturns
      <3>4. CASE /\ searchStage' = [searchStage EXCEPT ![s] = "local"]
                 /\ UNCHANGED <<gathered, localAt>>
        <4>1. gathered' = [gathered EXCEPT ![s] = gathered[s]]
          BY <1>0, <3>4 DEF LocalTypeOK
        <4>2. localAt' = [localAt EXCEPT ![s] = 1]
          BY <1>0, <3>2, <3>4 DEF LocalTypeOK
        <4> QED
          BY <3>2, <3>4, <4>1, <4>2
      <3> QED
        BY <3>1, <3>3, <3>4
    <2>2. memory' \in Seq(MemoryEntry)
      <3>1. Without(k) \in Seq(MemoryEntry)
        BY <1>0, WithoutKey DEF IsMemory
      <3>2. \A e \in Remembered(k) : e \in MemoryEntry
        BY <1>0 DEF Remembered, Range, LocalTypeOK
      <3>3. \A e \in Remembered(k) : Append(Without(k), e) \in Seq(MemoryEntry)
        BY <3>1, <3>2
      <3> QED
        BY <1>0, <3>1, <3>3 DEF LocalStart, LocalTypeOK
    <2>3. \A t \in Searches \ {s} : /\ searchStage'[t] = searchStage[t]
                                    /\ searchKey'[t] = searchKey[t]
                                    /\ gathered'[t] = gathered[t]
                                    /\ localAt'[t] = localAt[t]
      BY <1>0, <2>1 DEF LocalTypeOK
    <2>4. searchStage'[s] # "none" /\ searchKey'[s] \in SearchKeys /\ Before(searchKey'[s], localAt'[s]) = {}
      <3>1. searchStage'[s] # "none" /\ searchKey'[s] = k /\ localAt'[s] = 1
        BY <1>0, <2>1 DEF LocalTypeOK
      <3>2. \A n \in DOMAIN LocalOf[k] : ~(n < 1)
        BY LocalAssumption
      <3> QED
        BY <3>1, <3>2 DEF Before
    <2>5. AskedIsAccounted'
      <3> QED
        BY <1>0, <2>3, <2>4 DEF AskedIsAccounted, Accounted
    <2>6. LocalTypeOK'
      BY <1>0, <2>1, <2>2 DEF LocalTypeOK, Answer, Nothing
    <2> QED
      BY <2>5, <2>6
  <1>2. IsMemory(memory')
    <2>1. CASE memory' = memory
      BY <1>0, <2>1
    <2>2. CASE memory' = Without(k)
      BY <1>0, <2>2, WithoutKey
    <2>3. CASE \E e \in Remembered(k) : memory' = Append(Without(k), e)
      <3>1. PICK e \in Remembered(k) : memory' = Append(Without(k), e)
        BY <2>3
      <3>2. PICK n \in 1..Len(memory) : e = memory[n] /\ memory[n].key = k
        <4>1. e \in Range(memory) /\ e.key = k
          BY ONLY <3>1 DEF Remembered
        <4>2. DOMAIN memory = 1..Len(memory)
          BY ONLY <1>0 DEF LocalTypeOK
        <4> QED
          BY ONLY <4>1, <4>2 DEF Range
      <3>3. e \in MemoryEntry /\ e.key = k /\ Accounted(k, LocalSet(k), e)
        BY <1>0, <3>2 DEF LocalTypeOK, IsMemory
      <3>4. /\ IsMemory(Without(k)) /\ Len(Without(k)) < MemoryLimit
            /\ \A i \in 1..Len(Without(k)) : Without(k)[i].key # k
        BY <1>0, <3>2, WithoutKey
      <3>5. Len(Without(k)) + 1 <= MemoryLimit
        BY <3>4, LocalAssumption DEF IsMemory
      <3> DEFINE rest == Without(k)
                 all == Append(rest, e)
      <3> HIDE DEF rest
      <3>6. /\ all \in Seq(MemoryEntry)
            /\ Len(all) = Len(rest) + 1
            /\ \A i, j \in 1..Len(rest) + 1 : all[i].key = all[j].key => i = j
            /\ \A i \in 1..Len(rest) + 1 : Accounted(all[i].key, LocalSet(all[i].key), all[i])
        BY <3>3, <3>4, AppendedAnswer DEF rest
      <3> QED
        BY <3>1, <3>5, <3>6 DEF IsMemory, rest
    <2> QED
      BY <2>1, <2>2, <2>3 DEF LocalStart
  <1> QED
    BY <1>1, <1>2 DEF LocalInv, IsMemory

(* A search that returns leaves nothing to account for. *)
LEMMA LocalReturnKeepsInv ==
  ASSUME LocalInv, NEW s \in Searches, LocalReturns(s),
         UNCHANGED <<searchKey, searchAlarm>>, IsMemory(memory')
  PROVE  LocalInv'
  <1>1. LocalTypeOK'
    BY DEF LocalInv, LocalTypeOK, LocalReturns, Answer, Nothing, IsMemory
  <1>2. \A t \in Searches \ {s} : /\ searchStage'[t] = searchStage[t]
                                  /\ gathered'[t] = gathered[t]
                                  /\ localAt'[t] = localAt[t]
    BY DEF LocalInv, LocalTypeOK, LocalReturns
  <1>3. searchStage'[s] = "over"
    BY DEF LocalInv, LocalTypeOK, LocalReturns
  <1>4. AskedIsAccounted'
    BY <1>2, <1>3 DEF LocalInv, AskedIsAccounted
  <1> QED
    BY <1>1, <1>4 DEF LocalInv, IsMemory

LEMMA LocalAskKeepsInv ==
  ASSUME LocalInv, NEW s \in Searches, LocalAsk(s)
  PROVE  LocalInv'
  <1>0. LocalTypeOK /\ IsMemory(memory) /\ AskedIsAccounted
    BY DEF LocalInv
  <1>1. CASE Cancelled(s)
    BY <1>0, <1>1, LocalReturnKeepsInv DEF LocalAsk
  <1>2. CASE ~Cancelled(s)
    <2> DEFINE k == searchKey[s]
               at == localAt[s]
               p == LocalOf[k][at]
    <2>1. /\ searchStage[s] = "local" /\ k \in SearchKeys
          /\ at \in DOMAIN LocalOf[k] /\ at \in Nat
          /\ LocalOf[k] \in Seq(Providers) /\ p \in Providers
          /\ gathered[s] \in Answer
          /\ Accounted(k, Before(searchKey[s], localAt[s]), gathered[s])
      <3>1. searchStage[s] = "local" /\ k \in SearchKeys /\ at \in DOMAIN LocalOf[k] /\ at \in Nat
        BY <1>0 DEF LocalAsk, AskedIsAccounted, LocalTypeOK
      <3>2. LocalOf[k] \in Seq(Providers)
        BY <3>1, LocalAssumption
      <3>3. p \in Providers
        BY <3>1, <3>2
      <3> QED
        BY <1>0, <3>1, <3>2, <3>3 DEF AskedIsAccounted, LocalTypeOK
    <2>2. PICK a \in LocalOutcomes(s, p) : gathered' = [gathered EXCEPT ![s] = a]
      BY <1>2 DEF LocalAsk
    <2>3. a \in Answer /\ Accounted(k, Before(searchKey[s], localAt[s]) \cup {p}, a)
      BY <2>1 DEF LocalOutcomes, Answer, Accounted
    <2>4. /\ localAt' = [localAt EXCEPT ![s] = at + 1]
          /\ UNCHANGED <<searchStage, searchKey, searchAlarm, memory>>
      BY <1>2 DEF LocalAsk
    <2>5. Before(searchKey'[s], localAt'[s]) \subseteq Before(searchKey[s], localAt[s]) \cup {p}
      <3>1. Before(searchKey'[s], localAt'[s]) = {LocalOf[k][i] : i \in {n \in DOMAIN LocalOf[k] : n < at + 1}}
        BY <1>0, <2>4 DEF Before, LocalTypeOK
      <3>2. \A n \in DOMAIN LocalOf[k] : n < at + 1 => n < at \/ n = at
        BY <2>1
      <3> QED
        BY <3>1, <3>2 DEF Before
    <2>6. \A t \in Searches \ {s} : /\ searchStage'[t] = searchStage[t]
                                    /\ gathered'[t] = gathered[t]
                                    /\ localAt'[t] = localAt[t]
        BY <1>0, <2>2, <2>4 DEF LocalTypeOK
    <2>7. gathered'[s] = a /\ searchStage'[s] = "local" /\ searchKey'[s] = k
      BY <1>0, <2>1, <2>2, <2>4 DEF LocalTypeOK
    <2> HIDE DEF k, p
    <2>8. AskedIsAccounted'
      <3> SUFFICES ASSUME NEW t \in Searches
                    PROVE  /\ searchStage'[t] = "none" => localAt'[t] = 1 /\ gathered'[t] = Nothing
                           /\ searchStage'[t] = "local"
                                => /\ searchKey'[t] \in SearchKeys
                                   /\ Accounted(searchKey'[t], Before(searchKey'[t], localAt'[t]), gathered'[t])
        BY DEF AskedIsAccounted, Accounted
      <3>1. CASE t = s
        BY <3>1, <2>1, <2>3, <2>5, <2>7 DEF Accounted
      <3>2. CASE t # s
        BY <1>0, <3>2, <2>4, <2>6 DEF AskedIsAccounted
      <3> QED
        BY <3>1, <3>2
    <2>9. LocalTypeOK'
      BY <1>0, <2>1, <2>2, <2>3, <2>4 DEF LocalTypeOK
    <2> QED
      BY <1>0, <2>4, <2>8, <2>9 DEF LocalInv, IsMemory
  <1> QED
    BY <1>1, <1>2

LEMMA LocalBudgetKeepsInv ==
  ASSUME LocalInv, NEW s \in Searches, LocalBudgetSpent(s)
  PROVE  LocalInv'
  <1>0. LocalTypeOK /\ IsMemory(memory) /\ AskedIsAccounted
    BY DEF LocalInv
  <1> DEFINE k == searchKey[s]
             at == localAt[s]
             left == {LocalOf[k][i] : i \in at..Len(LocalOf[k])}
             a == [gathered[s] EXCEPT !.excused = @ \cup left]
  <1>1. /\ searchStage[s] = "local" /\ k \in SearchKeys
        /\ at \in DOMAIN LocalOf[k] /\ at \in Nat \ {0}
        /\ gathered[s] \in Answer
        /\ Accounted(k, Before(searchKey[s], localAt[s]), gathered[s])
    BY <1>0 DEF LocalBudgetSpent, AskedIsAccounted, LocalTypeOK
  <1>2. LocalOf[k] \in Seq(Providers) /\ Len(LocalOf[k]) \in Nat
        /\ DOMAIN LocalOf[k] = 1..Len(LocalOf[k])
    BY <1>1, LocalAssumption
  <1>3. /\ gathered' = [gathered EXCEPT ![s] = a]
        /\ localAt' = [localAt EXCEPT ![s] = Len(LocalOf[k]) + 1]
        /\ UNCHANGED <<searchStage, searchKey, searchAlarm, memory>>
    BY DEF LocalBudgetSpent
  <1>4. left \subseteq Providers
    BY <1>1, <1>2
  <1>5. Before(searchKey'[s], localAt'[s]) \subseteq Before(searchKey[s], localAt[s]) \cup left
    <2>1. searchKey'[s] = k
      BY <1>3
    <2>2. \A n \in DOMAIN LocalOf[k] : n < at \/ n \in at..Len(LocalOf[k])
      BY <1>1, <1>2
    <2> QED
      BY <2>1, <2>2 DEF Before
  <1> HIDE DEF left
  <1>6. a \in Answer /\ Accounted(k, Before(searchKey[s], localAt[s]) \cup left, a)
    BY <1>1, <1>4 DEF Answer, Accounted
  <1> HIDE DEF a, k
  <1>7. \A t \in Searches \ {s} : /\ searchStage'[t] = searchStage[t]
                                  /\ gathered'[t] = gathered[t]
                                  /\ localAt'[t] = localAt[t]
    BY <1>0, <1>3 DEF LocalTypeOK
  <1>8. gathered'[s] = a /\ searchStage'[s] = "local" /\ searchKey'[s] = k
    BY <1>0, <1>1, <1>3 DEF LocalTypeOK, k
  <1>9. AskedIsAccounted'
    <2> SUFFICES ASSUME NEW t \in Searches
                  PROVE  /\ searchStage'[t] = "none" => localAt'[t] = 1 /\ gathered'[t] = Nothing
                         /\ searchStage'[t] = "local"
                              => /\ searchKey'[t] \in SearchKeys
                                 /\ Accounted(searchKey'[t], Before(searchKey'[t], localAt'[t]), gathered'[t])
      BY DEF AskedIsAccounted, Accounted
    <2>1. CASE t = s
      BY <2>1, <1>1, <1>5, <1>6, <1>8 DEF Accounted
    <2>2. CASE t # s
      BY <1>0, <2>2, <1>3, <1>7 DEF AskedIsAccounted
    <2> QED
      BY <2>1, <2>2
  <1>10. LocalTypeOK'
    BY <1>0, <1>2, <1>3, <1>6 DEF LocalTypeOK
  <1> QED
    BY <1>0, <1>3, <1>9, <1>10 DEF LocalInv, IsMemory

LEMMA LocalRankKeepsInv ==
  ASSUME LocalInv, NEW s \in Searches, LocalRank(s)
  PROVE  LocalInv'
  <1>0. LocalTypeOK /\ IsMemory(memory) /\ AskedIsAccounted
    BY DEF LocalInv
  <1> DEFINE k == searchKey[s]
             e == [key |-> k, rows |-> gathered[s].rows, excused |-> gathered[s].excused]
  <1>1. /\ k \in SearchKeys /\ gathered[s] \in Answer
        /\ Accounted(k, Before(searchKey[s], localAt[s]), gathered[s])
    BY <1>0 DEF LocalRank, AskedIsAccounted, LocalTypeOK
  <1>2. LocalSet(k) \subseteq Before(searchKey[s], localAt[s])
    <2>1. LocalOf[k] \in Seq(Providers) /\ localAt[s] > Len(LocalOf[k]) /\ localAt[s] \in Nat
      BY <1>0, <1>1, LocalAssumption DEF LocalRank, LocalTypeOK
    <2>2. \A n \in DOMAIN LocalOf[k] : n < localAt[s]
      BY <2>1
    <2> QED
      BY <2>2 DEF LocalSet, Before
  <1>3. e \in MemoryEntry /\ Accounted(e.key, LocalSet(e.key), e)
    BY <1>1, <1>2 DEF MemoryEntry, Answer, Accounted
  <1>4. memory' = IF Cancelled(s) THEN memory ELSE MemoryWith(e)
    BY DEF LocalRank
  <1> HIDE DEF e
  <1>5. IsMemory(memory')
    BY <1>0, <1>3, <1>4, MemoryWithAnswer
  <1> QED
    BY <1>5, LocalReturnKeepsInv DEF LocalRank

LEMMA LocalStep == LocalInv /\ [LocalNext]_localVars => LocalInv'
  <1> SUFFICES ASSUME LocalInv, [LocalNext]_localVars
               PROVE  LocalInv'
    OBVIOUS
  <1>0. LocalTypeOK /\ IsMemory(memory) /\ AskedIsAccounted
    BY DEF LocalInv
  <1>1. CASE /\ UNCHANGED <<searchStage, searchKey, gathered, localAt>>
             /\ memory' \in {memory, <<>>}
    <2>1. IsMemory(<<>>)
      BY LocalAssumption DEF IsMemory
    <2>2. IsMemory(memory')
      BY <1>0, <1>1, <2>1
    <2>3. LocalTypeOK'
      BY <1>0, <1>1, <2>2 DEF LocalTypeOK, IsMemory
    <2>4. AskedIsAccounted'
      BY <1>0, <1>1, <2>3 DEF AskedIsAccounted, Accounted
    <2> QED
      BY <2>2, <2>3, <2>4 DEF LocalInv, IsMemory
  <1>2. CASE UNCHANGED localVars
    BY <1>1, <1>2 DEF localVars, callVars
  <1>3. CASE ClearQueryCache
    BY <1>1, <1>3 DEF ClearQueryCache
  <1>4. ASSUME NEW s \in Searches, SetAlarm(s), UNCHANGED <<localAt, memory>>
        PROVE  LocalInv'
    BY <1>1, <1>4 DEF SetAlarm
  <1> QED
    BY <1>2, <1>3, <1>4, LocalStartKeepsInv, LocalAskKeepsInv, LocalBudgetKeepsInv,
       LocalRankKeepsInv
    DEF LocalNext

(* The inductive invariant of the local searches: every running search has *)
(* heard, or excused, the indexes before the one it is at.                 *)
THEOREM LocalInvariant == LocalSpec => []LocalInv
  BY InitLocalInv, LocalStep, PTL DEF LocalSpec

(* An answer of the local stage that is served from memory has all that    *)
(* the indexes hold of its key, or its statuses say which were not heard.  *)
THEOREM MemoryStaysAccounted == LocalSpec => []MemoryIsAccounted
  <1>1. LocalInv => MemoryIsAccounted
    BY DEF LocalInv, IsMemory, MemoryIsAccounted
  <1> QED
    BY <1>1, LocalInvariant, PTL

(* _local_cache holds a key once, and no more keys than its limit.         *)
THEOREM MemoryStaysBounded ==
  LocalSpec => [](/\ Len(memory) <= MemoryLimit
                  /\ \A i, j \in DOMAIN memory : memory[i].key = memory[j].key => i = j)
  <1>1. LocalInv => /\ Len(memory) <= MemoryLimit
                    /\ \A i, j \in DOMAIN memory : memory[i].key = memory[j].key => i = j
    BY DEF LocalInv, IsMemory
  <1> QED
    BY <1>1, LocalInvariant, PTL

-----------------------------------------------------------------------------
(* EnrichSearch.                                                           *)

CallStates == {"none", "queued", "running"} \cup Outcomes

Notes ==
    {Idle} \cup [step: {"store", "judge", "reset", "lift"}, of: RemoteSet,
                 outcome: Outcomes, read: 0..Threshold]

EnrichTypeOK ==
    /\ searchStage \in [Searches -> {"none", "waiting", "recording", "over"}]
    /\ searchKey \in [Searches -> SearchKeys \cup {NoKey}]
    /\ gathered \in [Searches -> Answer]
    /\ disk \in [SearchKeys -> SUBSET Answer]
    /\ future \in [Searches -> [RemoteSet -> CallStates]]
    /\ harvest \in [Searches -> SUBSET RemoteSet]
    /\ late \in [Searches -> SUBSET RemoteSet]
    /\ noting \in [Searches -> Notes]
    /\ failures \in [Providers -> 0..Threshold]
    /\ reported \in [Providers -> 0..Threshold]
    /\ paused \subseteq Providers

(* What the calls of a search say is so: an empty answer comes from a      *)
(* provider that knows nothing, a void one from a call that was cancelled. *)
CallsAreTrue(s) ==
    \A p \in RemoteSet :
      /\ future[s][p] # "none" => searchStage[s] \in {"waiting", "recording"}
      /\ future[s][p] \in {"queued", "running"} => searchStage[s] = "waiting"
      /\ future[s][p] = "empty" => p \notin Knows[searchKey[s]]
      /\ future[s][p] = "void" => Cancelled(s)

(* A provider that was not asked is excused from the start.                *)
WaitIsAccounted(s) ==
    searchStage[s] = "waiting"
      => /\ searchKey[s] \in SearchKeys
         /\ \A p \in RemoteSet : future[s][p] = "none" => p \in gathered[s].excused

(* While the calls are gone through, whoever knows something is among the  *)
(* rows, excused, or still to be looked at.                                *)
RecordIsAccounted(s) ==
    searchStage[s] = "recording"
      => /\ searchKey[s] \in SearchKeys
         /\ \A p \in harvest[s] : future[s][p] \in Outcomes
         /\ \/ Cancelled(s)
            \/ \A p \in RemoteSet \cap Knows[searchKey[s]] :
                  p \in gathered[s].rows \cup gathered[s].excused \cup harvest[s] \cup late[s]

SearchOK(s) == CallsAreTrue(s) /\ WaitIsAccounted(s) /\ RecordIsAccounted(s)

(* No counter, nor a counter about to be written, runs ahead of the errors *)
(* recorded; and only an answer is noted as a success.                     *)
CountsAreEarned ==
    /\ \A p \in Providers : failures[p] <= reported[p]
    /\ \A p \in paused : reported[p] >= Threshold
    /\ \A s \in Searches :
         /\ noting[s].step = "store" => Counted(noting[s].read) <= reported[noting[s].of]
         /\ noting[s].step = "reset" => noting[s].outcome \in Answers

EnrichInv ==
    /\ EnrichTypeOK
    /\ \A s \in Searches : SearchOK(s)
    /\ DiskIsAccounted
    /\ CountsAreEarned

LEMMA RemoteAreProviders == RemoteSet \subseteq Providers
  BY EnrichAssumption DEF RemoteSet

LEMMA InitEnrichInv == EnrichInit => EnrichInv
  <1> SUFFICES ASSUME EnrichInit
               PROVE  EnrichInv
    OBVIOUS
  <1> USE DEF EnrichInit, CallsInit, HealthInit
  <1>1. EnrichTypeOK
    BY HealthAssumption DEF EnrichTypeOK, Answer, Nothing, CallStates, Notes
  <1>2. \A s \in Searches : SearchOK(s)
    BY DEF SearchOK, CallsAreTrue, WaitIsAccounted, RecordIsAccounted
  <1>3. DiskIsAccounted
    BY DEF DiskIsAccounted
  <1>4. CountsAreEarned
    BY HealthAssumption DEF CountsAreEarned, Idle
  <1> QED
    BY <1>1, <1>2, <1>3, <1>4 DEF EnrichInv

-----------------------------------------------------------------------------
(* The types, action by action. *)

LEMMA EnrichReturnsTypes ==
  ASSUME EnrichTypeOK, NEW s \in Searches, EnrichReturns(s)
  PROVE  /\ searchStage' \in [Searches -> {"none", "waiting", "recording", "over"}]
         /\ searchKey' \in [Searches -> SearchKeys \cup {NoKey}]
         /\ gathered' \in [Searches -> Answer]
         /\ future' \in [Searches -> [RemoteSet -> CallStates]]
  BY DEF EnrichTypeOK, EnrichReturns, Answer, Nothing, CallStates

LEMMA BeginErrorTypes ==
  ASSUME EnrichTypeOK, NEW s \in Searches, NEW p \in RemoteSet, NEW o \in Outcomes,
         BeginError(s, p, o)
  PROVE  noting' \in [Searches -> Notes] /\ reported' \in [Providers -> 0..Threshold]
  <1>1. p \in Providers /\ failures[p] \in 0..Threshold
    BY RemoteAreProviders DEF EnrichTypeOK
  <1>2. [step |-> "store", of |-> p, outcome |-> o, read |-> failures[p]] \in Notes
    BY <1>1 DEF Notes
  <1>3. \A n \in 0..Threshold : Counted(n) \in 0..Threshold
    BY HealthAssumption DEF Counted
  <1> QED
    BY <1>1, <1>2, <1>3 DEF EnrichTypeOK, BeginError

LEMMA BeginSuccessTypes ==
  ASSUME EnrichTypeOK, NEW s \in Searches, NEW p \in RemoteSet, NEW o \in Outcomes,
         BeginSuccess(s, p, o)
  PROVE  noting' \in [Searches -> Notes] /\ reported' \in [Providers -> 0..Threshold]
  <1>1. [step |-> "reset", of |-> p, outcome |-> o, read |-> 0] \in Notes
    BY HealthAssumption DEF Notes
  <1> QED
    BY <1>1 DEF EnrichTypeOK, BeginSuccess

(* What a finished call adds to an answer.                                 *)
LEMMA GatheredOutcome ==
  ASSUME NEW s \in Searches, gathered[s] \in Answer, NEW p \in Providers, NEW o \in Outcomes,
         NEW g \in Gatherings(s, p, o)
  PROVE  /\ g \in Answer
         /\ gathered[s].rows \subseteq g.rows /\ gathered[s].excused \subseteq g.excused
         /\ o = "rows" => p \in g.rows
         /\ o \in Errors => p \in g.excused
  <1> DEFINE a == gathered[s]
  <1>1. CASE o = "rows"
    <2>1. g = [a EXCEPT !.rows = @ \cup {p}]
      BY <1>1 DEF Gatherings, Errors
    <2> HIDE DEF a
    <2>2. g \in Answer /\ a.rows \subseteq g.rows /\ a.excused \subseteq g.excused /\ p \in g.rows
      BY <2>1 DEF Answer, a
    <2> QED
      BY <1>1, <2>2 DEF a, Errors
  <1>2. CASE o \in Errors
    <2>1. o # "rows"
      BY <1>2 DEF Errors
    <2>2. PICK r \in {{}, {p} \cap Knows[searchKey[s]]} :
             g = [a EXCEPT !.rows = @ \cup r, !.excused = @ \cup {p}]
      BY <1>2, <2>1 DEF Gatherings
    <2>3. r \subseteq Providers
      BY <2>2
    <2> HIDE DEF a
    <2>4. g \in Answer /\ a.rows \subseteq g.rows /\ a.excused \subseteq g.excused /\ p \in g.excused
      BY <2>2, <2>3 DEF Answer, a
    <2> QED
      BY <2>1, <2>4 DEF a
  <1>3. CASE o # "rows" /\ o \notin Errors
    <2>1. g = a
      BY <1>3 DEF Gatherings
    <2> QED
      BY <1>3, <2>1
  <1> QED
    BY <1>1, <1>2, <1>3

LEMMA HarvestTypes ==
  ASSUME EnrichTypeOK, NEW s \in Searches, SearchOK(s), NEW p \in RemoteSet, HarvestNext(s, p)
  PROVE  EnrichTypeOK'
  <1>1. future[s][p] \in Outcomes
    BY DEF HarvestNext, SearchOK, RecordIsAccounted
  <1>2. harvest' \in [Searches -> SUBSET RemoteSet]
    BY DEF HarvestNext, EnrichTypeOK
  <1>3. CASE Cancelled(s)
    BY <1>2, <1>3 DEF HarvestNext, EnrichTypeOK, healthVars
  <1>4. CASE ~Cancelled(s)
    <2>1. PICK g \in Gatherings(s, p, future[s][p]) : gathered' = [gathered EXCEPT ![s] = g]
      BY <1>4 DEF HarvestNext
    <2>2. gathered[s] \in Answer /\ p \in Providers
      BY RemoteAreProviders DEF EnrichTypeOK
    <2>3. g \in Answer
      BY <1>1, <2>1, <2>2, GatheredOutcome
    <2>4. gathered' \in [Searches -> Answer]
      BY <2>1, <2>3 DEF EnrichTypeOK
    <2>5. noting' \in [Searches -> Notes] /\ reported' \in [Providers -> 0..Threshold]
      BY <1>1, <1>4, BeginErrorTypes, BeginSuccessTypes DEF HarvestNext
    <2>6. future' \in [Searches -> [RemoteSet -> CallStates]]
      <3>1. future' = [future EXCEPT ![s][p] = "none"] /\ "none" \in CallStates
        BY <1>4 DEF HarvestNext, CallStates
      <3> QED
        BY <3>1 DEF EnrichTypeOK
    <2> QED
      BY <1>2, <2>4, <2>5, <2>6 DEF HarvestNext, EnrichTypeOK, healthVars
  <1> QED
    BY <1>3, <1>4

LEMMA RecordTypes ==
  ASSUME EnrichTypeOK, NEW s \in Searches, RecordHealth(s)
  PROVE  EnrichTypeOK'
  <1> DEFINE n == noting[s]
  <1>1. n \in Notes /\ n.step # "none"
    BY DEF EnrichTypeOK, RecordHealth
  <1>2. /\ n.of \in RemoteSet /\ n.outcome \in Outcomes /\ n.read \in 0..Threshold
        /\ n.of \in Providers
        /\ n \in [step: {"store", "judge", "reset", "lift"}, of: RemoteSet,
                  outcome: Outcomes, read: 0..Threshold]
    BY <1>1, RemoteAreProviders DEF Notes, Idle
  <1>3. \A m \in 0..Threshold : Counted(m) \in 0..Threshold
    BY HealthAssumption DEF Counted
  <1>4. /\ Idle \in Notes
        /\ [n EXCEPT !.step = "lift"] \in Notes
        /\ [n EXCEPT !.step = "judge", !.read = 0] \in Notes
    <2> HIDE DEF n
    <2>1. 0 \in 0..Threshold
      BY HealthAssumption
    <2> QED
      BY <1>2, <2>1 DEF Notes
  <1>5. noting' \in [Searches -> Notes]
    <2>1. noting' \in {[noting EXCEPT ![s] = Idle],
                       [noting EXCEPT ![s] = [n EXCEPT !.step = "lift"]],
                       [noting EXCEPT ![s] = [n EXCEPT !.step = "judge", !.read = 0]]}
      BY DEF RecordHealth, EnrichTypeOK
    <2> HIDE DEF n
    <2> QED
      BY <1>4, <2>1 DEF EnrichTypeOK
  <1>6. failures' \in [Providers -> 0..Threshold] /\ paused' \subseteq Providers
    <2>1. failures \in [Providers -> 0..Threshold] /\ paused \subseteq Providers /\ 0 \in 0..Threshold
      BY HealthAssumption DEF EnrichTypeOK
    <2>2. \/ StoreFailure(n.of, n.read, n.outcome)
          \/ JudgeFailure(n.of, n.outcome)
          \/ ResetFailures(n.of)
          \/ LiftPause(n.of)
      BY DEF RecordHealth
    <2> HIDE DEF n
    <2>3. CASE StoreFailure(n.of, n.read, n.outcome)
      BY <1>2, <1>3, <2>1, <2>3 DEF StoreFailure
    <2>4. CASE JudgeFailure(n.of, n.outcome)
      BY <1>2, <2>1, <2>4 DEF JudgeFailure
    <2>5. CASE ResetFailures(n.of)
      BY <1>2, <2>1, <2>5 DEF ResetFailures
    <2>6. CASE LiftPause(n.of)
      BY <1>2, <2>1, <2>6 DEF LiftPause
    <2> QED
      BY <2>2, <2>3, <2>4, <2>5, <2>6
  <1> QED
    BY <1>5, <1>6 DEF RecordHealth, EnrichTypeOK, callVars

LEMMA EnrichTypeStep == EnrichInv /\ [EnrichNext]_enrichVars => EnrichTypeOK'
  <1> SUFFICES ASSUME EnrichInv, [EnrichNext]_enrichVars
               PROVE  EnrichTypeOK'
    OBVIOUS
  <1>0. EnrichTypeOK /\ \A s \in Searches : SearchOK(s)
    BY DEF EnrichInv
  <1>1. CASE UNCHANGED enrichVars
    BY <1>0, <1>1 DEF EnrichTypeOK, enrichVars, callVars, noteVars, healthVars
  <1>2. ASSUME NEW s \in Searches, SetAlarm(s), UNCHANGED <<disk, future, harvest, late, noteVars>>
        PROVE  EnrichTypeOK'
    BY <1>0, <1>2 DEF SetAlarm, EnrichTypeOK, noteVars, healthVars
  <1>3. ASSUME NEW s \in Searches, NEW k \in SearchKeys, EnrichStart(s, k)
        PROVE  EnrichTypeOK'
    <2>1. CASE EnrichReturns(s)
      BY <1>0, <1>3, <2>1, EnrichReturnsTypes DEF EnrichStart, EnrichTypeOK, noteVars, healthVars
    <2>2. CASE ~EnrichReturns(s)
      <3>1. gathered' \in [Searches -> Answer]
        <4> DEFINE skipped == RemoteSet \ Runnable
        <4>1. skipped \subseteq Providers /\ gathered' = [gathered EXCEPT ![s].excused = skipped]
          BY <1>3, <2>2, RemoteAreProviders DEF EnrichStart
        <4> HIDE DEF skipped
        <4>2. gathered[s] \in Answer
          BY <1>0 DEF EnrichTypeOK
        <4>3. [gathered[s] EXCEPT !.excused = skipped] \in Answer
          BY <4>1, <4>2 DEF Answer
        <4> QED
          BY <1>0, <4>1, <4>3 DEF EnrichTypeOK
      <3>2. future' \in [Searches -> [RemoteSet -> CallStates]]
        <4>1. [p \in RemoteSet |-> IF p \in Runnable THEN "queued" ELSE "none"] \in [RemoteSet -> CallStates]
          BY DEF CallStates
        <4> QED
          BY <1>0, <1>3, <2>2, <4>1 DEF EnrichStart, EnrichTypeOK
      <3>3. /\ searchStage' = [searchStage EXCEPT ![s] = "waiting"]
            /\ searchKey' = [searchKey EXCEPT ![s] = k]
            /\ UNCHANGED <<disk, harvest, late, noteVars>>
        BY <1>3, <2>2 DEF EnrichStart
      <3> QED
        BY <1>0, <3>1, <3>2, <3>3 DEF EnrichTypeOK, noteVars, healthVars
    <2> QED
      BY <2>1, <2>2
  <1>4. ASSUME NEW s \in Searches, NEW p \in RemoteSet, CallStarts(s, p) \/ CallReturns(s, p)
        PROVE  EnrichTypeOK'
    <2>1. PICK o \in CallStates : future' = [future EXCEPT ![s][p] = o]
      BY <1>4 DEF CallStarts, CallReturns, CallStates, Outcomes, Answers
    <2>2. UNCHANGED <<callVars, disk, harvest, late, noteVars>>
      BY <1>4 DEF CallStarts, CallReturns
    <2>3. future' \in [Searches -> [RemoteSet -> CallStates]]
      BY <1>0, <2>1 DEF EnrichTypeOK
    <2> QED
      BY <1>0, <2>2, <2>3 DEF EnrichTypeOK, callVars, noteVars, healthVars
  <1>5. ASSUME NEW s \in Searches, WaitEnds(s)
        PROVE  EnrichTypeOK'
    <2>1. CASE Cancelled(s)
      BY <1>0, <1>5, <2>1, EnrichReturnsTypes DEF WaitEnds, EnrichTypeOK, noteVars, healthVars
    <2>2. CASE ~Cancelled(s)
      <3>1. Finished(s) \subseteq RemoteSet
        BY DEF Finished
      <3>2. future' \in [Searches -> [RemoteSet -> CallStates]]
        <4>1. [p \in RemoteSet |-> IF future[s][p] \in Outcomes THEN future[s][p] ELSE "none"]
                \in [RemoteSet -> CallStates]
          BY DEF CallStates
        <4> QED
          BY <1>0, <1>5, <2>2, <4>1 DEF WaitEnds, EnrichTypeOK
      <3>3. searchStage' \in [Searches -> {"none", "waiting", "recording", "over"}]
        BY <1>0, <1>5, <2>2 DEF WaitEnds, EnrichTypeOK
      <3>4. harvest' \in [Searches -> SUBSET RemoteSet] /\ late' \in [Searches -> SUBSET RemoteSet]
        <4> DEFINE open == {p \in RemoteSet : future[s][p] \in {"queued", "running"}}
        <4>1. harvest' = [harvest EXCEPT ![s] = Finished(s)] /\ late' = [late EXCEPT ![s] = open]
          BY <1>5, <2>2 DEF WaitEnds
        <4>2. open \in SUBSET RemoteSet /\ Finished(s) \in SUBSET RemoteSet
          BY <3>1
        <4> HIDE DEF open
        <4> QED
          BY <1>0, <4>1, <4>2 DEF EnrichTypeOK
      <3> QED
        BY <1>0, <1>5, <2>2, <3>2, <3>3, <3>4 DEF WaitEnds, EnrichTypeOK, noteVars, healthVars
    <2> QED
      BY <2>1, <2>2
  <1>6. ASSUME NEW s \in Searches, NEW p \in RemoteSet, HarvestNext(s, p)
        PROVE  EnrichTypeOK'
    BY <1>0, <1>6, HarvestTypes
  <1>7. ASSUME NEW s \in Searches, NEW p \in RemoteSet, LateNext(s, p)
        PROVE  EnrichTypeOK'
    <2>1. noting' \in [Searches -> Notes] /\ reported' \in [Providers -> 0..Threshold]
      BY <1>0, <1>7, BeginErrorTypes DEF LateNext, Outcomes, Errors
    <2>2. gathered' \in [Searches -> Answer]
      <3>1. gathered[s] \in Answer /\ p \in Providers
        BY <1>0, RemoteAreProviders DEF EnrichTypeOK
      <3>2. [gathered[s] EXCEPT !.excused = @ \cup {p}] \in Answer
        BY <3>1 DEF Answer
      <3> QED
        BY <1>0, <1>7, <3>2 DEF LateNext, EnrichTypeOK
    <2> QED
      BY <1>0, <1>7, <2>1, <2>2 DEF LateNext, EnrichTypeOK, healthVars
  <1>8. ASSUME NEW s \in Searches, RecordHealth(s)
        PROVE  EnrichTypeOK'
    BY <1>0, <1>8, RecordTypes
  <1>9. ASSUME NEW s \in Searches, EnrichEnd(s)
        PROVE  EnrichTypeOK'
    <2>1. searchKey[s] \in SearchKeys /\ gathered[s] \in Answer
      BY <1>0, <1>9 DEF EnrichEnd, EnrichTypeOK, SearchOK, RecordIsAccounted
    <2>2. disk' \in [SearchKeys -> SUBSET Answer]
      BY <1>0, <1>9, <2>1 DEF EnrichEnd, EnrichTypeOK
    <2> QED
      BY <1>0, <1>9, <2>2, EnrichReturnsTypes DEF EnrichEnd, EnrichTypeOK, noteVars, healthVars
  <1>10. ASSUME NEW p \in RemoteSet, BackoffEnds(p)
         PROVE  EnrichTypeOK'
    BY <1>0, <1>10 DEF BackoffEnds, BackoffExpires, LiftPause, EnrichTypeOK, callVars
  <1> QED
    BY <1>1, <1>2, <1>3, <1>4, <1>5, <1>6, <1>7, <1>8, <1>9, <1>10 DEF EnrichNext

-----------------------------------------------------------------------------
(* What holds of each search. *)

(* A step of one search leaves the others as they are.                     *)
LEMMA OthersStayOK ==
  ASSUME NEW s \in Searches, \A t \in Searches : SearchOK(t), SearchOK(s)',
         \A t \in Searches \ {s} :
            /\ searchStage'[t] = searchStage[t]
            /\ searchKey'[t] = searchKey[t]
            /\ gathered'[t] = gathered[t]
            /\ future'[t] = future[t]
            /\ harvest'[t] = harvest[t]
            /\ late'[t] = late[t]
            /\ Cancelled(t)' = Cancelled(t)
  PROVE  \A t \in Searches : SearchOK(t)'
  <1> SUFFICES ASSUME NEW t \in Searches \ {s}
               PROVE  SearchOK(t)'
    OBVIOUS
  <1>1. SearchOK(t)
    OBVIOUS
  <1> QED
    BY <1>1 DEF SearchOK, CallsAreTrue, WaitIsAccounted, RecordIsAccounted

LEMMA ReturnKeepsSearches ==
  ASSUME EnrichTypeOK, \A t \in Searches : SearchOK(t), NEW s \in Searches, EnrichReturns(s),
         UNCHANGED <<harvest, late>>
  PROVE  \A t \in Searches : SearchOK(t)'
  <1>1. searchStage'[s] = "over" /\ \A p \in RemoteSet : future'[s][p] = "none"
    BY DEF EnrichReturns, EnrichTypeOK
  <1>2. SearchOK(s)'
    BY <1>1 DEF SearchOK, CallsAreTrue, WaitIsAccounted, RecordIsAccounted
  <1>3. \A t \in Searches \ {s} : /\ searchStage'[t] = searchStage[t]
                                  /\ searchKey'[t] = searchKey[t]
                                  /\ gathered'[t] = gathered[t]
                                  /\ future'[t] = future[t]
    BY DEF EnrichReturns, EnrichTypeOK
  <1>4. \A t \in Searches \ {s} : Cancelled(t)' = Cancelled(t)
    BY DEF EnrichReturns, Cancelled
  <1> QED
    BY <1>2, <1>3, <1>4, OthersStayOK

LEMMA StartKeepsSearches ==
  ASSUME EnrichTypeOK, \A t \in Searches : SearchOK(t),
         NEW s \in Searches, NEW k \in SearchKeys, EnrichStart(s, k)
  PROVE  \A t \in Searches : SearchOK(t)'
  <1>1. CASE EnrichReturns(s)
    BY <1>1, ReturnKeepsSearches DEF EnrichStart
  <1>2. CASE ~EnrichReturns(s)
    <2>1. /\ searchStage'[s] = "waiting" /\ searchKey'[s] = k
          /\ future'[s] = [p \in RemoteSet |-> IF p \in Runnable THEN "queued" ELSE "none"]
          /\ gathered'[s].excused = RemoteSet \ Runnable
      <3>1. /\ searchStage' = [searchStage EXCEPT ![s] = "waiting"] /\ searchKey' = [searchKey EXCEPT ![s] = k]
            /\ future' = [future EXCEPT ![s] = [p \in RemoteSet |-> IF p \in Runnable THEN "queued" ELSE "none"]]
            /\ gathered' = [gathered EXCEPT ![s].excused = RemoteSet \ Runnable]
        BY ONLY <1>2, EnrichStart(s, k) DEF EnrichStart
      <3>2. /\ s \in DOMAIN searchStage /\ s \in DOMAIN searchKey /\ s \in DOMAIN future /\ s \in DOMAIN gathered
            /\ gathered[s] \in Answer
        BY EnrichTypeOK DEF EnrichTypeOK
      <3>3. gathered'[s].excused = RemoteSet \ Runnable
        BY ONLY <3>1, <3>2 DEF Answer
      <3> QED
        BY ONLY <3>1, <3>2, <3>3
    <2>2. SearchOK(s)'
      BY <2>1 DEF SearchOK, CallsAreTrue, WaitIsAccounted, RecordIsAccounted
    <2> QED
      BY <1>2, <2>2, OthersStayOK DEF EnrichStart, EnrichTypeOK, Cancelled
  <1> QED
    BY <1>1, <1>2

LEMMA CallKeepsSearches ==
  ASSUME EnrichTypeOK, \A t \in Searches : SearchOK(t),
         NEW s \in Searches, NEW p \in RemoteSet, CallStarts(s, p) \/ CallReturns(s, p)
  PROVE  \A t \in Searches : SearchOK(t)'
  <1>1. PICK o \in CallStates \ {"none"} :
           /\ future' = [future EXCEPT ![s][p] = o]
           /\ o = "void" => Cancelled(s)
           /\ o = "empty" => p \notin Knows[searchKey[s]]
    <2>1. CASE CallStarts(s, p)
      <3> DEFINE o == IF Cancelled(s) THEN "void" ELSE "running"
      <3>1. /\ future' = [future EXCEPT ![s][p] = o]
            /\ o \in CallStates \ {"none"} /\ o # "empty"
            /\ o = "void" => Cancelled(s)
        BY <2>1 DEF CallStarts, CallStates, Outcomes
      <3> HIDE DEF o
      <3> QED
        BY <3>1
    <2>2. CASE CallReturns(s, p)
      <3>1. PICK o \in IF Cancelled(s) THEN {"void"}
                       ELSE Errors \cup {IF p \in Knows[searchKey[s]] THEN "rows" ELSE "empty"} :
               future' = [future EXCEPT ![s][p] = o]
        BY <2>2 DEF CallReturns
      <3>2. /\ o \in CallStates \ {"none"}
            /\ o = "void" => Cancelled(s)
            /\ o = "empty" => p \notin Knows[searchKey[s]]
        BY <3>1 DEF CallStates, Outcomes, Answers, Errors
      <3> QED
        BY <3>1, <3>2
    <2> QED
      BY <2>1, <2>2
  <1>2. future[s][p] \in {"queued", "running"} /\ UNCHANGED <<callVars, harvest, late>>
    BY DEF CallStarts, CallReturns
  <1>3. SearchOK(s) /\ searchStage[s] = "waiting"
    BY <1>2 DEF SearchOK, CallsAreTrue
  <1>4. \A q \in RemoteSet : future'[s][q] = IF q = p THEN o ELSE future[s][q]
    BY <1>1 DEF EnrichTypeOK
  <1>5. SearchOK(s)'
    <2>1. UNCHANGED <<searchStage, searchKey, searchAlarm, gathered>>
      BY <1>2 DEF callVars
    <2> QED
      BY <1>1, <1>3, <1>4, <2>1 DEF SearchOK, CallsAreTrue, WaitIsAccounted, RecordIsAccounted, Cancelled
  <1> QED
    BY <1>1, <1>2, <1>5, OthersStayOK DEF EnrichTypeOK, callVars, Cancelled

LEMMA WaitKeepsSearches ==
  ASSUME EnrichTypeOK, \A t \in Searches : SearchOK(t), NEW s \in Searches, WaitEnds(s)
  PROVE  \A t \in Searches : SearchOK(t)'
  <1>1. CASE Cancelled(s)
    BY <1>1, ReturnKeepsSearches DEF WaitEnds
  <1>2. CASE ~Cancelled(s)
    <2>1. SearchOK(s) /\ searchStage[s] = "waiting"
      BY DEF WaitEnds
    <2>2. /\ searchStage'[s] = "recording" /\ searchKey'[s] = searchKey[s]
          /\ gathered'[s] = gathered[s] /\ searchAlarm' = searchAlarm
          /\ harvest'[s] = {p \in RemoteSet : future[s][p] \in Outcomes}
          /\ late'[s] = {p \in RemoteSet : future[s][p] \in {"queued", "running"}}
          /\ future'[s] = [p \in RemoteSet |-> IF future[s][p] \in Outcomes THEN future[s][p] ELSE "none"]
      BY <1>2 DEF WaitEnds, Finished, EnrichTypeOK
    <2>3. \A p \in RemoteSet :
             future[s][p] = "none" \/ p \in harvest'[s] \/ p \in late'[s]
      BY <2>2 DEF EnrichTypeOK, CallStates
    <2>4. \A p \in RemoteSet : future[s][p] = "none" => p \in gathered[s].excused
      BY <2>1 DEF SearchOK, WaitIsAccounted
    <2>5. RecordIsAccounted(s)'
      BY <2>1, <2>2, <2>3, <2>4 DEF RecordIsAccounted, SearchOK, WaitIsAccounted
    <2>6. CallsAreTrue(s)' /\ WaitIsAccounted(s)'
      BY <2>1, <2>2 DEF CallsAreTrue, WaitIsAccounted, SearchOK, Cancelled, Outcomes, Answers, Errors
    <2> QED
      BY <1>2, <2>5, <2>6, OthersStayOK DEF SearchOK, WaitEnds, EnrichTypeOK, Cancelled
  <1> QED
    BY <1>1, <1>2

LEMMA HarvestKeepsSearches ==
  ASSUME EnrichTypeOK, \A t \in Searches : SearchOK(t),
         NEW s \in Searches, NEW p \in RemoteSet, HarvestNext(s, p)
  PROVE  \A t \in Searches : SearchOK(t)'
  <1>0. /\ SearchOK(s) /\ searchStage[s] = "recording" /\ p \in harvest[s]
        /\ UNCHANGED <<searchStage, searchKey, searchAlarm, late>>
    BY DEF HarvestNext
  <1>1. CASE Cancelled(s)
    <2>1. harvest'[s] = {} /\ UNCHANGED <<gathered, future>>
      BY <1>1 DEF HarvestNext, EnrichTypeOK
    <2>2. SearchOK(s)'
      BY <1>0, <1>1, <2>1 DEF SearchOK, CallsAreTrue, WaitIsAccounted, RecordIsAccounted, Cancelled
    <2> QED
      BY <1>0, <1>1, <2>2, OthersStayOK DEF HarvestNext, EnrichTypeOK, Cancelled
  <1>2. CASE ~Cancelled(s)
    <2>1. PICK g \in Gatherings(s, p, future[s][p]) : gathered' = [gathered EXCEPT ![s] = g]
      BY <1>2 DEF HarvestNext
    <2>2. /\ harvest'[s] = harvest[s] \ {p}
          /\ gathered'[s] = g
          /\ \A q \in RemoteSet : future'[s][q] = IF q = p THEN "none" ELSE future[s][q]
      BY <1>2, <2>1 DEF HarvestNext, EnrichTypeOK
    <2>3. /\ gathered[s].rows \subseteq g.rows /\ gathered[s].excused \subseteq g.excused
          /\ p \in Knows[searchKey[s]] => p \in g.rows \cup g.excused
      <3>1. /\ future[s][p] \in Outcomes /\ future[s][p] # "void"
            /\ future[s][p] = "empty" => p \notin Knows[searchKey[s]]
            /\ gathered[s] \in Answer
        BY <1>0, <1>2 DEF SearchOK, CallsAreTrue, RecordIsAccounted, EnrichTypeOK
      <3>2. p \in Providers
        BY RemoteAreProviders
      <3>3. /\ gathered[s].rows \subseteq g.rows /\ gathered[s].excused \subseteq g.excused
            /\ future[s][p] = "rows" => p \in g.rows
            /\ future[s][p] \in Errors => p \in g.excused
        BY <2>1, <3>1, <3>2, GatheredOutcome
      <3> QED
        BY <3>1, <3>3 DEF Outcomes, Answers
    <2>4. CallsAreTrue(s)' /\ WaitIsAccounted(s)'
      BY <1>0, <2>2 DEF SearchOK, CallsAreTrue, WaitIsAccounted, Cancelled
    <2>5. RecordIsAccounted(s)'
      <3>1. \A q \in harvest'[s] : future'[s][q] \in Outcomes
        BY <1>0, <2>2 DEF SearchOK, RecordIsAccounted, EnrichTypeOK
      <3>2. \A q \in RemoteSet \cap Knows[searchKey[s]] :
               q \in gathered[s].rows \cup gathered[s].excused \cup harvest[s] \cup late[s]
        BY <1>0, <1>2 DEF SearchOK, RecordIsAccounted
      <3>3. \A q \in RemoteSet \cap Knows[searchKey[s]] :
               q \in g.rows \cup g.excused \cup harvest'[s] \cup late[s]
        BY <2>2, <2>3, <3>2
      <3> QED
        BY <1>0, <2>2, <3>1, <3>3 DEF SearchOK, RecordIsAccounted
    <2>6. SearchOK(s)'
      BY <2>4, <2>5 DEF SearchOK
    <2> QED
      BY <1>0, <1>2, <2>1, <2>6, OthersStayOK DEF HarvestNext, EnrichTypeOK, Cancelled
  <1> QED
    BY <1>1, <1>2

LEMMA LateKeepsSearches ==
  ASSUME EnrichTypeOK, \A t \in Searches : SearchOK(t),
         NEW s \in Searches, NEW p \in RemoteSet, LateNext(s, p)
  PROVE  \A t \in Searches : SearchOK(t)'
  <1>1. /\ SearchOK(s) /\ searchStage[s] = "recording"
        /\ UNCHANGED <<searchStage, searchKey, searchAlarm, future, harvest>>
        /\ late'[s] = late[s] \ {p}
        /\ gathered'[s].rows = gathered[s].rows
        /\ gathered'[s].excused = gathered[s].excused \cup {p}
    BY DEF LateNext, EnrichTypeOK, Answer
  <1>2. SearchOK(s)'
    BY <1>1 DEF SearchOK, CallsAreTrue, WaitIsAccounted, RecordIsAccounted, Cancelled
  <1> QED
    BY <1>1, <1>2, OthersStayOK DEF LateNext, EnrichTypeOK, Cancelled

LEMMA SearchesStep == EnrichInv /\ [EnrichNext]_enrichVars => \A t \in Searches : SearchOK(t)'
  <1> SUFFICES ASSUME EnrichInv, [EnrichNext]_enrichVars
               PROVE  \A t \in Searches : SearchOK(t)'
    OBVIOUS
  <1>0. EnrichTypeOK /\ \A s \in Searches : SearchOK(s)
    BY DEF EnrichInv
  <1>1. CASE /\ UNCHANGED <<searchStage, searchKey, gathered, future, harvest, late>>
             /\ searchAlarm \subseteq searchAlarm'
    BY <1>0, <1>1 DEF SearchOK, CallsAreTrue, WaitIsAccounted, RecordIsAccounted, Cancelled
  <1>2. CASE UNCHANGED enrichVars
    BY <1>1, <1>2 DEF enrichVars, callVars
  <1>3. ASSUME NEW s \in Searches,
               \/ SetAlarm(s) /\ UNCHANGED <<disk, future, harvest, late, noteVars>>
               \/ RecordHealth(s)
        PROVE  \A t \in Searches : SearchOK(t)'
    BY <1>1, <1>3 DEF SetAlarm, RecordHealth, callVars
  <1>4. ASSUME NEW p \in RemoteSet, BackoffEnds(p)
        PROVE  \A t \in Searches : SearchOK(t)'
    BY <1>1, <1>4 DEF BackoffEnds, callVars
  <1>5. ASSUME NEW s \in Searches, EnrichEnd(s)
        PROVE  \A t \in Searches : SearchOK(t)'
    BY <1>0, <1>5, ReturnKeepsSearches DEF EnrichEnd
  <1> QED
    BY <1>0, <1>2, <1>3, <1>4, <1>5, StartKeepsSearches, CallKeepsSearches, WaitKeepsSearches,
       HarvestKeepsSearches, LateKeepsSearches
    DEF EnrichNext

-----------------------------------------------------------------------------
(* The cache on disk and the counters. *)

LEMMA DiskStep == EnrichInv /\ [EnrichNext]_enrichVars => DiskIsAccounted'
  <1> SUFFICES ASSUME EnrichInv, [EnrichNext]_enrichVars
               PROVE  DiskIsAccounted'
    OBVIOUS
  <1>0. EnrichTypeOK /\ DiskIsAccounted /\ \A s \in Searches : SearchOK(s)
    BY DEF EnrichInv
  <1>1. CASE disk' = disk
    BY <1>0, <1>1 DEF DiskIsAccounted
  <1>2. CASE disk' # disk
    <2>1. PICK s \in Searches : EnrichEnd(s) /\ ~Cancelled(s)
      <3>1. \A s \in Searches : ~RecordHealth(s) /\ ~WaitEnds(s)
        BY <1>2 DEF RecordHealth, WaitEnds
      <3>2. \A p \in RemoteSet : ~BackoffEnds(p)
        BY <1>2 DEF BackoffEnds
      <3>3. \A s \in Searches, p \in RemoteSet :
               ~CallStarts(s, p) /\ ~CallReturns(s, p) /\ ~HarvestNext(s, p) /\ ~LateNext(s, p)
        BY <1>2 DEF CallStarts, CallReturns, HarvestNext, LateNext
      <3>4. \A s \in Searches, k \in SearchKeys : ~EnrichStart(s, k)
        BY <1>2 DEF EnrichStart
      <3>5. ~UNCHANGED enrichVars /\ ~UNCHANGED <<disk, future, harvest, late, noteVars>>
        BY <1>2 DEF enrichVars
      <3>6. PICK s \in Searches : EnrichEnd(s)
        BY <3>1, <3>2, <3>3, <3>4, <3>5 DEF EnrichNext
      <3> QED
        BY <1>2, <3>6 DEF EnrichEnd
    <2>2. /\ searchKey[s] \in SearchKeys
          /\ \A p \in RemoteSet \cap Knows[searchKey[s]] :
                p \in gathered[s].rows \cup gathered[s].excused
      BY <1>0, <2>1 DEF EnrichEnd, SearchOK, RecordIsAccounted
    <2>3. disk' = [disk EXCEPT ![searchKey[s]] = {gathered[s]}]
      BY <2>1 DEF EnrichEnd
    <2>4. Accounted(searchKey[s], RemoteSet, gathered[s])
      BY <2>2 DEF Accounted
    <2>5. ASSUME NEW k \in SearchKeys, NEW e \in disk'[k]
          PROVE  Accounted(k, RemoteSet, e)
      <3>1. CASE k = searchKey[s]
        BY <1>0, <2>3, <2>4, <2>5, <3>1 DEF EnrichTypeOK
      <3>2. CASE k # searchKey[s]
        <4>1. e \in disk[k]
          BY <1>0, <2>3, <2>5, <3>2 DEF EnrichTypeOK
        <4> QED
          BY <1>0, <4>1 DEF DiskIsAccounted
      <3> QED
        BY <3>1, <3>2
    <2> QED
      BY <2>5 DEF DiskIsAccounted, Accounted
  <1> QED
    BY <1>1, <1>2

LEMMA CountedProperties ==
  ASSUME NEW m \in 0..Threshold
  PROVE  /\ Counted(m) \in 1..Threshold
         /\ m <= Counted(m)
         /\ \A n \in 0..Threshold : m <= n => Counted(m) <= Counted(n)
  BY HealthAssumption DEF Counted

(* The health record of an error begins.                                   *)
LEMMA BeginErrorCounts ==
  ASSUME EnrichTypeOK, CountsAreEarned, NEW s \in Searches, NEW p \in RemoteSet, NEW o \in Outcomes,
         BeginError(s, p, o), UNCHANGED healthVars
  PROVE  CountsAreEarned'
  <1>1. p \in Providers /\ failures[p] \in 0..Threshold /\ reported[p] \in 0..Threshold
        /\ failures[p] <= reported[p]
    BY RemoteAreProviders DEF EnrichTypeOK, CountsAreEarned
  <1>2. /\ \A q \in Providers : reported[q] <= reported'[q] /\ reported'[q] \in 0..Threshold
        /\ Counted(failures[p]) <= reported'[p]
    <2>1. reported'[p] = Counted(reported[p]) /\ \A q \in Providers \ {p} : reported'[q] = reported[q]
      BY <1>1 DEF BeginError, EnrichTypeOK
    <2> QED
      BY <1>1, <2>1, CountedProperties DEF EnrichTypeOK
  <1>3. \A q \in Providers : failures'[q] <= reported'[q]
    BY <1>2, HealthAssumption DEF CountsAreEarned, EnrichTypeOK, healthVars
  <1>4. \A q \in paused' : reported'[q] >= Threshold
    BY <1>2, HealthAssumption DEF CountsAreEarned, EnrichTypeOK, healthVars
  <1>5. ASSUME NEW t \in Searches
        PROVE  /\ noting'[t].step = "store" => Counted(noting'[t].read) <= reported'[noting'[t].of]
               /\ noting'[t].step = "reset" => noting'[t].outcome \in Answers
    <2>1. CASE t = s
      <3>1. noting'[t] = [step |-> "store", of |-> p, outcome |-> o, read |-> failures[p]]
        BY <2>1 DEF BeginError, EnrichTypeOK
      <3> QED
        BY <1>2, <3>1
    <2>2. CASE t # s
      <3>1. noting'[t] = noting[t] /\ noting[t] \in Notes
        BY <2>2 DEF BeginError, EnrichTypeOK
      <3>2. noting[t].step = "store" => noting[t].of \in Providers /\ noting[t].read \in 0..Threshold
        BY <3>1, RemoteAreProviders DEF Notes, Idle
      <3>3. noting[t].step = "store" => Counted(noting[t].read) \in 0..Threshold
        BY <3>2, CountedProperties
      <3> QED
        BY <1>2, <3>1, <3>2, <3>3, HealthAssumption DEF CountsAreEarned, EnrichTypeOK
    <2> QED
      BY <2>1, <2>2
  <1> QED
    BY <1>3, <1>4, <1>5 DEF CountsAreEarned

(* That of an answer.                                                      *)
LEMMA BeginSuccessCounts ==
  ASSUME EnrichTypeOK, CountsAreEarned, NEW s \in Searches, NEW p \in RemoteSet, NEW o \in Answers,
         BeginSuccess(s, p, o), UNCHANGED healthVars
  PROVE  CountsAreEarned'
  <1>1. /\ noting'[s] = [step |-> "reset", of |-> p, outcome |-> o, read |-> 0]
        /\ \A t \in Searches \ {s} : noting'[t] = noting[t]
        /\ UNCHANGED <<failures, paused, reported>>
    BY DEF BeginSuccess, EnrichTypeOK, healthVars
  <1> QED
    BY <1>1 DEF CountsAreEarned

(* Its remaining writes.                                                   *)
LEMMA RecordCounts ==
  ASSUME EnrichTypeOK, CountsAreEarned, NEW s \in Searches, RecordHealth(s)
  PROVE  /\ CountsAreEarned'
         /\ \A p \in Providers : failures[p] # 0 /\ failures'[p] = 0
              => /\ noting[s] # Idle /\ noting[s].of = p
                 /\ noting[s].outcome \in Answers \cup {"unset"}
  <1> DEFINE n == noting[s]
             p == noting[s].of
  <1>1. n \in Notes /\ n.step # "none" /\ n # Idle
    BY DEF EnrichTypeOK, RecordHealth, Idle
  <1>2. /\ p \in RemoteSet /\ n.outcome \in Outcomes /\ n.read \in 0..Threshold
        /\ p \in Providers
        /\ n.step = "store" => Counted(n.read) <= reported[p]
        /\ n.step = "reset" => n.outcome \in Answers
    BY <1>1, RemoteAreProviders DEF Notes, Idle, CountsAreEarned
  <1>3. reported' = reported /\ reported \in [Providers -> 0..Threshold]
        /\ failures \in [Providers -> 0..Threshold]
    BY DEF RecordHealth, EnrichTypeOK
  <1>4. /\ noting'[s].step \notin {"store", "reset"}
        /\ \A t \in Searches \ {s} : noting'[t] = noting[t]
    <2>1. CASE n.step = "store"
      <3>1. noting' = [noting EXCEPT ![s].step = "judge", ![s].read = 0]
        BY <2>1 DEF RecordHealth
      <3>2. noting'[s].step = "judge"
        BY <1>1, <1>2, <2>1, <3>1 DEF EnrichTypeOK, Notes, Idle
      <3> QED
        BY <3>1, <3>2 DEF EnrichTypeOK
    <2>2. CASE n.step = "reset"
      <3>1. noting' = [noting EXCEPT ![s].step = "lift"]
        BY <2>2 DEF RecordHealth
      <3>2. noting'[s].step = "lift"
        BY <1>1, <1>2, <2>2, <3>1 DEF EnrichTypeOK, Notes, Idle
      <3> QED
        BY <3>1, <3>2 DEF EnrichTypeOK
    <2>3. CASE n.step \notin {"store", "reset"}
      BY <2>3 DEF RecordHealth, EnrichTypeOK, Idle
    <2> QED
      BY <2>1, <2>2, <2>3
  <1> HIDE DEF n, p
  <1>5. CASE StoreFailure(p, n.read, n.outcome) /\ n.step = "store"
    <2>1. Counted(n.read) \in 1..Threshold
      BY <1>2, CountedProperties
    <2>2. /\ failures'[p] = IF n.outcome = "unset" THEN 0 ELSE Counted(n.read)
          /\ \A q \in Providers \ {p} : failures'[q] = failures[q]
          /\ paused' = paused
      BY <1>2, <1>3, <1>5 DEF StoreFailure
    <2>3. \A q \in Providers : failures'[q] <= reported'[q]
      BY <1>2, <1>3, <1>5, <2>1, <2>2 DEF CountsAreEarned
    <2>4. CountsAreEarned'
      BY <1>3, <1>4, <2>2, <2>3 DEF CountsAreEarned
    <2>5. \A q \in Providers : failures[q] # 0 /\ failures'[q] = 0 => q = p /\ n.outcome = "unset"
      BY <2>1, <2>2
    <2> QED
      BY <1>1, <2>4, <2>5 DEF n, p
  <1>6. CASE JudgeFailure(p, n.outcome)
    <2>1. failures' = failures /\ paused' \in {paused, paused \cup {p}}
          /\ (p \in paused' => p \in paused \/ failures[p] >= Threshold)
      BY <1>6 DEF JudgeFailure
    <2>2. \A q \in paused' : reported'[q] >= Threshold
      BY <1>2, <1>3, <2>1, HealthAssumption DEF CountsAreEarned
    <2>3. CountsAreEarned'
      BY <1>3, <1>4, <2>1, <2>2 DEF CountsAreEarned
    <2> QED
      BY <2>1, <2>3
  <1>7. CASE ResetFailures(p) /\ n.step = "reset"
    <2>1. /\ failures'[p] = 0 /\ \A q \in Providers \ {p} : failures'[q] = failures[q]
          /\ paused' = paused
      BY <1>2, <1>3, <1>7 DEF ResetFailures
    <2>2. \A q \in Providers : failures'[q] <= reported'[q]
      BY <1>2, <1>3, <2>1, HealthAssumption DEF CountsAreEarned
    <2>3. CountsAreEarned'
      BY <1>3, <1>4, <2>1, <2>2 DEF CountsAreEarned
    <2> QED
      BY <1>1, <1>2, <1>7, <2>1, <2>3 DEF n, p
  <1>8. CASE LiftPause(p)
    <2>1. failures' = failures /\ paused' \subseteq paused
      BY <1>8 DEF LiftPause
    <2>2. CountsAreEarned'
      BY <1>3, <1>4, <2>1 DEF CountsAreEarned
    <2> QED
      BY <2>1, <2>2
  <1> QED
    BY <1>5, <1>6, <1>7, <1>8 DEF RecordHealth, n, p

LEMMA CountsStep ==
  EnrichInv /\ [EnrichNext]_enrichVars
    => /\ CountsAreEarned'
       /\ \A p \in RemoteSet : failures[p] # 0 /\ failures'[p] = 0
            => \E s \in Searches : /\ noting[s] # Idle /\ noting[s].of = p
                                   /\ noting[s].outcome \in Answers \cup {"unset"}
  <1> SUFFICES ASSUME EnrichInv, [EnrichNext]_enrichVars
               PROVE  /\ CountsAreEarned'
                      /\ \A p \in RemoteSet : failures[p] # 0 /\ failures'[p] = 0
                           => \E s \in Searches : /\ noting[s] # Idle /\ noting[s].of = p
                                                  /\ noting[s].outcome \in Answers \cup {"unset"}
    OBVIOUS
  <1>0. EnrichTypeOK /\ CountsAreEarned /\ \A s \in Searches : SearchOK(s)
    BY DEF EnrichInv
  <1>1. CASE UNCHANGED noteVars
    BY <1>0, <1>1 DEF CountsAreEarned, noteVars, healthVars
  <1>2. ASSUME NEW s \in Searches, RecordHealth(s)
        PROVE  /\ CountsAreEarned'
               /\ \A p \in RemoteSet : failures[p] # 0 /\ failures'[p] = 0
                    => /\ noting[s] # Idle /\ noting[s].of = p
                       /\ noting[s].outcome \in Answers \cup {"unset"}
    BY <1>0, <1>2, RecordCounts, RemoteAreProviders
  <1>3. ASSUME NEW s \in Searches, NEW p \in RemoteSet, HarvestNext(s, p), ~Cancelled(s)
        PROVE  CountsAreEarned' /\ UNCHANGED failures
    <2>1. future[s][p] \in Outcomes /\ future[s][p] # "void"
      BY <1>0, <1>3 DEF HarvestNext, SearchOK, RecordIsAccounted, CallsAreTrue
    <2>2. UNCHANGED healthVars /\ future[s][p] \notin Errors => future[s][p] \in Answers
      BY <2>1, <1>3 DEF HarvestNext, Outcomes
    <2> QED
      BY <1>0, <1>3, <2>1, <2>2, BeginErrorCounts, BeginSuccessCounts DEF HarvestNext, healthVars
  <1>4. ASSUME NEW s \in Searches, NEW p \in RemoteSet, LateNext(s, p)
        PROVE  CountsAreEarned' /\ UNCHANGED failures
    BY <1>0, <1>4, BeginErrorCounts DEF LateNext, healthVars, Outcomes, Errors
  <1>5. ASSUME NEW p \in RemoteSet, BackoffEnds(p)
        PROVE  CountsAreEarned' /\ UNCHANGED failures
    BY <1>0, <1>5 DEF BackoffEnds, BackoffExpires, LiftPause, CountsAreEarned
  <1>6. CASE \/ UNCHANGED enrichVars
             \/ \E s \in Searches :
                  \/ SetAlarm(s) /\ UNCHANGED <<disk, future, harvest, late, noteVars>>
                  \/ \E k \in SearchKeys : EnrichStart(s, k)
                  \/ \E p \in RemoteSet : CallStarts(s, p) \/ CallReturns(s, p)
                  \/ WaitEnds(s) \/ EnrichEnd(s)
    BY <1>1, <1>6 DEF EnrichStart, CallStarts, CallReturns, WaitEnds, EnrichEnd, enrichVars
  <1>7. ASSUME NEW s \in Searches, NEW p \in RemoteSet, HarvestNext(s, p), Cancelled(s)
        PROVE  UNCHANGED noteVars
    BY <1>7 DEF HarvestNext, noteVars, healthVars
  <1> QED
    BY <1>1, <1>2, <1>3, <1>4, <1>5, <1>6, <1>7 DEF EnrichNext

-----------------------------------------------------------------------------

(* The inductive invariant of the enrichments: every running search has    *)
(* heard or excused the providers it has harvested, and counters of errors *)
(* never run ahead of the errors recorded.                                 *)
THEOREM EnrichInvariant == EnrichSpec => []EnrichInv
  <1>1. EnrichInv /\ [EnrichNext]_enrichVars => EnrichInv'
    BY EnrichTypeStep, SearchesStep, DiskStep, CountsStep DEF EnrichInv
  <1> QED
    BY <1>1, InitEnrichInv, PTL DEF EnrichSpec

(* A remote answer kept on disk has all that the providers know of its     *)
(* key, or says who failed, was late, paused or gave up.                   *)
THEOREM DiskStaysAccounted == EnrichSpec => []DiskIsAccounted
  <1>1. EnrichInv => DiskIsAccounted
    BY DEF EnrichInv
  <1> QED
    BY <1>1, EnrichInvariant, PTL

(* Whatever the unlocked updates of a counter lose, none is gained: a      *)
(* provider is paused only after Threshold recorded errors, and forgiven   *)
(* only for an answer or for a key that is not set.                        *)
THEOREM HealthStaysEarned == EnrichSpec => HealthIsEarned
  <1>1. EnrichInv => \A p \in paused : reported[p] >= Threshold
    BY DEF EnrichInv, CountsAreEarned
  <1>2. EnrichInv /\ [EnrichNext]_enrichVars
          => [\A p \in RemoteSet :
                failures[p] # 0 /\ failures'[p] = 0
                  => \E s \in Searches : noting[s] # Idle /\ noting[s].of = p
                                            /\ noting[s].outcome \in Answers \cup {"unset"}]_enrichVars
    BY CountsStep
  <1> QED
    BY <1>1, <1>2, EnrichInvariant, PTL DEF EnrichSpec, HealthIsEarned

-----------------------------------------------------------------------------
(* The index of China and Hong Kong.                                       *)

AllRecords == {Record(s) : s \in Securities}

MarketNames == {"SH", "SZ", "BJ", "HK"}

Asked == {lists[i] : i \in 1..Len(lists)}

Files == {<<file>> : file \in [records: SUBSET AllRecords, warnings: SUBSET MarketNames, resumed: BOOLEAN]}

IndexTypeOK ==
    /\ buildAt \in {"idle", "lists", "fallback", "write", "validate", "replace"}
    /\ lists \in Seq(MarketNames)
    /\ records \in SUBSET AllRecords
    /\ warnings \in SUBSET MarketNames
    /\ temporary \in {NoFile} \cup Files
    /\ output \in {NoFile} \cup Files
    /\ shipped \in BOOLEAN /\ resumed \in BOOLEAN
    /\ breaks \in Nat

(* Each security is in the records or its list is among those.             *)
SaysWhatItLacks(some, named) == \A s \in Securities : Record(s) \in some \/ Listing[s].market \in named

FileSays(file) == file # NoFile /\ ~file[1].resumed => SaysWhatItLacks(file[1].records, file[1].warnings)

(* Enough for the validation to let it pass.                               *)
Suffices(some) ==
    /\ Cardinality(some) >= LeastRecords
    /\ {Record(s).symbol : s \in CoreSymbols} \subseteq {r.symbol : r \in some}

Gathering == {"lists", "fallback", "write"}

(* A build that took over nothing has asked for each list, or still will.  *)
NothingIsForgotten ==
    /\ buildAt \in Gathering /\ ~resumed => SaysWhatItLacks(records, warnings \cup Asked)
    /\ buildAt \in {"fallback", "write"} => lists = <<>>
    /\ FileSays(temporary) /\ FileSays(output)

(* After one stop the successor of an index that has been removed is at    *)
(* hand, and the build that takes it up gathers no less.                   *)
SuccessorIsKept ==
    /\ output # NoFile => Suffices(output[1].records)
    /\ buildAt = "validate" => temporary # NoFile
    /\ buildAt = "replace" => temporary # NoFile /\ Suffices(temporary[1].records)
    /\ shipped /\ output = NoFile /\ breaks <= 1 =>
         /\ temporary # NoFile /\ Suffices(temporary[1].records)
         /\ breaks = 0 => buildAt = "replace"
         /\ buildAt \in Gathering => Suffices(records)

IndexInv == IndexTypeOK /\ NothingIsForgotten /\ SuccessorIsKept

LEMMA RecordsAreFinite ==
  ASSUME NEW some \in SUBSET AllRecords
  PROVE  IsFiniteSet(some) /\ Cardinality(some) \in Nat
  <1>1. IsFiniteSet(AllRecords)
    <2>1. IsFiniteSet(Securities)
      BY SymbolIndexAssumption
    <2>2. [s \in Securities |-> Record(s)] \in Surjection(Securities, AllRecords)
      BY DEF AllRecords, Surjection
    <2> QED
      BY <2>1, <2>2, FS_Surjection
  <1> QED
    BY <1>1, FS_Subset, FS_CardinalityType

(* What is put over or filled into records is a record, and none is lost.  *)
LEMMA PutHolds ==
  ASSUME NEW target \in SUBSET AllRecords, NEW some \in SUBSET Securities
  PROVE  Put(target, some) = target \cup {Record(s) : s \in some} /\ Put(target, some) \in SUBSET AllRecords
  <1>1. ASSUME NEW r \in target
        PROVE  r \in Put(target, some)
    <2>1. PICK t \in Securities : r = Record(t)
      BY DEF AllRecords
    <2>2. CASE \A s \in some : Record(s).symbol # r.symbol
      BY <2>2 DEF Put
    <2>3. CASE ~ \A s \in some : Record(s).symbol # r.symbol
      <3>1. PICK s \in some : Record(s).symbol = Record(t).symbol
        BY <2>1, <2>3
      <3>2. s = t
        BY <3>1, SymbolsDiffer
      <3> QED
        BY <2>1, <3>2 DEF Put
    <2> QED
      BY <2>2, <2>3
  <1> QED
    BY <1>1 DEF Put, AllRecords

LEMMA FillHolds ==
  ASSUME NEW target \in SUBSET AllRecords, NEW some \in SUBSET Securities
  PROVE  target \subseteq Fill(target, some) /\ Fill(target, some) \in SUBSET AllRecords
  BY DEF Fill, AllRecords

LEMMA MoreSuffices ==
  ASSUME NEW some \in SUBSET AllRecords, NEW all \in SUBSET AllRecords, some \subseteq all, Suffices(some)
  PROVE  Suffices(all)
  <1>1. IsFiniteSet(all) /\ Cardinality(some) \in Nat /\ Cardinality(all) \in Nat
    BY RecordsAreFinite
  <1>2. Cardinality(some) <= Cardinality(all)
    BY <1>1, FS_Subset
  <1>3. Cardinality(all) >= LeastRecords
    BY <1>1, <1>2, SymbolIndexAssumption DEF Suffices
  <1> QED
    BY <1>3 DEF Suffices

LEMMA MoreSays ==
  ASSUME NEW some, NEW all, some \subseteq all, NEW named, SaysWhatItLacks(some, named)
  PROVE  SaysWhatItLacks(all, named)
  BY DEF SaysWhatItLacks

LEMMA FileFacts ==
  ASSUME NEW file \in {NoFile} \cup Files, file # NoFile
  PROVE  /\ file[1].records \in SUBSET AllRecords /\ file[1].warnings \in SUBSET MarketNames
         /\ file[1].resumed \in BOOLEAN
         /\ IsValid(file) <=> Suffices(file[1].records)
  <1>1. PICK f \in [records: SUBSET AllRecords, warnings: SUBSET MarketNames, resumed: BOOLEAN] : file = <<f>>
    BY DEF Files
  <1>2. file[1] = f
    BY <1>1
  <1>3. IsValid(file) <=> Suffices(file[1].records)
    BY DEF IsValid, Suffices
  <1> QED
    BY <1>1, <1>2, <1>3

LEMMA AskedFirst ==
  ASSUME NEW s \in Seq(MarketNames), s # <<>>
  PROVE  /\ Head(s) \in MarketNames /\ Tail(s) \in Seq(MarketNames)
         /\ {s[i] : i \in 1..Len(s)} \subseteq {Head(s)} \cup {Tail(s)[i] : i \in 1..Len(Tail(s))}
  <1>1. Len(s) \in Nat /\ Len(s) # 0
    OBVIOUS
  <1>2. /\ Head(s) = s[1] /\ Head(s) \in MarketNames /\ Tail(s) \in Seq(MarketNames)
        /\ Len(Tail(s)) = Len(s) - 1 /\ \A i \in 1..Len(s) - 1 : Tail(s)[i] = s[i + 1]
    BY <1>1
  <1>3. ASSUME NEW i \in 1..Len(s)
        PROVE  s[i] \in {Head(s)} \cup {Tail(s)[j] : j \in 1..Len(Tail(s))}
    <2>1. CASE i = 1
      BY <1>2, <2>1
    <2>2. CASE i # 1
      <3>1. i - 1 \in 1..Len(Tail(s)) /\ (i - 1) + 1 = i
        BY <1>1, <1>2, <2>2
      <3>2. Tail(s)[i - 1] = s[i]
        BY <1>2, <3>1
      <3> QED
        BY <3>1, <3>2
    <2> QED
      BY <2>1, <2>2
  <1> QED
    BY <1>2, <1>3

(* A step that leaves the files and what is gathered.                      *)
LEMMA IndexStays ==
  ASSUME IndexInv, UNCHANGED <<buildAt, lists, records, warnings, temporary, output, shipped, resumed, breaks>>
  PROVE  IndexInv'
  BY DEF IndexInv, IndexTypeOK, NothingIsForgotten, SuccessorIsKept, Asked, FileSays

LEMMA InitIndexInv == IndexInit => IndexInv
  <1> SUFFICES ASSUME IndexInit
               PROVE  IndexInv
    OBVIOUS
  <1>1. IndexTypeOK
    <2>1. <<>> \in Seq(MarketNames)
      OBVIOUS
    <2> QED
      BY <2>1 DEF IndexInit, IndexTypeOK
  <1> QED
    BY <1>1 DEF IndexInit, IndexInv, NothingIsForgotten, SuccessorIsKept, FileSays, Gathering

LEMMA BuildStartsStep ==
  ASSUME IndexInv, BuildStarts
  PROVE  IndexInv'
  <1> DEFINE left == IF temporary = NoFile THEN {} ELSE temporary[1].records
  <1>1. /\ buildAt = "idle" /\ buildAt' = "lists" /\ records' = left /\ resumed' = (left # {})
        /\ lists' = (IF left # {} THEN <<>> ELSE Markets) /\ warnings' = {}
        /\ UNCHANGED <<temporary, output, shipped, breaks>>
    BY DEF BuildStarts
  <1>2. left \in SUBSET AllRecords
    BY FileFacts DEF IndexInv, IndexTypeOK
  <1>3. Markets \in Seq(MarketNames) /\ <<>> \in Seq(MarketNames)
    BY DEF Markets, MarketNames
  <1>4. IndexTypeOK'
    BY <1>1, <1>2, <1>3 DEF IndexInv, IndexTypeOK
  <1>5. ~resumed' => SaysWhatItLacks(records', warnings' \cup Asked')
    <2> SUFFICES ASSUME ~resumed', NEW s \in Securities
                 PROVE  Listing[s].market \in Asked'
      BY DEF SaysWhatItLacks
    <2>1. lists' = <<"SH", "SZ", "BJ", "HK">>
      BY <1>1 DEF Markets
    <2>2. Asked' = {"SH", "SZ", "BJ", "HK"}
      <3>1. Len(lists') = 4 /\ lists'[1] = "SH" /\ lists'[2] = "SZ" /\ lists'[3] = "BJ" /\ lists'[4] = "HK"
        BY <2>1
      <3> QED
        BY <3>1 DEF Asked
    <2> QED
      BY <2>2, SymbolIndexAssumption
  <1>6. NothingIsForgotten'
    BY <1>1, <1>5 DEF IndexInv, NothingIsForgotten, FileSays
  <1>7. shipped /\ output = NoFile /\ breaks <= 1 => Suffices(left)
    BY <1>1 DEF IndexInv, SuccessorIsKept
  <1>8. SuccessorIsKept'
    BY <1>1, <1>7 DEF IndexInv, SuccessorIsKept
  <1> QED
    BY <1>4, <1>6, <1>8 DEF IndexInv

(* Records grow, and none that was on its way is forgotten.                *)
LEMMA MoreIsGathered ==
  ASSUME IndexInv, buildAt \in Gathering, buildAt' \in Gathering, records \subseteq records',
         records' \in SUBSET AllRecords, lists' \in Seq(MarketNames), warnings' \in SUBSET MarketNames,
         ~resumed => SaysWhatItLacks(records', warnings' \cup Asked'),
         buildAt' \in {"fallback", "write"} => lists' = <<>>,
         UNCHANGED <<temporary, output, shipped, resumed, breaks>>
  PROVE  IndexInv'
  <1>1. IndexTypeOK'
    BY DEF IndexInv, IndexTypeOK, Gathering
  <1>2. NothingIsForgotten'
    BY DEF IndexInv, NothingIsForgotten, FileSays
  <1>3. Suffices(records) => Suffices(records')
    BY MoreSuffices DEF IndexInv, IndexTypeOK
  <1>4. SuccessorIsKept'
    BY <1>3 DEF IndexInv, SuccessorIsKept, Gathering
  <1> QED
    BY <1>1, <1>2, <1>4 DEF IndexInv

LEMMA AskListStep ==
  ASSUME IndexInv, AskList
  PROVE  IndexInv'
  <1> DEFINE market == Head(lists)
  <1>1. /\ buildAt = "lists" /\ buildAt' = "lists" /\ lists # <<>> /\ lists' = Tail(lists)
        /\ UNCHANGED <<temporary, output, shipped, resumed, breaks>>
        /\ \/ records' = Put(records, ListedIn(market)) /\ warnings' = warnings
           \/ warnings' = warnings \cup {market} /\ records' = records
    BY DEF AskList
  <1>2. market \in MarketNames /\ lists' \in Seq(MarketNames) /\ Asked \subseteq {market} \cup Asked'
    <2>1. lists \in Seq(MarketNames)
      BY DEF IndexInv, IndexTypeOK
    <2>2. Asked' = {Tail(lists)[i] : i \in 1..Len(Tail(lists))}
      BY <1>1 DEF Asked
    <2> QED
      BY <1>1, <2>1, <2>2, AskedFirst DEF Asked
  <1> HIDE DEF market
  <1>3. records \in SUBSET AllRecords /\ warnings \in SUBSET MarketNames
    BY DEF IndexInv, IndexTypeOK
  <1>4. ListedIn(market) \in SUBSET Securities
    BY DEF ListedIn
  <1>5. /\ Put(records, ListedIn(market)) \in SUBSET AllRecords
        /\ Put(records, ListedIn(market)) = records \cup {Record(s) : s \in ListedIn(market)}
    BY <1>3, <1>4, PutHolds
  <1>6. records \subseteq records' /\ records' \in SUBSET AllRecords /\ warnings' \in SUBSET MarketNames
    BY <1>1, <1>2, <1>3, <1>5
  <1>7. ASSUME ~resumed
        PROVE  SaysWhatItLacks(records', warnings' \cup Asked')
    <2>1. SaysWhatItLacks(records, warnings \cup Asked)
      BY <1>1, <1>7 DEF IndexInv, NothingIsForgotten, Gathering
    <2> SUFFICES ASSUME NEW s \in Securities
                 PROVE  Record(s) \in records' \/ Listing[s].market \in warnings' \cup Asked'
      BY DEF SaysWhatItLacks
    <2>2. Record(s) \in records \/ Listing[s].market \in warnings \cup Asked
      BY <2>1 DEF SaysWhatItLacks
    <2>3. Listing[s].market = market => Record(s) \in records' \/ market \in warnings'
      BY <1>1, <1>5 DEF ListedIn
    <2> QED
      BY <1>1, <1>2, <1>6, <2>2, <2>3
  <1> QED
    BY <1>1, <1>2, <1>6, <1>7, MoreIsGathered DEF Gathering

LEMMA AskCoreProfilesStep ==
  ASSUME IndexInv, AskCoreProfiles
  PROVE  IndexInv'
  <1>1. PICK answered \in SUBSET Securities : records' = Put(records, answered)
    BY SymbolIndexAssumption DEF AskCoreProfiles
  <1>2. /\ buildAt = "lists" /\ buildAt' = "fallback" /\ lists = <<>>
        /\ UNCHANGED <<lists, warnings, temporary, output, shipped, resumed, breaks>>
    BY DEF AskCoreProfiles
  <1>3. records \subseteq records' /\ records' \in SUBSET AllRecords
    BY <1>1, PutHolds DEF IndexInv, IndexTypeOK
  <1>4. ~resumed => SaysWhatItLacks(records', warnings' \cup Asked')
    <2>1. Asked' = Asked
      BY <1>2 DEF Asked
    <2> QED
      BY <1>2, <1>3, <2>1, MoreSays DEF IndexInv, NothingIsForgotten, Gathering
  <1> QED
    BY <1>2, <1>3, <1>4, MoreIsGathered DEF Gathering, IndexInv, IndexTypeOK

LEMMA ScriptEndsStep ==
  ASSUME IndexInv, ScriptEnds, shipped' \in BOOLEAN, resumed' \in BOOLEAN, breaks' \in Nat,
         temporary' \in {NoFile, temporary}, output' \in {output, temporary},
         output' # NoFile => Suffices(output'[1].records),
         shipped' /\ output' = NoFile /\ breaks' <= 1 =>
           temporary' # NoFile /\ Suffices(temporary'[1].records) /\ breaks' # 0
  PROVE  IndexInv'
  <1>1. IndexTypeOK'
    BY DEF IndexInv, IndexTypeOK, ScriptEnds
  <1>2. NothingIsForgotten'
    BY DEF IndexInv, NothingIsForgotten, ScriptEnds, Gathering, FileSays
  <1>3. SuccessorIsKept'
    BY DEF SuccessorIsKept, ScriptEnds, Gathering
  <1> QED
    BY <1>1, <1>2, <1>3 DEF IndexInv

LEMMA FallBackStep ==
  ASSUME IndexInv, FallBack
  PROVE  IndexInv'
  <1>1. PICK fresh \in {{}, InUniverse}, bundled \in {{}, InUniverse} :
          LET all == Fill(Fill(records, IF records = {} THEN fresh ELSE {}), bundled) IN
          IF all = {} THEN ScriptEnds ELSE records' = all /\ buildAt' = "write" /\ UNCHANGED <<lists, warnings>>
    BY DEF FallBack
  <1>2. buildAt = "fallback" /\ UNCHANGED <<temporary, output, shipped, resumed, breaks>>
    BY DEF FallBack
  <1> DEFINE some == IF records = {} THEN fresh ELSE {}
             first == Fill(records, some)
             all == Fill(first, bundled)
  <1>3. some \in SUBSET Securities /\ bundled \in SUBSET Securities
    BY SymbolIndexAssumption
  <1>4. records \subseteq first /\ first \in SUBSET AllRecords
    BY <1>3, FillHolds DEF IndexInv, IndexTypeOK
  <1> HIDE DEF first
  <1>5. first \subseteq all /\ all \in SUBSET AllRecords
    BY <1>3, <1>4, FillHolds
  <1>6. IF all = {} THEN ScriptEnds ELSE records' = all /\ buildAt' = "write" /\ UNCHANGED <<lists, warnings>>
    BY <1>1 DEF first
  <1> HIDE DEF all
  <1>7. CASE ScriptEnds
    <2>1. shipped /\ output = NoFile /\ breaks <= 1 =>
            temporary # NoFile /\ Suffices(temporary[1].records) /\ breaks # 0
      BY <1>2 DEF IndexInv, SuccessorIsKept
    <2>2. output # NoFile => Suffices(output[1].records)
      BY DEF IndexInv, SuccessorIsKept
    <2>3. shipped \in BOOLEAN /\ resumed \in BOOLEAN /\ breaks \in Nat
      BY DEF IndexInv, IndexTypeOK
    <2> QED
      BY <1>2, <1>7, <2>1, <2>2, <2>3, ScriptEndsStep
  <1>8. CASE records' = all /\ buildAt' = "write" /\ UNCHANGED <<lists, warnings>>
    <2>1. records \subseteq records' /\ records' \in SUBSET AllRecords
      BY <1>4, <1>5, <1>8
    <2>2. Asked' = Asked
      BY <1>8 DEF Asked
    <2>3. ~resumed => SaysWhatItLacks(records', warnings' \cup Asked')
      BY <1>2, <1>8, <2>1, <2>2, MoreSays DEF IndexInv, NothingIsForgotten, Gathering
    <2>4. lists = <<>> /\ lists \in Seq(MarketNames) /\ warnings \in SUBSET MarketNames
      BY <1>2 DEF IndexInv, NothingIsForgotten, IndexTypeOK
    <2> QED
      BY <1>2, <1>8, <2>1, <2>3, <2>4, MoreIsGathered DEF Gathering
  <1> QED
    BY <1>6, <1>7, <1>8

LEMMA WriteDatabaseStep ==
  ASSUME IndexInv, WriteDatabase
  PROVE  IndexInv'
  <1> DEFINE file == [records |-> records, warnings |-> warnings, resumed |-> resumed]
  <1>1. /\ buildAt = "write" /\ buildAt' = "validate" /\ temporary' = <<file>>
        /\ UNCHANGED <<lists, records, warnings, output, shipped, resumed, breaks>>
    BY DEF WriteDatabase
  <1>2. file \in [records: SUBSET AllRecords, warnings: SUBSET MarketNames, resumed: BOOLEAN]
    BY DEF IndexInv, IndexTypeOK
  <1>3. /\ temporary' \in Files /\ temporary' # NoFile /\ temporary'[1].records = records
        /\ temporary'[1].warnings = warnings /\ temporary'[1].resumed = resumed
    <2>1. <<file>> # <<>> /\ <<file>>[1] = file
      OBVIOUS
    <2>2. file.records = records /\ file.warnings = warnings /\ file.resumed = resumed
      OBVIOUS
    <2> HIDE DEF file
    <2> QED
      BY <1>1, <1>2, <2>1, <2>2 DEF Files, NoFile
  <1> HIDE DEF file
  <1>4. IndexTypeOK'
    BY <1>1, <1>3 DEF IndexInv, IndexTypeOK
  <1>5. ~resumed => SaysWhatItLacks(records, warnings)
    <2>1. Asked = {}
      <3>1. Len(lists) = 0
        BY <1>1 DEF IndexInv, NothingIsForgotten
      <3> QED
        BY <3>1 DEF Asked
    <2>2. warnings \cup Asked = warnings
      BY <2>1
    <2> QED
      BY <1>1, <2>2 DEF IndexInv, NothingIsForgotten, Gathering
  <1>6. FileSays(temporary') /\ FileSays(output')
    <2>1. FileSays(temporary')
      BY <1>3, <1>5 DEF FileSays
    <2> QED
      BY <1>1, <2>1 DEF IndexInv, NothingIsForgotten
  <1>7. NothingIsForgotten'
    BY <1>1, <1>6 DEF NothingIsForgotten, FileSays, Gathering
  <1>8. SuccessorIsKept'
    BY <1>1, <1>3 DEF IndexInv, SuccessorIsKept, Gathering
  <1> QED
    BY <1>4, <1>7, <1>8 DEF IndexInv

LEMMA ValidateExistingStep ==
  ASSUME IndexInv, ValidateExisting
  PROVE  IndexInv'
  <1>1. buildAt = "validate" /\ temporary # NoFile /\ UNCHANGED <<temporary, shipped, resumed, breaks>>
    BY DEF ValidateExisting, IndexInv, SuccessorIsKept
  <1>2. temporary \in {NoFile} \cup Files /\ shipped \in BOOLEAN /\ resumed \in BOOLEAN /\ breaks \in Nat
    BY DEF IndexInv, IndexTypeOK
  <1>3. CASE IsValid(temporary) /\ output' = NoFile /\ buildAt' = "replace" /\ UNCHANGED <<lists, records, warnings>>
    <2>1. Suffices(temporary[1].records)
      BY <1>1, <1>2, <1>3, FileFacts
    <2>2. IndexTypeOK'
      BY <1>1, <1>3 DEF IndexInv, IndexTypeOK
    <2>3. NothingIsForgotten'
      BY <1>1, <1>3 DEF IndexInv, NothingIsForgotten, FileSays, Gathering
    <2>4. SuccessorIsKept'
      BY <1>1, <1>3, <2>1 DEF SuccessorIsKept, Gathering
    <2> QED
      BY <2>2, <2>3, <2>4 DEF IndexInv
  <1>4. CASE ScriptEnds /\ UNCHANGED output
    <2>1. shipped /\ output = NoFile /\ breaks <= 1 => Suffices(temporary[1].records) /\ breaks # 0
      BY <1>1 DEF IndexInv, SuccessorIsKept
    <2>2. output # NoFile => Suffices(output[1].records)
      BY DEF IndexInv, SuccessorIsKept
    <2> QED
      BY <1>1, <1>2, <1>4, <2>1, <2>2, ScriptEndsStep
  <1> QED
    BY <1>3, <1>4 DEF ValidateExisting

LEMMA ReplaceStep ==
  ASSUME IndexInv, Replace
  PROVE  IndexInv'
  <1>1. /\ output' = temporary /\ temporary' = NoFile /\ shipped' = TRUE /\ ScriptEnds
        /\ UNCHANGED <<resumed, breaks>>
    BY DEF Replace
  <1>2. temporary # NoFile /\ Suffices(temporary[1].records)
    BY DEF Replace, IndexInv, SuccessorIsKept
  <1>3. resumed \in BOOLEAN /\ breaks \in Nat
    BY DEF IndexInv, IndexTypeOK
  <1> QED
    BY <1>1, <1>2, <1>3, ScriptEndsStep

LEMMA BuildBreaksStep ==
  ASSUME IndexInv, BuildBreaks
  PROVE  IndexInv'
  <1>1. /\ buildAt # "idle" /\ breaks' = breaks + 1 /\ ScriptEnds /\ UNCHANGED <<output, shipped, resumed>>
        /\ temporary' = temporary \/ (buildAt = "write" /\ temporary' = NoFile)
    BY DEF BuildBreaks
  <1>2. shipped \in BOOLEAN /\ resumed \in BOOLEAN /\ breaks \in Nat /\ breaks' \in Nat /\ breaks' # 0
    BY <1>1 DEF IndexInv, IndexTypeOK
  <1>3. output # NoFile => Suffices(output[1].records)
    BY DEF IndexInv, SuccessorIsKept
  (* Within the first stop the index is only gone between its removal and  *)
  (* its replacement.                                                      *)
  <1>4. ASSUME shipped, output = NoFile, breaks' <= 1
        PROVE  temporary' # NoFile /\ Suffices(temporary'[1].records)
    <2>1. breaks = 0
      BY <1>1, <1>2, <1>4
    <2> QED
      BY <1>1, <1>4, <2>1 DEF IndexInv, SuccessorIsKept
  <1> QED
    BY <1>1, <1>2, <1>3, <1>4, ScriptEndsStep

LEMMA NextIndexInv ==
  ASSUME IndexInv, [IndexNext]_indexVars
  PROVE  IndexInv'
  <1>1. CASE LookUp
    BY <1>1, IndexStays DEF LookUp
  <1>2. CASE UNCHANGED indexVars
    BY <1>2, IndexStays DEF indexVars
  <1> QED
    BY <1>1, <1>2, BuildStartsStep, AskListStep, AskCoreProfilesStep, FallBackStep, WriteDatabaseStep,
       ValidateExistingStep, ReplaceStep, BuildBreaksStep DEF IndexNext

(* The invariant, of which the lists, files and counters having their      *)
(* types is a part.                                                        *)
THEOREM IndexInvariant == IndexSpec => []IndexInv
  <1>1. IndexInit => IndexInv
    BY InitIndexInv
  <1>2. IndexInv /\ [IndexNext]_indexVars => IndexInv'
    BY NextIndexInv
  <1> QED
    BY <1>1, <1>2, PTL DEF IndexSpec

(* An index built in one go has each security or names the list that could *)
(* not be had; and a stop anywhere in build_china_hk_symbol_index.py       *)
(* leaves an index that passes the validation, under its own name or as    *)
(* the temporary file, whatever the exchanges list and however many builds *)
(* there are.                                                              *)
THEOREM IndexStaysHonest == IndexSpec => []IndexSaysWhatItLacks
  <1>1. IndexInv => IndexSaysWhatItLacks
    <2> SUFFICES ASSUME IndexInv
                 PROVE  IndexSaysWhatItLacks
      OBVIOUS
    <2>1. output \in {NoFile} \cup Files /\ temporary \in {NoFile} \cup Files /\ breaks \in Nat
      BY DEF IndexInv, IndexTypeOK
    <2>2. ASSUME output # NoFile, ~output[1].resumed, NEW s \in Securities
          PROVE  \/ \E r \in output[1].records : r.of = s
                 \/ Listing[s].market \in output[1].warnings
      <3>1. Record(s) \in output[1].records \/ Listing[s].market \in output[1].warnings
        BY <2>2 DEF IndexInv, NothingIsForgotten, FileSays, SaysWhatItLacks
      <3>2. Record(s).of = s
        BY DEF Record
      <3> QED
        BY <3>1, <3>2
    <2>3. ASSUME shipped, breaks <= 1
          PROVE  \E file \in {output, temporary} \ {NoFile} : IsValid(file)
      <3>1. CASE output # NoFile
        BY <2>1, <3>1, FileFacts DEF IndexInv, SuccessorIsKept
      <3>2. CASE output = NoFile
        <4>1. temporary # NoFile /\ Suffices(temporary[1].records)
          BY <2>3, <3>2 DEF IndexInv, SuccessorIsKept
        <4> QED
          BY <2>1, <4>1, FileFacts
      <3> QED
        BY <3>1, <3>2
    <2> QED
      BY <2>2, <2>3 DEF IndexSaysWhatItLacks
  <1> QED
    BY <1>1, IndexInvariant, PTL

-----------------------------------------------------------------------------
(* Spellings.                                                              *)

(* Numbers: what padding and stripping do to digits.                       *)
Told(d) == {i \in DOMAIN d : d[i] # 0}

LEMMA ToldIs ==
  ASSUME NEW d \in Seq(0..9), Told(d) # {}
  PROVE  /\ Len(d) \in Nat /\ DOMAIN d = 1..Len(d)
         /\ Min(Told(d)) \in 1..Len(d) /\ d[Min(Told(d))] # 0
         /\ \A i \in Told(d) : Min(Told(d)) <= i
         /\ \A i \in 1..Min(Told(d)) - 1 : d[i] = 0
         /\ Stripped(d) = SubSeq(d, Min(Told(d)), Len(d))
  <1>1. Len(d) \in Nat /\ DOMAIN d = 1..Len(d)
    OBVIOUS
  <1>2. Told(d) \in SUBSET Nat
    BY <1>1 DEF Told
  <1>3. Min(Told(d)) \in Told(d) /\ \A i \in Told(d) : Min(Told(d)) <= i
    BY <1>2, LeastOfSet
  <1>4. Stripped(d) = SubSeq(d, Min(Told(d)), Len(d))
    BY DEF Stripped, Told
  <1> DEFINE m == Min(Told(d))
  <1> HIDE DEF m
  <1>5. m \in 1..Len(d) /\ d[m] # 0
    BY <1>1, <1>3 DEF Told, m
  <1>6. ASSUME NEW i \in 1..m - 1
        PROVE  d[i] = 0
    <2>1. i \in DOMAIN d /\ ~(m <= i)
      BY <1>1, <1>5
    <2> QED
      BY <1>3, <2>1 DEF Told, m
  <1> QED
    BY <1>1, <1>3, <1>4, <1>5, <1>6 DEF m

(* Zeros in front make no difference once they are stripped.               *)
LEMMA StripZeros ==
  ASSUME NEW d \in Seq(0..9), Told(d) # {}, NEW k \in Nat, NEW x \in Seq(0..9), Len(x) = k + Len(d),
         \A i \in 1..k : x[i] = 0, \A i \in 1..Len(d) : x[k + i] = d[i]
  PROVE  Stripped(x) = Stripped(d) /\ Told(x) # {}
  <1> DEFINE m == Min(Told(d))
             n == Min(Told(x))
  <1>0. /\ Len(d) \in Nat /\ Len(x) \in Nat /\ DOMAIN d = 1..Len(d) /\ DOMAIN x = 1..Len(x)
        /\ m \in 1..Len(d) /\ d[m] # 0 /\ \A i \in Told(d) : m <= i
        /\ Stripped(d) = SubSeq(d, m, Len(d))
    BY ToldIs
  <1> HIDE DEF m
  <1>1. k + m \in Told(x)
    <2>1. k + m \in 1..Len(x) /\ x[k + m] = d[m]
      BY <1>0
    <2> QED
      BY <1>0, <2>1 DEF Told
  <1>2. Told(x) # {}
    BY <1>1
  <1>3. /\ n \in 1..Len(x) /\ x[n] # 0 /\ \A i \in Told(x) : n <= i
        /\ Stripped(x) = SubSeq(x, n, Len(x))
    BY <1>2, ToldIs
  <1> HIDE DEF n
  <1>4. n = k + m
    <2>1. n <= k + m
      BY <1>1, <1>3
    <2>2. n \notin 1..k
      BY <1>3
    <2>3. n - k \in 1..Len(d) /\ k + (n - k) = n
      BY <1>0, <1>3, <2>2
    <2>4. n - k \in Told(d)
      BY <1>0, <1>3, <2>3 DEF Told
    <2> QED
      BY <1>0, <1>3, <2>1, <2>3, <2>4
  <1>5. SubSeq(x, k + m, k + Len(d)) = SubSeq(d, m, Len(d))
    <2> DEFINE l == SubSeq(x, k + m, k + Len(d))
               r == SubSeq(d, m, Len(d))
    <2>1. /\ \A i \in k + m..k + Len(d) : x[i] \in 0..9
          /\ \A i \in m..Len(d) : d[i] \in 0..9
      BY <1>0
    <2>2. /\ l \in Seq(0..9)
          /\ Len(l) = IF k + m <= k + Len(d) THEN (k + Len(d)) - (k + m) + 1 ELSE 0
          /\ \A i \in 1..(k + Len(d)) - (k + m) + 1 : l[i] = x[(k + m) + i - 1]
      BY <1>0, <2>1, SubSeqProperties
    <2>3. /\ r \in Seq(0..9)
          /\ Len(r) = IF m <= Len(d) THEN Len(d) - m + 1 ELSE 0
          /\ \A i \in 1..Len(d) - m + 1 : r[i] = d[m + i - 1]
      BY <1>0, <2>1, SubSeqProperties
    <2> HIDE DEF l, r
    <2>4. Len(l) = Len(d) - m + 1 /\ Len(r) = Len(d) - m + 1
      BY <1>0, <2>2, <2>3
    <2>5. ASSUME NEW i \in 1..Len(d) - m + 1
          PROVE  l[i] = r[i]
      <3>1. m + i - 1 \in 1..Len(d) /\ (k + m) + i - 1 = k + (m + i - 1) /\ i \in 1..(k + Len(d)) - (k + m) + 1
        BY <1>0
      <3> QED
        BY <2>2, <2>3, <3>1
    <2>6. l = r
      BY <2>2, <2>3, <2>4, <2>5, SeqEqual
    <2> QED
      BY <2>6 DEF l, r
  <1> QED
    BY <1>0, <1>2, <1>3, <1>4, <1>5

LEMMA PaddedIs ==
  ASSUME NEW d \in Seq(0..9), NEW n \in Nat
  PROVE  \E k \in Nat : /\ k = IF Len(d) < n THEN n - Len(d) ELSE 0
                        /\ Padded(d, n) \in Seq(0..9) /\ Len(Padded(d, n)) = k + Len(d)
                        /\ \A i \in 1..k : Padded(d, n)[i] = 0
                        /\ \A i \in 1..Len(d) : Padded(d, n)[k + i] = d[i]
  <1> DEFINE k == IF Len(d) < n THEN n - Len(d) ELSE 0
             zeros == [i \in 1..(n - Len(d)) |-> 0]
             x == zeros \o d
  <1>1. Len(d) \in Nat
    OBVIOUS
  <1>2. k \in Nat /\ 1..(n - Len(d)) = 1..k
    BY <1>1
  <1> HIDE DEF k
  <1>3. zeros \in [1..k -> 0..9]
    BY <1>2
  <1>4. zeros \in Seq(0..9) /\ Len(zeros) = k /\ \A i \in 1..k : zeros[i] = 0
    <2>1. zeros \in Seq(0..9)
      BY <1>2, <1>3, SeqDef
    <2>2. DOMAIN zeros = 1..k
      BY <1>3
    <2>3. Len(zeros) = k
      <3>1. Len(zeros) \in Nat /\ 1..Len(zeros) = 1..k
        BY <2>1, <2>2, LenProperties
      <3>2. \A a, b \in Nat : 1..a = 1..b => a <= b
        <4> SUFFICES ASSUME NEW a \in Nat, NEW b \in Nat, 1..a = 1..b, ~(a <= b)
                     PROVE  FALSE
          OBVIOUS
        <4>1. a \in 1..a /\ a \notin 1..b
          OBVIOUS
        <4> QED
          BY <4>1
      <3>3. Len(zeros) <= k /\ k <= Len(zeros)
        BY <1>2, <3>1, <3>2
      <3> DEFINE len == Len(zeros)
      <3> HIDE DEF len
      <3>4. len \in Nat /\ len <= k /\ k <= len
        BY <3>1, <3>3 DEF len
      <3>5. len = k
        BY ONLY <1>2, <3>4
      <3> QED
        BY <3>5 DEF len
    <2> QED
      BY <1>2, <2>1, <2>3
  <1>5. Padded(d, n) = x
    BY DEF Padded
  <1> HIDE DEF zeros
  <1>6. /\ x \in Seq(0..9) /\ Len(x) = Len(zeros) + Len(d)
        /\ \A i \in 1..Len(zeros) + Len(d) : x[i] = IF i <= Len(zeros) THEN zeros[i] ELSE d[i - Len(zeros)]
    BY <1>4, ConcatProperties
  <1> HIDE DEF x
  <1>7. \A i \in 1..k : x[i] = 0
    BY <1>1, <1>2, <1>4, <1>6
  <1>8. ASSUME NEW i \in 1..Len(d)
        PROVE  x[k + i] = d[i]
    <2>1. k + i \in 1..k + Len(d) /\ ~(k + i <= k) /\ (k + i) - k = i
      BY <1>1, <1>2
    <2> QED
      BY <1>4, <1>6, <2>1
  <1>9. k = IF Len(d) < n THEN n - Len(d) ELSE 0
    BY DEF k
  <1> QED
    BY <1>2, <1>4, <1>5, <1>6, <1>7, <1>8, <1>9

LEMMA StrippedPadded ==
  ASSUME NEW d \in Seq(0..9), Told(d) # {}, NEW n \in Nat
  PROVE  Padded(d, n) \in Seq(0..9) /\ Told(Padded(d, n)) # {} /\ Stripped(Padded(d, n)) = Stripped(d)
  <1>1. PICK k \in Nat : /\ Padded(d, n) \in Seq(0..9) /\ Len(Padded(d, n)) = k + Len(d)
                         /\ \A i \in 1..k : Padded(d, n)[i] = 0
                         /\ \A i \in 1..Len(d) : Padded(d, n)[k + i] = d[i]
    BY PaddedIs
  <1> QED
    BY <1>1, StripZeros

LEMMA LongEnough ==
  ASSUME NEW d \in Seq(0..9), NEW n \in Nat, n <= Len(d)
  PROVE  Padded(d, n) = d
  <1>1. PICK k \in Nat : /\ k = IF Len(d) < n THEN n - Len(d) ELSE 0
                         /\ Padded(d, n) \in Seq(0..9) /\ Len(Padded(d, n)) = k + Len(d)
                         /\ \A i \in 1..Len(d) : Padded(d, n)[k + i] = d[i]
    BY PaddedIs
  <1>2. Len(d) \in Nat /\ k = 0
    BY <1>1
  <1>3. Len(Padded(d, n)) = Len(d) /\ \A i \in 1..Len(d) : Padded(d, n)[i] = d[i]
    BY <1>1, <1>2
  <1> QED
    BY <1>1, <1>3, SeqEqual

LEMMA StrippedIs ==
  ASSUME NEW d \in Seq(0..9), Told(d) # {}
  PROVE  /\ Stripped(d) \in Seq(0..9) /\ Told(Stripped(d)) # {}
         /\ Len(Stripped(d)) \in Nat /\ Len(Stripped(d)) <= Len(d)
         /\ Stripped(Stripped(d)) = Stripped(d)
         /\ Padded(Stripped(d), Len(d)) = d
  <1> DEFINE m == Min(Told(d))
             e == Stripped(d)
  <1>0. /\ Len(d) \in Nat /\ DOMAIN d = 1..Len(d)
        /\ m \in 1..Len(d) /\ d[m] # 0 /\ \A i \in 1..m - 1 : d[i] = 0
        /\ e = SubSeq(d, m, Len(d))
    BY ToldIs
  <1> HIDE DEF m, e
  <1>1. /\ e \in Seq(0..9)
        /\ Len(e) = Len(d) - m + 1
        /\ \A i \in 1..Len(d) - m + 1 : e[i] = d[m + i - 1]
    <2>1. \A i \in m..Len(d) : d[i] \in 0..9
      BY <1>0
    <2>2. /\ e \in Seq(0..9)
          /\ Len(e) = IF m <= Len(d) THEN Len(d) - m + 1 ELSE 0
          /\ \A i \in 1..Len(d) - m + 1 : e[i] = d[m + i - 1]
      BY <1>0, <2>1, SubSeqProperties
    <2> QED
      BY <1>0, <2>2
  <1> DEFINE k == m - 1
  <1>2. k \in Nat /\ Len(e) \in Nat /\ Len(d) = k + Len(e) /\ Len(e) <= Len(d)
    BY <1>0, <1>1
  <1>3. \A i \in 1..Len(e) : d[k + i] = e[i]
    <2>1. \A i \in 1..Len(e) : k + i = m + i - 1
      BY <1>0
    <2> QED
      BY <1>1, <2>1
  <1>4. e[1] # 0 /\ 1 \in 1..Len(e) /\ DOMAIN e = 1..Len(e)
    <2>1. 1 \in 1..Len(d) - m + 1 /\ m + 1 - 1 = m
      BY <1>0
    <2> QED
      BY <1>0, <1>1, <2>1
  <1>5. Told(e) # {}
    BY <1>4 DEF Told
  <1>6. \A i \in 1..k : d[i] = 0
    BY <1>0
  <1> HIDE DEF k
  <1>7. Stripped(d) = Stripped(e)
    BY <1>1, <1>2, <1>3, <1>5, <1>6, StripZeros
  <1>8. Padded(e, Len(d)) = d
    <2>1. PICK j \in Nat : /\ j = IF Len(e) < Len(d) THEN Len(d) - Len(e) ELSE 0
                           /\ Padded(e, Len(d)) \in Seq(0..9) /\ Len(Padded(e, Len(d))) = j + Len(e)
                           /\ \A i \in 1..j : Padded(e, Len(d))[i] = 0
                           /\ \A i \in 1..Len(e) : Padded(e, Len(d))[j + i] = e[i]
      BY <1>0, <1>1, PaddedIs
    <2>2. j = k
      BY <1>2, <2>1
    <2> DEFINE x == Padded(e, Len(d))
    <2> HIDE DEF x
    <2>3. x \in Seq(0..9) /\ Len(x) = Len(d)
      BY <1>2, <2>1, <2>2 DEF x
    <2>4. ASSUME NEW i \in 1..Len(d)
          PROVE  x[i] = d[i]
      <3>1. CASE i \in 1..k
        BY <1>6, <2>1, <2>2, <3>1 DEF x
      <3>2. CASE i \notin 1..k
        <4>1. i - k \in 1..Len(e) /\ k + (i - k) = i
          BY <1>2, <3>2
        <4> QED
          BY <1>3, <2>1, <2>2, <4>1 DEF x
      <3> QED
        BY <3>1, <3>2
    <2>5. x = d
      BY <2>3, <2>4, SeqEqual
    <2> QED
      BY <2>5 DEF x
  <1> QED
    BY <1>1, <1>2, <1>5, <1>7, <1>8 DEF e

(* What the exchanges list, by its number.                                 *)
NumberOf(s) == Listing[s].digits

LEMMA NumbersAre ==
  ASSUME NEW s \in Securities
  PROVE  /\ NumberOf(s) \in Seq(0..9) /\ Told(NumberOf(s)) # {}
         /\ Listing[s].market \in {"SH", "SZ", "BJ", "HK"}
         /\ Len(NumberOf(s)) = IF Listing[s].market = "HK" THEN 5 ELSE 6
         /\ Listing[s].market = "SH" => Head(NumberOf(s)) \in {5, 6, 9}
         /\ Listing[s].market = "SZ" => Head(NumberOf(s)) \in {0, 2, 3}
         /\ Listing[s].market = "BJ" => Head(NumberOf(s)) \in {4, 8, 9}
         /\ s \in InUniverse => Listing[s].market # "BJ"
  <1>1. NumberOf(s) \in Seq(0..9) /\ Listing[s].market \in {"SH", "SZ", "BJ", "HK"}
    BY SymbolIndexAssumption DEF NumberOf
  <1>2. Told(NumberOf(s)) # {}
    BY NumbersAssumption DEF NumberOf, Told
  <1>3. s \in InUniverse => Listing[s].market # "BJ"
    BY SymbolIndexAssumption
  <1> QED
    BY <1>1, <1>2, <1>3, NumbersAssumption DEF NumberOf

(* The symbol a record is filed under: not always the market's own.        *)
LEMMA RecordIs ==
  ASSUME NEW s \in Securities
  PROVE  /\ Record(s).of = s
         /\ Record(s).symbol \in {<<"HK", NumberOf(s)>>, <<"BJ", NumberOf(s)>>, <<"SH", NumberOf(s)>>,
                                  <<"SZ", NumberOf(s)>>}
         /\ Listing[s].market = "HK" <=> Record(s).symbol = <<"HK", NumberOf(s)>>
         /\ Listing[s].market # "HK" /\ Head(NumberOf(s)) \in {4, 8, 9} => Record(s).symbol = <<"BJ", NumberOf(s)>>
  <1> DEFINE d == NumberOf(s)
             text == Text("", "", d, "")
             hint == Listing[s].market
  <1>0. /\ d \in Seq(0..9) /\ hint \in {"SH", "SZ", "BJ", "HK"} /\ Len(d) = IF hint = "HK" THEN 5 ELSE 6
        /\ hint = "SH" => Head(d) \in {5, 6, 9}
        /\ hint = "SZ" => Head(d) \in {0, 2, 3}
        /\ hint = "BJ" => Head(d) \in {4, 8, 9}
    BY NumbersAre
  <1>1. Record(s) = [symbol |-> NormalizeChinaHkSymbol(text, hint), of |-> s]
    BY DEF Record, NumberOf
  <1>2. text.pre = "" /\ text.suf = "" /\ text.digits = d /\ IsBare(text)
    BY DEF Text, IsBare
  <1> HIDE DEF text, d, hint
  <1>3. NormalizeChinaHkSymbol(text, hint)
          = IF hint = "HK" \/ Len(d) <= 5 THEN <<"HK", Padded(d, 5)>>
            ELSE IF hint = "BJ" \/ Head(Padded(d, 6)) \in {4, 8, 9} THEN <<"BJ", Padded(d, 6)>>
            ELSE IF hint = "SH" \/ Head(Padded(d, 6)) \in {5, 6, 9} THEN <<"SH", Padded(d, 6)>>
            ELSE IF hint = "SZ" \/ Head(Padded(d, 6)) \in {0, 2, 3} THEN <<"SZ", Padded(d, 6)>>
            ELSE <<"", Padded(d, 6)>>
    BY <1>2 DEF NormalizeChinaHkSymbol
  <1> DEFINE symbol == NormalizeChinaHkSymbol(text, hint)
  <1> HIDE DEF symbol
  <1>4. CASE hint = "HK"
    <2>0. Len(d) = 5 /\ 5 <= Len(d) /\ d \in Seq(0..9)
      BY <1>0, <1>4
    <2>1. Padded(d, 5) = d
      BY <2>0, LongEnough
    <2>2. symbol = <<"HK", d>>
      BY <1>3, <1>4, <2>1 DEF symbol
    <2> QED
      BY <1>1, <1>4, <2>2 DEF symbol, d, hint
  <1>5. CASE hint # "HK"
    <2>0. Len(d) = 6 /\ 6 <= Len(d) /\ ~(Len(d) <= 5) /\ d \in Seq(0..9)
      BY <1>0, <1>5
    <2>1. Padded(d, 6) = d /\ ~(Len(d) <= 5)
      BY <2>0, LongEnough
    <2>2. symbol = IF hint = "BJ" \/ Head(d) \in {4, 8, 9} THEN <<"BJ", d>>
                   ELSE IF hint = "SH" \/ Head(d) \in {5, 6, 9} THEN <<"SH", d>>
                   ELSE <<"SZ", d>>
      BY <1>0, <1>3, <1>5, <2>1 DEF symbol
    <2>3. symbol \in {<<"BJ", d>>, <<"SH", d>>, <<"SZ", d>>} /\ symbol # <<"HK", d>>
      BY <2>2
    <2>4. Head(d) \in {4, 8, 9} => symbol = <<"BJ", d>>
      BY <2>2
    <2> QED
      BY <1>1, <1>5, <2>3, <2>4 DEF symbol, d, hint
  <1> QED
    BY <1>4, <1>5

(* Of each text that is typed for a security: what it is and its number.   *)
LEMMA SpelledAs ==
  ASSUME NEW s \in Securities, NEW t \in SpellingsOf(s)
  PROVE  \/ /\ t.pre = "" /\ t.sep = "" /\ t.suf = "" /\ t.digits \in NumbersTyped(s)
            /\ t = Text("", "", t.digits, "")
         \/ t = YahooText(s) /\ t.pre = "" /\ t.sep = ""
         \/ /\ t.pre = Listing[s].market /\ t.sep \in Separators /\ t.suf = "" /\ t.digits \in NumbersTyped(s)
            /\ t = Text(t.pre, t.sep, t.digits, "")
  <1> DEFINE numbers == NumbersTyped(s)
  <1>1. \/ t \in [pre: {""}, sep: {""}, digits: numbers, suf: {""}]
        \/ t \in [pre: {Listing[s].market}, sep: Separators, digits: numbers, suf: {""}]
        \/ t = YahooText(s)
    BY DEF SpellingsOf
  <1> HIDE DEF numbers
  <1>2. CASE t \in [pre: {""}, sep: {""}, digits: numbers, suf: {""}]
    BY <1>2 DEF Text, numbers
  <1>3. CASE t \in [pre: {Listing[s].market}, sep: Separators, digits: numbers, suf: {""}]
    BY <1>3 DEF Text, numbers
  <1>4. CASE t = YahooText(s)
    BY <1>4 DEF YahooText, Text
  <1> QED
    BY <1>1, <1>2, <1>3, <1>4

LEMMA NumberFacts ==
  ASSUME NEW s \in Securities, NEW n, n \in NumbersTyped(s)
  PROVE  /\ n \in Seq(0..9) /\ Told(n) # {} /\ Stripped(n) = Stripped(NumberOf(s)) /\ Len(n) \in Nat
         /\ Listing[s].market = "HK" => Len(n) <= 5 /\ Padded(n, 5) = NumberOf(s)
         /\ Listing[s].market # "HK" => n = NumberOf(s) /\ Len(n) = 6 /\ Padded(n, 6) = n
  <1>1. /\ NumberOf(s) \in Seq(0..9) /\ Told(NumberOf(s)) # {}
        /\ Len(NumberOf(s)) = IF Listing[s].market = "HK" THEN 5 ELSE 6
    BY NumbersAre
  <1>2. /\ Stripped(NumberOf(s)) \in Seq(0..9) /\ Told(Stripped(NumberOf(s))) # {}
        /\ Len(Stripped(NumberOf(s))) \in Nat /\ Len(Stripped(NumberOf(s))) <= Len(NumberOf(s))
        /\ Stripped(Stripped(NumberOf(s))) = Stripped(NumberOf(s))
        /\ Padded(Stripped(NumberOf(s)), Len(NumberOf(s))) = NumberOf(s)
    BY <1>1, StrippedIs
  <1> DEFINE d == NumberOf(s)
             e == Stripped(d)
  <1> HIDE DEF d, e
  <1>3. CASE Listing[s].market = "HK"
    <2>1. Len(d) = 5 /\ d \in Seq(0..9) /\ 5 <= Len(d)
      BY <1>1, <1>3 DEF d
    <2>2. Padded(d, 5) = d
      BY <2>1, LongEnough
    <2>3. Padded(e, 5) = d /\ Len(e) <= 5
      BY <1>2, <2>1 DEF d, e
    <2>4. n = d \/ n = e
      BY <1>3 DEF NumbersTyped, NumberOf, d, e
    <2>5. CASE n = d
      <3>0. Len(d) \in Nat /\ Len(d) <= 5
        BY <2>1
      <3>1. Len(n) \in Nat /\ Len(n) <= 5 /\ n \in Seq(0..9) /\ Padded(n, 5) = d
        BY ONLY <2>1, <2>2, <2>5, <3>0, Zenon
      <3>2. Told(n) # {} /\ Stripped(n) = Stripped(NumberOf(s)) /\ d = NumberOf(s)
        BY <1>1, <2>5 DEF d
      <3> QED
        BY <1>3, <3>1, <3>2
    <2>6. CASE n = e
      BY <1>1, <1>2, <1>3, <2>1, <2>3, <2>6 DEF d, e
    <2> QED
      BY <2>4, <2>5, <2>6
  <1>4. CASE Listing[s].market # "HK"
    <2>1. Len(d) = 6 /\ d \in Seq(0..9) /\ 6 <= Len(d)
      BY <1>1, <1>4 DEF d
    <2>2. Padded(d, 6) = d
      BY <2>1, LongEnough
    <2>3. n = d
      BY <1>4 DEF NumbersTyped, NumberOf, d
    <2> QED
      BY <1>1, <1>4, <2>1, <2>2, <2>3 DEF d
  <1> QED
    BY <1>3, <1>4
LEMMA TextParts ==
  ASSUME NEW t, NEW pre, NEW sep, NEW digits, NEW suf, t = Text(pre, sep, digits, suf)
  PROVE  t.pre = pre /\ t.sep = sep /\ t.digits = digits /\ t.suf = suf
  BY DEF Text

(* The global index has a number without its zeros, four digits at least.  *)
LEMMA YahooFacts ==
  ASSUME NEW s \in Securities
  PROVE  /\ YahooText(s).digits \in Seq(0..9) /\ Told(YahooText(s).digits) # {}
         /\ Stripped(YahooText(s).digits) = Stripped(NumberOf(s))
         /\ YahooText(s).pre = "" /\ YahooText(s).sep = ""
         /\ YahooText(s) = Text("", "", YahooText(s).digits, YahooText(s).suf)
         /\ Listing[s].market = "HK" => YahooText(s) = Text("", "", Padded(Stripped(NumberOf(s)), 4), ".HK")
         /\ Listing[s].market # "HK" => YahooText(s).digits = NumberOf(s)
         /\ YahooText(s).suf = IF Listing[s].market = "HK" THEN ".HK"
                               ELSE IF Listing[s].market = "SH" THEN ".SS" ELSE ".SZ"
  <1> DEFINE d == NumberOf(s)
             e == Stripped(d)
             p == Padded(e, 4)
  <1>1. d \in Seq(0..9) /\ Told(d) # {} /\ Listing[s].market \in {"SH", "SZ", "BJ", "HK"}
    BY NumbersAre
  <1>2. e \in Seq(0..9) /\ Told(e) # {} /\ Stripped(e) = e
    BY <1>1, StrippedIs
  <1>3. p \in Seq(0..9) /\ Told(p) # {} /\ Stripped(p) = e
    BY <1>2, StrippedPadded
  <1>4. YahooText(s) = IF Listing[s].market = "HK" THEN Text("", "", p, ".HK")
                       ELSE IF Listing[s].market = "SH" THEN Text("", "", d, ".SS") ELSE Text("", "", d, ".SZ")
    BY <1>1 DEF YahooText, NumberOf
  <1> HIDE DEF d, e, p
  <1>6. e = Stripped(d)
    BY DEF e
  <1>7. CASE Listing[s].market = "HK"
    <2>1. YahooText(s) = Text("", "", p, ".HK")
      BY <1>4, <1>7
    <2>2. YahooText(s).pre = "" /\ YahooText(s).sep = "" /\ YahooText(s).digits = p /\ YahooText(s).suf = ".HK"
      BY <2>1, TextParts
    <2> QED
      BY <1>3, <1>6, <1>7, <2>1, <2>2 DEF d, e, p
  <1>8. CASE Listing[s].market = "SH"
    <2>1. YahooText(s) = Text("", "", d, ".SS")
      BY <1>4, <1>8
    <2>2. YahooText(s).pre = "" /\ YahooText(s).sep = "" /\ YahooText(s).digits = d /\ YahooText(s).suf = ".SS"
      BY <2>1, TextParts
    <2> QED
      BY <1>1, <1>6, <1>8, <2>1, <2>2 DEF d, e
  <1>9. CASE Listing[s].market \in {"SZ", "BJ"}
    <2>1. YahooText(s) = Text("", "", d, ".SZ")
      BY <1>4, <1>9
    <2>2. YahooText(s).pre = "" /\ YahooText(s).sep = "" /\ YahooText(s).digits = d /\ YahooText(s).suf = ".SZ"
      BY <2>1, TextParts
    <2> QED
      BY <1>1, <1>6, <1>9, <2>1, <2>2 DEF d, e
  <1> QED
    BY <1>1, <1>7, <1>8, <1>9

(* Hong Kong numbers are turned into the symbols the global index has.     *)
LEMMA HkFormsAre ==
  ASSUME NEW d \in Seq(0..9), Told(d) # {}
  PROVE  /\ Text("", "", Padded(Stripped(d), 4), ".HK") \in HkForms(d)
         /\ \A t \in HkForms(d) : Stripped(t.digits) = Stripped(d) /\ t.suf = ".HK"
  <1> DEFINE e == Stripped(d)
  <1>1. e \in Seq(0..9) /\ Told(e) # {} /\ Stripped(e) = e
    BY StrippedIs
  <1>2. HkForms(d) = {Text("", "", Padded(e, n), ".HK") : n \in {4, 5}}
    BY DEF HkForms
  <1> HIDE DEF e
  <1>3. Text("", "", Padded(e, 4), ".HK") \in HkForms(d)
    BY <1>2
  <1>4. ASSUME NEW t \in HkForms(d)
        PROVE  Stripped(t.digits) = e /\ t.suf = ".HK"
    <2>1. PICK n \in {4, 5} : t = Text("", "", Padded(e, n), ".HK")
      BY <1>2
    <2>2. t.digits = Padded(e, n) /\ t.suf = ".HK"
      BY <2>1 DEF Text
    <2>3. n \in Nat
      OBVIOUS
    <2>4. Stripped(Padded(e, n)) = Stripped(e)
      BY <1>1, <2>3, StrippedPadded
    <2> QED
      BY <1>1, <2>2, <2>4
  <1> QED
    BY <1>3, <1>4 DEF e

LEMMA BareVariants ==
  ASSUME NEW d \in Seq(0..9), Told(d) # {}, NEW t, t = Text("", "", d, "")
  PROVE  /\ Len(d) <= 5 => MarketVariants(t) = HkForms(d)
         /\ Len(d) = 6 => MarketVariants(t) = {Text("", "", d, IF Head(d) = 6 THEN ".SS" ELSE ".SZ")}
         /\ BareTerms(t) = {d} /\ IsBare(t)
  <1>1. t.pre = "" /\ t.sep = "" /\ t.suf = "" /\ t.digits = d
    BY DEF Text
  <1>2. Len(d) \in Nat
    BY LenProperties
  <1>3. Len(d) <= 5 => MarketVariants(t) = HkForms(d)
    BY <1>1, <1>2 DEF MarketVariants
  <1>4. CnPrefix(d) = "SH" <=> Head(d) = 6
    <2>1. CASE Head(d) = 6
      BY <2>1 DEF CnPrefix
    <2>2. CASE Head(d) # 6
      <3>1. CnPrefix(d) \in {"SZ", "BJ", "CN"}
        BY <2>2 DEF CnPrefix
      <3> QED
        BY <2>2, <3>1
    <2> QED
      BY <2>1, <2>2
  <1>5. ASSUME Len(d) = 6
        PROVE  MarketVariants(t) = {Text("", "", d, IF Head(d) = 6 THEN ".SS" ELSE ".SZ")}
    <2>1. ~(Len(d) <= 5)
      BY ONLY <1>2, <1>5
    <2>2. MarketVariants(t) = {Text("", "", d, IF CnPrefix(d) = "SH" THEN ".SS" ELSE ".SZ")}
      BY <1>1, <1>5, <2>1 DEF MarketVariants
    <2> QED
      BY <1>4, <2>2
  <1>6. BareTerms(t) = {d} /\ IsBare(t)
    BY <1>1 DEF BareTerms, IsBare
  <1> QED
    BY <1>3, <1>5, <1>6

(* Whatever a spelling is turned into has the number that is typed.        *)
LEMMA SpelledDigits ==
  ASSUME NEW s \in Securities, NEW t \in SpellingsOf(s)
  PROVE  t.digits \in Seq(0..9) /\ Told(t.digits) # {}
  <1>1. CASE t.digits \in NumbersTyped(s)
    BY <1>1, NumberFacts
  <1>2. CASE t = YahooText(s)
    BY <1>2, YahooFacts
  <1> QED
    BY <1>1, <1>2, SpelledAs

LEMMA VariantsKeepNumber ==
  ASSUME NEW t, t.digits \in Seq(0..9), Told(t.digits) # {}, NEW v \in MarketVariants(t)
  PROVE  Stripped(v.digits) = Stripped(t.digits)
  <1> DEFINE d == t.digits
  <1>1. v \in HkForms(d) \/ \E sep, suf : v = Text("", sep, d, suf)
    BY DEF MarketVariants
  <1>2. CASE v \in HkForms(d)
    BY <1>2, HkFormsAre
  <1>3. ASSUME NEW sep, NEW suf, v = Text("", sep, d, suf)
        PROVE  v.digits = d
    BY <1>3, TextParts
  <1> QED
    BY <1>1, <1>2, <1>3

LEMMA TermsKeepNumber ==
  ASSUME NEW t, t.digits \in Seq(0..9), Told(t.digits) # {}, NEW v \in BareTerms(t)
  PROVE  Stripped(v) = Stripped(t.digits)
  <1>1. v = t.digits \/ v = Stripped(t.digits)
    BY DEF BareTerms
  <1>2. Stripped(Stripped(t.digits)) = Stripped(t.digits)
    BY StrippedIs
  <1> QED
    BY <1>1, <1>2

LEMMA NormalizedKeepsNumber ==
  ASSUME NEW t, t.digits \in Seq(0..9), Told(t.digits) # {}, NEW hint, NEW market, NEW number,
         NormalizeChinaHkSymbol(t, hint) = <<market, number>>
  PROVE  Stripped(number) = Stripped(t.digits)
  <1> DEFINE d == t.digits
             five == Padded(d, 5)
             six == Padded(d, 6)
             symbol == NormalizeChinaHkSymbol(t, hint)
  <1>1. symbol = <<>> \/ \E m : symbol = <<m, five>> \/ symbol = <<m, six>>
    BY DEF NormalizeChinaHkSymbol
  <1>2. Stripped(five) = Stripped(d) /\ Stripped(six) = Stripped(d)
    BY StrippedPadded
  <1>3. symbol = <<market, number>>
    OBVIOUS
  <1> HIDE DEF d, five, six, symbol
  <1>4. symbol # <<>>
    BY <1>3
  <1>5. number = five \/ number = six
    BY <1>1, <1>3, <1>4
  <1> QED
    BY <1>2, <1>5 DEF d

(* The global index finds nothing that has another number.                 *)
LEMMA GlobalIsRight ==
  ASSUME NEW s \in Securities, NEW t \in SpellingsOf(s), NEW u \in InGlobalIndex(t)
  PROVE  u \in Securities /\ Stripped(NumberOf(u)) = Stripped(t.digits)
  <1>1. /\ u \in InUniverse
        /\ YahooText(u) = t \/ YahooText(u) \in MarketVariants(t) \/ YahooText(u).digits \in BareTerms(t)
    BY DEF InGlobalIndex
  <1>2. u \in Securities
    BY <1>1, SymbolIndexAssumption
  <1>3. Stripped(YahooText(u).digits) = Stripped(NumberOf(u))
    BY <1>2, YahooFacts
  <1>4. t.digits \in Seq(0..9) /\ Told(t.digits) # {}
    BY SpelledDigits
  <1>5. Stripped(YahooText(u).digits) = Stripped(t.digits)
    <2>1. CASE YahooText(u) = t
      BY <2>1
    <2>2. CASE YahooText(u) \in MarketVariants(t)
      BY <1>4, <2>2, VariantsKeepNumber
    <2>3. CASE YahooText(u).digits \in BareTerms(t)
      BY <1>4, <2>3, TermsKeepNumber
    <2> QED
      BY <1>1, <2>1, <2>2, <2>3
  <1> QED
    BY <1>2, <1>3, <1>5

(* It finds what it has, by the symbol or, when no row has that, by the    *)
(* number.                                                                 *)
LEMMA FoundInGlobalIndex ==
  ASSUME NEW s \in InUniverse, NEW t,
         \/ YahooText(s) = t \/ YahooText(s) \in MarketVariants(t)
         \/ /\ YahooText(s).digits \in BareTerms(t)
            /\ \A u \in InUniverse : YahooText(u) # t /\ YahooText(u) \notin MarketVariants(t)
  PROVE  s \in InGlobalIndex(t)
  BY DEF InGlobalIndex

LEMMA NumberFound ==
  ASSUME NEW s \in InUniverse, NEW t, t = Text("", "", t.digits, ""), t.digits \in NumbersTyped(s)
  PROVE  s \in InGlobalIndex(t)
  <1> DEFINE d == t.digits
             h == Head(NumberOf(s))
             theirs == IF Head(d) = 6 THEN ".SS" ELSE ".SZ"
             v == Text("", "", d, theirs)
  <1>0. s \in Securities
    BY SymbolIndexAssumption
  <1>1. /\ d \in Seq(0..9) /\ Told(d) # {} /\ Stripped(d) = Stripped(NumberOf(s))
        /\ Listing[s].market = "HK" => Len(d) <= 5
        /\ Listing[s].market # "HK" => d = NumberOf(s) /\ Len(d) = 6
    BY <1>0, NumberFacts
  <1>2. /\ Len(d) <= 5 => MarketVariants(t) = HkForms(d)
        /\ Len(d) = 6 => MarketVariants(t) = {v}
        /\ BareTerms(t) = {d}
    BY <1>1, BareVariants
  <1>3. /\ Listing[s].market \in {"SH", "SZ", "HK"}
        /\ Listing[s].market = "SH" => Head(NumberOf(s)) \in {5, 6, 9}
        /\ Listing[s].market = "SZ" => Head(NumberOf(s)) \in {0, 2, 3}
    BY <1>0, NumbersAre
  <1>4. /\ YahooText(s) = Text("", "", YahooText(s).digits, YahooText(s).suf)
        /\ Listing[s].market = "HK" => YahooText(s) = Text("", "", Padded(Stripped(NumberOf(s)), 4), ".HK")
        /\ Listing[s].market # "HK" => YahooText(s).digits = NumberOf(s)
        /\ YahooText(s).suf = IF Listing[s].market = "HK" THEN ".HK"
                              ELSE IF Listing[s].market = "SH" THEN ".SS" ELSE ".SZ"
    BY <1>0, YahooFacts
  <1>5. CASE Listing[s].market = "HK"
    <2>1. Text("", "", Padded(Stripped(d), 4), ".HK") \in HkForms(d)
      BY <1>1, HkFormsAre
    <2>2. YahooText(s) \in MarketVariants(t)
      BY <1>1, <1>2, <1>4, <1>5, <2>1
    <2> QED
      BY <2>2, FoundInGlobalIndex
  <1>6. CASE Listing[s].market \in {"SH", "SZ"}
    <2> DEFINE own == IF Listing[s].market = "SH" THEN ".SS" ELSE ".SZ"
    <2>1. d = NumberOf(s) /\ MarketVariants(t) = {v} /\ YahooText(s) = Text("", "", d, own)
      BY <1>1, <1>2, <1>4, <1>6
    <2>2. /\ Listing[s].market = "SH" => h \in {5, 6, 9}
          /\ Listing[s].market = "SZ" => h \in {0, 2, 3}
          /\ theirs = IF h = 6 THEN ".SS" ELSE ".SZ"
      BY <1>3, <2>1
    <2> HIDE DEF d, h, theirs
    <2>3. own = theirs \/ (Listing[s].market = "SH" /\ h \in {5, 9} /\ theirs = ".SZ")
      <3>1. CASE Listing[s].market = "SZ"
        <4>1. h # 6
          BY ONLY <2>2, <3>1
        <4>2. theirs = ".SZ"
          BY ONLY <2>2, <4>1
        <4>3. own = ".SZ"
          BY ONLY <3>1 DEF own
        <4> QED
          BY ONLY <4>2, <4>3
      <3>2. CASE Listing[s].market = "SH" /\ h = 6
        <4>2. theirs = ".SS"
          BY ONLY <2>2, <3>2
        <4>3. own = ".SS"
          BY ONLY <3>2 DEF own
        <4> QED
          BY ONLY <4>2, <4>3
      <3>3. CASE Listing[s].market = "SH" /\ h # 6
        <4>1. h \in {5, 9}
          BY ONLY <2>2, <3>3
        <4>2. theirs = ".SZ"
          BY ONLY <2>2, <3>3
        <4> QED
          BY ONLY <3>3, <4>1, <4>2
      <3> QED
        BY ONLY <1>6, <3>1, <3>2, <3>3
    <2>4. CASE own = theirs
      <3> HIDE DEF own
      <3>1. YahooText(s) = v
        BY <2>1, <2>4
      <3> QED
        BY <2>1, <3>1, FoundInGlobalIndex
    <2>5. CASE Listing[s].market = "SH" /\ h \in {5, 9} /\ theirs = ".SZ"
      <3>1. v = Text("", "", d, ".SZ")
        BY <2>5
      <3>2. ASSUME NEW w, NEW e, w = Text("", "", e, "")
            PROVE  w.suf = ""
        BY <3>2 DEF Text
      <3>3. ASSUME NEW u \in InUniverse
            PROVE  YahooText(u) # t /\ YahooText(u) # v
        <4>0. u \in Securities
          BY SymbolIndexAssumption
        <4>1. /\ Listing[u].market \in {"SH", "SZ", "HK"}
              /\ Listing[u].market = "SZ" => Head(NumberOf(u)) \in {0, 2, 3}
          BY <4>0, NumbersAre
        <4>2. /\ Listing[u].market # "HK" => YahooText(u).digits = NumberOf(u)
              /\ YahooText(u).suf = IF Listing[u].market = "HK" THEN ".HK"
                                    ELSE IF Listing[u].market = "SH" THEN ".SS" ELSE ".SZ"
          BY <4>0, YahooFacts
        <4>3. YahooText(u) # t
          <5>1. t.suf = ""
            BY <3>2
          <5> QED
            BY <4>2, <5>1
        <4>4. ASSUME YahooText(u) = v
              PROVE  FALSE
          <5>0. YahooText(u).suf = ".SZ" /\ YahooText(u).digits = d
            <6>1. YahooText(u) = Text("", "", d, ".SZ")
              BY <3>1, <4>4
            <6>2. ASSUME NEW w, NEW e, w = Text("", "", e, ".SZ")
                  PROVE  w.suf = ".SZ" /\ w.digits = e
              BY <6>2 DEF Text
            <6> QED
              BY <6>1, <6>2
          <5>1. Listing[u].market = "SZ"
            BY <4>1, <4>2, <5>0
          <5>2. NumberOf(u) = NumberOf(s)
            BY <2>1, <4>2, <5>0, <5>1
          <5>3. h \in {0, 2, 3}
            BY <4>1, <5>1, <5>2 DEF h
          <5> QED
            BY ONLY <2>5, <5>3
        <4> QED
          BY <4>3, <4>4
      <3> HIDE DEF v
      <3>4. YahooText(s).digits \in BareTerms(t)
        BY <1>2, <1>4, <2>1, <2>5 DEF d
      <3> QED
        BY <2>1, <3>3, <3>4, FoundInGlobalIndex
    <2> QED
      BY <2>3, <2>4, <2>5
  <1> QED
    BY <1>3, <1>5, <1>6

LEMMA MarkedFound ==
  ASSUME NEW s \in InUniverse, NEW t, t = Text(t.pre, t.sep, t.digits, ""), t.pre = Listing[s].market,
         t.sep \in Separators, t.digits \in NumbersTyped(s), ~Misread(t, s)
  PROVE  s \in InGlobalIndex(t)
  <1> DEFINE d == t.digits
             kept == IF t.sep = "" \/ t.sep = " " THEN "" ELSE t.sep
  <1>0. s \in Securities
    BY SymbolIndexAssumption
  <1>1. /\ d \in Seq(0..9) /\ Told(d) # {} /\ Stripped(d) = Stripped(NumberOf(s))
        /\ Listing[s].market # "HK" => d = NumberOf(s)
    BY <1>0, NumberFacts
  <1>2. Listing[s].market \in {"SH", "SZ", "HK"}
    BY <1>0, NumbersAre
  <1>3. /\ Listing[s].market = "HK" => YahooText(s) = Text("", "", Padded(Stripped(NumberOf(s)), 4), ".HK")
        /\ Listing[s].market # "HK" => YahooText(s).digits = NumberOf(s)
        /\ YahooText(s) = Text("", "", YahooText(s).digits, YahooText(s).suf)
        /\ YahooText(s).suf = IF Listing[s].market = "HK" THEN ".HK"
                              ELSE IF Listing[s].market = "SH" THEN ".SS" ELSE ".SZ"
    BY <1>0, YahooFacts
  <1>4. CASE Listing[s].market = "HK"
    <2>1. MarketVariants(t) = HkForms(d)
      BY <1>4 DEF MarketVariants
    <2>2. Text("", "", Padded(Stripped(d), 4), ".HK") \in HkForms(d)
      BY <1>1, HkFormsAre
    <2>3. YahooText(s) \in MarketVariants(t)
      BY <1>1, <1>3, <1>4, <2>1, <2>2
    <2> QED
      BY <2>3, FoundInGlobalIndex
  <1>5. CASE Listing[s].market \in {"SH", "SZ"}
    <2> DEFINE own == IF Listing[s].market = "SH" THEN ".SS" ELSE ".SZ"
    <2>1. MarketVariants(t) = {Text("", kept, d, own)}
      BY <1>5 DEF MarketVariants
    <2>2. YahooText(s) = Text("", "", d, own)
      BY <1>1, <1>3, <1>5
    <2>3. t.sep \in {"", " ", ".", "-"}
      BY <1>5 DEF Separators, Misread
    <2>4. BareTerms(t) = {d}
      BY <1>5, <2>3 DEF BareTerms, IsBare
    <2> HIDE DEF own
    <2>5. CASE t.sep \in {"", " "}
      <3>1. kept = ""
        BY <2>5
      <3> HIDE DEF kept
      <3>2. YahooText(s) \in MarketVariants(t)
        BY <2>1, <2>2, <3>1
      <3> QED
        BY <3>2, FoundInGlobalIndex
    <2>6. CASE t.sep \in {".", "-"}
      <3>1. kept # ""
        BY <2>6
      <3> HIDE DEF kept
      <3>2. ASSUME NEW u \in InUniverse
            PROVE  YahooText(u) # t /\ YahooText(u) \notin MarketVariants(t)
        <4>1. YahooText(u).pre = "" /\ YahooText(u).sep = ""
          BY SymbolIndexAssumption, YahooFacts
        <4>2. YahooText(u) # t
          BY <1>5, <4>1
        <4>3. ASSUME NEW w, w = Text("", kept, d, own)
              PROVE  w.sep = kept
          BY <4>3 DEF Text
        <4>4. YahooText(u) # Text("", kept, d, own)
          BY <3>1, <4>1, <4>3
        <4> QED
          BY <2>1, <4>2, <4>4
      <3>3. YahooText(s).digits \in BareTerms(t)
        BY <1>1, <1>3, <1>5, <2>4
      <3> QED
        BY <3>2, <3>3, FoundInGlobalIndex
    <2> QED
      BY <2>3, <2>5, <2>6
  <1> QED
    BY <1>2, <1>4, <1>5

LEMMA GlobalFinds ==
  ASSUME NEW s \in InUniverse, NEW t \in SpellingsOf(s), ~Misread(t, s)
  PROVE  s \in InGlobalIndex(t)
  <1>0. s \in Securities
    BY SymbolIndexAssumption
  <1>1. CASE t = YahooText(s)
    BY <1>1, FoundInGlobalIndex
  <1>2. CASE t.digits \in NumbersTyped(s) /\ t = Text("", "", t.digits, "")
    BY <1>2, NumberFound
  <1>3. CASE /\ t.pre = Listing[s].market /\ t.sep \in Separators /\ t.digits \in NumbersTyped(s)
             /\ t = Text(t.pre, t.sep, t.digits, "")
    BY <1>3, MarkedFound
  <1> QED
    BY <1>0, <1>1, <1>2, <1>3, SpelledAs

(* A record of the index of China and Hong Kong.                           *)
LEMMA RowIs ==
  ASSUME IndexTypeOK, output # NoFile, NEW r \in output[1].records
  PROVE  r.of \in Securities /\ r = Record(r.of)
  <1>1. output[1].records \in SUBSET AllRecords
    BY FileFacts DEF IndexTypeOK
  <1>2. PICK s \in Securities : r = Record(s)
    BY <1>1 DEF AllRecords
  <1>3. r.of = s
    BY <1>2, RecordIs
  <1> QED
    BY <1>2, <1>3

LEMMA ChinaIsRight ==
  ASSUME IndexTypeOK, NEW s \in Securities, NEW t \in SpellingsOf(s), NEW u \in InChinaIndex(t)
  PROVE  u \in Securities /\ Stripped(NumberOf(u)) = Stripped(t.digits)
  <1> DEFINE rows == IF output = <<>> THEN {} ELSE output[1].records
  <1>1. PICK r \in rows : /\ r.of = u
                          /\ r.symbol = NormalizeChinaHkSymbol(t, "") \/ r.symbol[2] = t.digits
    BY DEF InChinaIndex
  <1>2. u \in Securities /\ r = Record(u)
    BY <1>1, RowIs DEF NoFile
  <1>3. PICK market : r.symbol = <<market, NumberOf(u)>>
    BY <1>2, RecordIs
  <1>4. t.digits \in Seq(0..9) /\ Told(t.digits) # {}
    BY SpelledDigits
  <1>5. CASE r.symbol = NormalizeChinaHkSymbol(t, "")
    BY <1>2, <1>3, <1>4, <1>5, NormalizedKeepsNumber
  <1>6. CASE r.symbol[2] = t.digits
    <2>1. r.symbol[2] = NumberOf(u)
      BY <1>3
    <2> QED
      BY <1>2, <1>6, <2>1
  <1> QED
    BY <1>1, <1>5, <1>6

(* What is typed for a security is normalized to the symbol it is listed   *)
(* under, but for Shanghai's numbers that begin with 9.                    *)
LEMMA NormalizedAs ==
  ASSUME NEW s \in Securities, NEW t, t.suf = "", t.digits \in NumbersTyped(s),
         \/ t.pre = ""
         \/ t.pre = Listing[s].market /\ t.sep # ":",
         ~(Listing[s].market = "SH" /\ Head(NumberOf(s)) = 9)
  PROVE  /\ NormalizeChinaHkSymbol(t, "") = <<Listing[s].market, NumberOf(s)>>
         /\ AnalyzedSymbol(t) # <<>>
  <1> DEFINE d == t.digits
             n == NumberOf(s)
             market == Listing[s].market
             h == Head(n)
             symbol == NormalizeChinaHkSymbol(t, "")
  <1>1. /\ Len(d) \in Nat
        /\ market = "HK" => Len(d) <= 5 /\ Padded(d, 5) = n
        /\ market # "HK" => d = n /\ Len(d) = 6 /\ Padded(d, 6) = n
    BY NumberFacts
  <1>2. /\ market \in {"SH", "SZ", "BJ", "HK"}
        /\ market = "SH" => h \in {5, 6}
        /\ market = "SZ" => h \in {0, 2, 3}
        /\ market = "BJ" => h \in {4, 8, 9}
    BY NumbersAre
  <1>3. t.pre = "" \/ (t.pre = market /\ t.pre # "" /\ t.sep # ":")
    BY <1>2
  <1> HIDE DEF d, n, market, h, symbol
  <1>4. AnalyzedSymbol(t) # <<>>
    <2>1. Len(d) <= 5 \/ Len(d) = 6
      BY <1>1
    <2>2. t.pre = "" \/ t.pre = "HK" \/ Len(d) = 6
      BY <1>1, <1>3
    <2>3. \A a, b : <<a, b>> # <<>>
      OBVIOUS
    <2> QED
      BY <2>1, <2>2, <2>3 DEF AnalyzedSymbol, d
  <1>5. symbol = <<market, n>>
    <2>1. CASE t.pre = ""
      <3>1. IsBare(t)
        BY <2>1 DEF IsBare
      <3>2. symbol = IF Len(d) <= 5 THEN <<"HK", Padded(d, 5)>>
                     ELSE IF Head(Padded(d, 6)) \in {4, 8, 9} THEN <<"BJ", Padded(d, 6)>>
                     ELSE IF Head(Padded(d, 6)) \in {5, 6, 9} THEN <<"SH", Padded(d, 6)>>
                     ELSE IF Head(Padded(d, 6)) \in {0, 2, 3} THEN <<"SZ", Padded(d, 6)>>
                     ELSE <<"", Padded(d, 6)>>
        BY <2>1, <3>1 DEF NormalizeChinaHkSymbol, symbol, d
      <3>3. CASE market = "HK"
        <4>1. Len(d) <= 5 /\ Padded(d, 5) = n
          BY ONLY <1>1, <3>3
        <4> QED
          BY ONLY <3>2, <3>3, <4>1
      <3>4. CASE market # "HK"
        <4>0. Padded(d, 6) = n /\ Len(d) = 6
          BY ONLY <1>1, <3>4
        <4>1. Padded(d, 6) = n /\ ~(Len(d) <= 5)
          BY ONLY <4>0
        <4>2. symbol = IF h \in {4, 8, 9} THEN <<"BJ", n>>
                       ELSE IF h \in {5, 6, 9} THEN <<"SH", n>>
                       ELSE IF h \in {0, 2, 3} THEN <<"SZ", n>> ELSE <<"", n>>
          BY ONLY <3>2, <4>1 DEF h
        <4>3. \/ h \in {4, 8, 9} /\ market = "BJ"
              \/ h \in {5, 6} /\ market = "SH"
              \/ h \in {0, 2, 3} /\ market = "SZ"
          BY ONLY <1>2, <3>4
        <4>4. CASE h \in {4, 8, 9} /\ market = "BJ"
          BY ONLY <4>2, <4>4
        <4>5. CASE h \in {5, 6} /\ market = "SH"
          <5>1. h \notin {4, 8, 9} /\ h \in {5, 6, 9}
            BY ONLY <4>5
          <5> QED
            BY ONLY <4>2, <4>5, <5>1
        <4>6. CASE h \in {0, 2, 3} /\ market = "SZ"
          <5>1. h \notin {4, 8, 9} /\ h \notin {5, 6, 9}
            BY ONLY <4>6
          <5> QED
            BY ONLY <4>2, <4>6, <5>1
        <4> QED
          BY ONLY <4>3, <4>4, <4>5, <4>6
      <3> QED
        BY ONLY <3>3, <3>4
    <2>2. CASE t.pre = market /\ t.pre # "" /\ t.sep # ":"
      <3>1. symbol = IF t.pre = "HK" THEN <<"HK", Padded(d, 5)>> ELSE <<t.pre, Padded(d, 6)>>
        BY <2>2 DEF NormalizeChinaHkSymbol, symbol, d
      <3> QED
        BY ONLY <1>1, <2>2, <3>1
    <2> QED
      BY ONLY <1>3, <2>1, <2>2
  <1> QED
    BY <1>4, <1>5 DEF symbol, market, n

LEMMA ChinaFinds ==
  ASSUME IndexTypeOK, NEW s \in Securities, s \notin InUniverse, NEW t \in SpellingsOf(s), ~Misread(t, s),
         t.suf = "", Filed(s)
  PROVE  s \in InChinaIndex(t)
  <1>1. PICK r \in output[1].records : r.of = s /\ r.symbol = <<Listing[s].market, NumberOf(s)>>
    BY DEF Filed, NumberOf
  <1>2. output # <<>> /\ r = Record(s)
    BY <1>1, RowIs DEF Filed, NoFile
  <1>3. ~(Listing[s].market = "SH" /\ Head(NumberOf(s)) = 9)
    <2> SUFFICES ASSUME Listing[s].market = "SH", Head(NumberOf(s)) = 9
                 PROVE  FALSE
      OBVIOUS
    <2>1. r.symbol = <<"BJ", NumberOf(s)>>
      BY <1>2, RecordIs
    <2>2. ASSUME NEW a, NEW b, NEW c, NEW d, <<a, b>> = <<c, d>>
          PROVE  a = c
      BY <2>2
    <2>3. <<"BJ", NumberOf(s)>> = <<Listing[s].market, NumberOf(s)>>
      BY <1>1, <2>1
    <2>4. Listing[s].market = "BJ"
      BY <2>2, <2>3
    <2> QED
      BY <2>4
  <1>4. t # YahooText(s)
    BY YahooFacts
  <1>5. t.digits \in NumbersTyped(s) /\ (t.pre = "" \/ (t.pre = Listing[s].market /\ t.sep # ":"))
    BY <1>4, SpelledAs DEF Misread
  <1>6. NormalizeChinaHkSymbol(t, "") = <<Listing[s].market, NumberOf(s)>> /\ AnalyzedSymbol(t) # <<>>
    BY <1>3, <1>5, NormalizedAs
  <1>7. r \in {q \in output[1].records : q.symbol = NormalizeChinaHkSymbol(t, "")}
    BY <1>1, <1>6
  <1> QED
    BY <1>1, <1>2, <1>6, <1>7 DEF InChinaIndex

(* What is found was looked up in the indexes as they are: while a build   *)
(* runs, nothing is.                                                       *)
LookInv ==
    \/ typed = NoSpelling /\ hits = {}
    \/ /\ buildAt = "idle"
       /\ \E s \in Securities : typed \in SpellingsOf(s)
       /\ hits = InChinaIndex(typed) \cup InGlobalIndex(typed)

LEMMA LookStays ==
  ASSUME LookInv, UNCHANGED <<buildAt, output, typed, hits>>
  PROVE  LookInv'
  BY DEF LookInv, InChinaIndex, InGlobalIndex

LEMMA LookStep == LookInv /\ [IndexNext]_indexVars => LookInv'
  <1> SUFFICES ASSUME LookInv, [IndexNext]_indexVars
               PROVE  LookInv'
    OBVIOUS
  <1>1. CASE BuildStarts
    BY <1>1 DEF BuildStarts, LookInv
  <1>2. CASE LookUp
    <2>1. /\ buildAt' = "idle" /\ output' = output
          /\ \E s \in Securities : typed' \in SpellingsOf(s)
          /\ hits' = InChinaIndex(typed') \cup InGlobalIndex(typed')
      BY <1>2 DEF LookUp
    <2> QED
      BY <2>1 DEF LookInv, InChinaIndex, InGlobalIndex
  <1>3. CASE UNCHANGED indexVars
    BY <1>3, LookStays DEF indexVars
  <1>4. CASE AskList \/ AskCoreProfiles \/ FallBack \/ WriteDatabase \/ ValidateExisting \/ Replace \/ BuildBreaks
    <2>1. buildAt # "idle" /\ typed' = typed /\ hits' = hits
      BY <1>4 DEF AskList, AskCoreProfiles, FallBack, WriteDatabase, ValidateExisting, Replace, BuildBreaks,
                  LookupUnchanged
    <2> QED
      BY <2>1 DEF LookInv
  <1> QED
    BY <1>1, <1>2, <1>3, <1>4 DEF IndexNext

LEMMA LookFinds == IndexTypeOK /\ LookInv => SpellingsFind
  <1> SUFFICES ASSUME IndexTypeOK, LookInv
               PROVE  SpellingsFind
    OBVIOUS
  <1>1. CASE typed = NoSpelling /\ hits = {}
    <2>1. typed.digits = <<>>
      BY <1>1 DEF NoSpelling, Text
    <2>2. Told(typed.digits) = {}
      BY <2>1 DEF Told
    <2>3. \A s \in Securities : typed \notin SpellingsOf(s)
      BY <2>2, SpelledDigits
    <2> QED
      BY <1>1, <2>3 DEF SpellingsFind
  <1>2. CASE /\ \E s \in Securities : typed \in SpellingsOf(s)
             /\ hits = InChinaIndex(typed) \cup InGlobalIndex(typed)
    <2>1. ASSUME NEW s \in Securities, typed \in SpellingsOf(s), ~Misread(typed, s)
          PROVE  s \in hits \/ (s \notin InUniverse /\ (typed.suf # "" \/ ~Filed(s)))
      <3>1. CASE s \in InUniverse
        BY <1>2, <2>1, <3>1, GlobalFinds
      <3>2. CASE s \notin InUniverse /\ typed.suf = "" /\ Filed(s)
        BY <1>2, <2>1, <3>2, ChinaFinds
      <3> QED
        BY <3>1, <3>2
    <2>2. ASSUME NEW u \in hits
          PROVE  Stripped(Listing[u].digits) = Stripped(typed.digits)
      <3>1. PICK s \in Securities : typed \in SpellingsOf(s)
        BY <1>2
      <3>2. Stripped(NumberOf(u)) = Stripped(typed.digits)
        BY <1>2, <3>1, ChinaIsRight, GlobalIsRight
      <3> QED
        BY <3>2 DEF NumberOf
    <2> QED
      BY <2>1, <2>2 DEF SpellingsFind
  <1> QED
    BY <1>1, <1>2 DEF LookInv

(* Whatever the analysis takes for the symbol of a security finds it if    *)
(* either index has it, the symbol of Yahoo if the global one has, however *)
(* many securities are listed and whatever lists a build could get; and    *)
(* nothing is found that has another number.                               *)
THEOREM SpellingsAreFound == IndexSpec => []SpellingsFind
  <1>1. IndexInit => LookInv
    BY DEF IndexInit, LookInv
  <1>2. IndexInv => IndexTypeOK
    BY DEF IndexInv
  <1> QED
    BY <1>1, <1>2, LookStep, LookFinds, IndexInvariant, PTL DEF IndexSpec

-----------------------------------------------------------------------------
(* Ranking: rows, what they tell of the company they are about, and their  *)
(* keys.                                                                   *)
RowFields == {"of", "name", "provider", "category", "sources", "reason", "symbol", "score", "exchange", "market",
              "country", "lei", "wikidata_id", "jurisdiction", "company_number", "source_url"}

IsRow(r) == DOMAIN r = RowFields /\ r.score \in Nat

(* Merging with a row of the same key does not change the key.             *)
Regular(r) ==
    /\ r.symbol = <<>> => r.exchange = "" /\ r.market = ""
    /\ r.company_number # "" => r.jurisdiction # ""

Tells(r, c) ==
    /\ r.name = Facts[c].name
    /\ r.symbol # <<>> => Facts[c].symbol # <<>> /\ CanonicalSymbol(r.symbol) = Facts[c].symbol
    /\ r.exchange # "" => r.exchange \in PlacesOf(c)
    /\ r.market # "" => r.market \in PlacesOf(c)
    /\ r.country \in {"", Facts[c].country} /\ r.lei \in {"", Facts[c].lei}
    /\ r.wikidata_id \in {"", Facts[c].wikidata_id}
    /\ r.jurisdiction \in {"", Facts[c].jurisdiction} /\ r.company_number \in {"", Facts[c].company_number}

(* The key a row has, told by its kind.                                    *)
KeyKind(r) ==
    IF r.symbol # <<>> /\ r.exchange # "" THEN "symbol"
    ELSE IF r.symbol # <<>> /\ r.market # "" THEN "symbol-market"
    ELSE IF r.lei # "" THEN "lei"
    ELSE IF r.wikidata_id # "" THEN "wikidata"
    ELSE IF r.company_number # "" /\ r.jurisdiction # "" THEN "registry"
    ELSE IF r.country # "" THEN "name-country"
    ELSE "name"

IsTruthful(r) == KeyKind(r) = "name" \/ \E c \in Companies : r.of = {c} /\ Tells(r, c)

GoodRow(r) == IsRow(r) /\ Regular(r) /\ IsTruthful(r)

LEMMA KindIs ==
  ASSUME NEW r
  PROVE  /\ KeyKind(r) = "symbol" <=> r.symbol # <<>> /\ r.exchange # ""
         /\ KeyKind(r) = "symbol-market" <=> r.symbol # <<>> /\ r.exchange = "" /\ r.market # ""
         /\ KeyKind(r) = "lei" <=> ~(r.symbol # <<>> /\ (r.exchange # "" \/ r.market # "")) /\ r.lei # ""
         /\ KeyKind(r) = "wikidata" <=> /\ ~(r.symbol # <<>> /\ (r.exchange # "" \/ r.market # ""))
                                        /\ r.lei = "" /\ r.wikidata_id # ""
         /\ KeyKind(r) = "registry" <=> /\ ~(r.symbol # <<>> /\ (r.exchange # "" \/ r.market # ""))
                                        /\ r.lei = "" /\ r.wikidata_id = ""
                                        /\ r.company_number # "" /\ r.jurisdiction # ""
         /\ KeyKind(r) = "name-country" <=> /\ ~(r.symbol # <<>> /\ (r.exchange # "" \/ r.market # ""))
                                            /\ r.lei = "" /\ r.wikidata_id = ""
                                            /\ ~(r.company_number # "" /\ r.jurisdiction # "") /\ r.country # ""
         /\ KeyKind(r) = "name" <=> /\ ~(r.symbol # <<>> /\ (r.exchange # "" \/ r.market # ""))
                                    /\ r.lei = "" /\ r.wikidata_id = ""
                                    /\ ~(r.company_number # "" /\ r.jurisdiction # "") /\ r.country = ""
         /\ KeyKind(r) \in {"symbol", "symbol-market", "lei", "wikidata", "registry", "name-country", "name"}
  <1>1. CASE r.symbol # <<>> /\ r.exchange # ""
    BY <1>1 DEF KeyKind
  <1>2. CASE r.symbol # <<>> /\ r.exchange = "" /\ r.market # ""
    BY <1>2 DEF KeyKind
  <1>3. CASE ~(r.symbol # <<>> /\ (r.exchange # "" \/ r.market # ""))
    <2>1. CASE r.lei # ""
      BY <1>3, <2>1 DEF KeyKind
    <2>2. CASE r.lei = "" /\ r.wikidata_id # ""
      BY <1>3, <2>2 DEF KeyKind
    <2>3. CASE r.lei = "" /\ r.wikidata_id = "" /\ r.company_number # "" /\ r.jurisdiction # ""
      BY <1>3, <2>3 DEF KeyKind
    <2>4. CASE r.lei = "" /\ r.wikidata_id = "" /\ ~(r.company_number # "" /\ r.jurisdiction # "") /\ r.country # ""
      BY <1>3, <2>4 DEF KeyKind
    <2>5. CASE r.lei = "" /\ r.wikidata_id = "" /\ ~(r.company_number # "" /\ r.jurisdiction # "") /\ r.country = ""
      BY <1>3, <2>5 DEF KeyKind
    <2> QED
      BY <2>1, <2>2, <2>3, <2>4, <2>5
  <1> QED
    BY <1>1, <1>2, <1>3

KeyOfKind(kind, r) ==
    CASE kind = "symbol" -> <<"symbol", CanonicalSymbol(r.symbol), r.exchange>>
      [] kind = "symbol-market" -> <<"symbol-market", CanonicalSymbol(r.symbol), r.market>>
      [] kind = "lei" -> <<"lei", r.lei>>
      [] kind = "wikidata" -> <<"wikidata", r.wikidata_id>>
      [] kind = "registry" -> <<"registry", r.jurisdiction, r.company_number>>
      [] kind = "name-country" -> <<"name-country", r.name, r.country>>
      [] OTHER -> <<"name", r.name>>

LEMMA KeyIs ==
  ASSUME NEW r
  PROVE  CanonicalCompanyKey(r) = KeyOfKind(KeyKind(r), r) /\ CanonicalCompanyKey(r)[1] = KeyKind(r)
  <1>1. CASE KeyKind(r) = "symbol"
    BY <1>1, KindIs DEF CanonicalCompanyKey, KeyOfKind
  <1>2. CASE KeyKind(r) = "symbol-market"
    BY <1>2, KindIs DEF CanonicalCompanyKey, KeyOfKind
  <1>3. CASE KeyKind(r) = "lei"
    BY <1>3, KindIs DEF CanonicalCompanyKey, KeyOfKind
  <1>4. CASE KeyKind(r) = "wikidata"
    BY <1>4, KindIs DEF CanonicalCompanyKey, KeyOfKind
  <1>5. CASE KeyKind(r) = "registry"
    BY <1>5, KindIs DEF CanonicalCompanyKey, KeyOfKind
  <1>6. CASE KeyKind(r) = "name-country"
    BY <1>6, KindIs DEF CanonicalCompanyKey, KeyOfKind
  <1>7. CASE KeyKind(r) = "name"
    BY <1>7, KindIs DEF CanonicalCompanyKey, KeyOfKind
  <1> QED
    BY <1>1, <1>2, <1>3, <1>4, <1>5, <1>6, <1>7, KindIs

(* Equal keys are of one kind and agree in what the kind looks at.         *)
LEMMA SameKey ==
  ASSUME NEW r, NEW t, CanonicalCompanyKey(r) = CanonicalCompanyKey(t)
  PROVE  /\ KeyKind(r) = KeyKind(t)
         /\ KeyKind(r) = "symbol" => CanonicalSymbol(r.symbol) = CanonicalSymbol(t.symbol) /\ r.exchange = t.exchange
         /\ KeyKind(r) = "symbol-market" => CanonicalSymbol(r.symbol) = CanonicalSymbol(t.symbol) /\ r.market = t.market
         /\ KeyKind(r) = "lei" => r.lei = t.lei
         /\ KeyKind(r) = "wikidata" => r.wikidata_id = t.wikidata_id
         /\ KeyKind(r) = "registry" => r.jurisdiction = t.jurisdiction /\ r.company_number = t.company_number
         /\ KeyKind(r) = "name-country" => r.name = t.name /\ r.country = t.country
         /\ KeyKind(r) = "name" => r.name = t.name
  <1>1. KeyKind(r) = KeyKind(t)
    BY KeyIs
  <1>2. KeyOfKind(KeyKind(r), r) = KeyOfKind(KeyKind(r), t)
    BY <1>1, KeyIs
  <1>3. CASE KeyKind(r) = "symbol"
    BY <1>1, <1>2, <1>3 DEF KeyOfKind
  <1>4. CASE KeyKind(r) = "symbol-market"
    BY <1>1, <1>2, <1>4 DEF KeyOfKind
  <1>5. CASE KeyKind(r) = "lei"
    BY <1>1, <1>2, <1>5 DEF KeyOfKind
  <1>6. CASE KeyKind(r) = "wikidata"
    BY <1>1, <1>2, <1>6 DEF KeyOfKind
  <1>7. CASE KeyKind(r) = "registry"
    BY <1>1, <1>2, <1>7 DEF KeyOfKind
  <1>8. CASE KeyKind(r) = "name-country"
    BY <1>1, <1>2, <1>8 DEF KeyOfKind
  <1>9. CASE KeyKind(r) = "name"
    BY <1>1, <1>2, <1>9 DEF KeyOfKind
  <1> QED
    BY <1>1, <1>3, <1>4, <1>5, <1>6, <1>7, <1>8, <1>9, KindIs

(* Scores: natural numbers, which leave the identity of a row alone.       *)
SameIdentity(r, t) ==
    /\ r.of = t.of /\ r.name = t.name /\ r.symbol = t.symbol /\ r.exchange = t.exchange /\ r.market = t.market
    /\ r.country = t.country /\ r.lei = t.lei /\ r.wikidata_id = t.wikidata_id
    /\ r.jurisdiction = t.jurisdiction /\ r.company_number = t.company_number

LEMMA IdentityDecides ==
  ASSUME NEW r, NEW t, SameIdentity(r, t), GoodRow(r), IsRow(t)
  PROVE  GoodRow(t) /\ CanonicalCompanyKey(t) = CanonicalCompanyKey(r)
  <1>1. KeyKind(t) = KeyKind(r)
    BY DEF SameIdentity, KeyKind
  <1>2. CanonicalCompanyKey(t) = CanonicalCompanyKey(r)
    BY DEF SameIdentity, CanonicalCompanyKey
  <1>3. Regular(t)
    BY DEF SameIdentity, GoodRow, Regular
  <1>4. \A c \in Companies : Tells(r, c) => Tells(t, c)
    BY DEF SameIdentity, Tells
  <1>5. IsTruthful(t)
    <2>1. CASE KeyKind(r) = "name"
      BY <1>1, <2>1 DEF IsTruthful
    <2>2. CASE \E c \in Companies : r.of = {c} /\ Tells(r, c)
      BY <1>4, <2>2 DEF IsTruthful, SameIdentity
    <2> QED
      BY <2>1, <2>2 DEF GoodRow, IsTruthful
  <1> QED
    BY <1>2, <1>3, <1>5 DEF GoodRow

LEMMA AuthorityIsNatural ==
  ASSUME NEW p
  PROVE  AuthorityOf(p) \in Nat
  <1>1. \A a \in DOMAIN Authority : Authority[a] \in Nat
    BY DEF Authority
  <1> QED
    BY <1>1 DEF AuthorityOf

LEMMA EarnedIsNatural ==
  ASSUME NEW r, r.score \in Nat, NEW q
  PROVE  Earned(r, q)[1] \in Nat
  <1>1. \A a \in DOMAIN EarnedByLikeness : EarnedByLikeness[a] \in Nat
    BY DEF EarnedByLikeness
  <1>2. \A a \in Nat : Largest(r.score, a) \in Nat
    BY DEF Largest
  <1> DEFINE level == q.text.alike[CompanyOf(r)]
  <1>3. level \in DOMAIN EarnedByLikeness => Largest(r.score, EarnedByLikeness[level]) \in Nat
    BY <1>1, <1>2
  <1>4. Largest(r.score, 95) \in Nat /\ Largest(r.score, 93) \in Nat
    BY <1>2
  <1> QED
    BY <1>3, <1>4 DEF Earned

LEMMA ScoreKeeps ==
  ASSUME NEW r, GoodRow(r), NEW q
  PROVE  /\ GoodRow(ScoreCompany(r, q))
         /\ CanonicalCompanyKey(ScoreCompany(r, q)) = CanonicalCompanyKey(r)
  <1> DEFINE earned == Earned(r, q)
             bonus == (IF AuthorityOf(r.provider) > 70 THEN Smallest(8, (AuthorityOf(r.provider) - 70) \div 5) ELSE 0)
                      + (IF r.symbol # <<>> /\ r.exchange # "" THEN 4 ELSE 0)
             malus == (IF r.symbol = <<>> /\ {r.lei, r.wikidata_id, r.company_number, r.source_url} = {""}
                       THEN 10 ELSE 0)
                      + (IF Facts[CompanyOf(r)].fund /\ q.kind = "name" THEN 15 ELSE 0)
                      + (IF r.provider = "wikidata" /\ q.symbol # <<>> THEN 12 ELSE 0)
                      + (IF q.kind = "name" /\ CompanyOf(r) \in q.text.collides \ q.text.seeded THEN 30 ELSE 0)
             points == Smallest(100, IF earned[1] + bonus > malus THEN earned[1] + bonus - malus ELSE 0)
  <1>1. earned[1] \in Nat
    BY EarnedIsNatural DEF GoodRow, IsRow
  <1>2. bonus \in Nat
    <2>1. AuthorityOf(r.provider) \in Nat
      BY AuthorityIsNatural
    <2> HIDE DEF earned
    <2> DEFINE first == IF AuthorityOf(r.provider) > 70 THEN Smallest(8, (AuthorityOf(r.provider) - 70) \div 5) ELSE 0
               second == IF r.symbol # <<>> /\ r.exchange # "" THEN 4 ELSE 0
    <2>2. first \in Nat
      BY <2>1 DEF Smallest
    <2>3. second \in Nat
      OBVIOUS
    <2> HIDE DEF first, second
    <2>4. first + second \in Nat
      BY <2>2, <2>3
    <2> QED
      BY <2>4 DEF first, second
  <1>3. malus \in Nat
    <2> DEFINE first == IF r.symbol = <<>> /\ {r.lei, r.wikidata_id, r.company_number, r.source_url} = {""}
                        THEN 10 ELSE 0
               second == IF Facts[CompanyOf(r)].fund /\ q.kind = "name" THEN 15 ELSE 0
               third == IF r.provider = "wikidata" /\ q.symbol # <<>> THEN 12 ELSE 0
               fourth == IF q.kind = "name" /\ CompanyOf(r) \in q.text.collides \ q.text.seeded THEN 30 ELSE 0
    <2>1. first \in Nat /\ second \in Nat
      OBVIOUS
    <2>2. third \in Nat /\ fourth \in Nat
      OBVIOUS
    <2> HIDE DEF first, second, third, fourth
    <2>3. first + second + third + fourth \in Nat
      BY <2>1, <2>2
    <2> QED
      BY <2>3 DEF first, second, third, fourth
  <1> DEFINE t == ScoreCompany(r, q)
  <1>4. t = [r EXCEPT !.score = points, !.reason = earned[2]]
    BY DEF ScoreCompany
  <1> HIDE DEF earned, bonus, malus, t
  <1>5. points \in Nat
    BY <1>1, <1>2, <1>3 DEF Smallest
  <1> HIDE DEF points
  <1>6. DOMAIN r = RowFields
    BY DEF GoodRow, IsRow
  <1>7. IsRow(t) /\ SameIdentity(r, t)
    BY <1>4, <1>5, <1>6 DEF IsRow, SameIdentity, RowFields
  <1>8. GoodRow(t) /\ CanonicalCompanyKey(t) = CanonicalCompanyKey(r)
    BY <1>7, IdentityDecides
  <1> QED
    BY <1>8 DEF t

(* Merging: a row filled in with one of the same key.                      *)
LEMMA FilledFields ==
  ASSUME NEW p, DOMAIN p = RowFields, NEW s
  PROVE  /\ DOMAIN Filled(p, s) = RowFields
         /\ Filled(p, s).symbol = IF p.symbol = <<>> THEN s.symbol ELSE p.symbol
         /\ Filled(p, s).exchange = IF p.exchange = "" THEN s.exchange ELSE p.exchange
         /\ Filled(p, s).market = IF p.market = "" THEN s.market ELSE p.market
         /\ Filled(p, s).country = IF p.country = "" THEN s.country ELSE p.country
         /\ Filled(p, s).lei = IF p.lei = "" THEN s.lei ELSE p.lei
         /\ Filled(p, s).wikidata_id = IF p.wikidata_id = "" THEN s.wikidata_id ELSE p.wikidata_id
         /\ Filled(p, s).jurisdiction = IF p.jurisdiction = "" THEN s.jurisdiction ELSE p.jurisdiction
         /\ Filled(p, s).company_number = IF p.company_number = "" THEN s.company_number ELSE p.company_number
         /\ Filled(p, s).of = p.of \cup s.of
         /\ Filled(p, s).name = p.name /\ Filled(p, s).score = p.score
  <1> DEFINE Cell(f) ==
               CASE f = "symbol" -> IF p.symbol = <<>> THEN s.symbol ELSE p.symbol
                 [] f \in IdentityFields \ {"symbol"} -> IF p[f] = "" THEN s[f] ELSE p[f]
                 [] f = "of" -> p.of \cup s.of
                 [] f = "sources" -> p.sources \cup s.sources
                 [] OTHER -> p[f]
  <1>1. DOMAIN Filled(p, s) = RowFields /\ \A f \in RowFields : Filled(p, s)[f] = Cell(f)
    BY DEF Filled
  <1>2. Cell("symbol") = IF p.symbol = <<>> THEN s.symbol ELSE p.symbol
    BY DEF IdentityFields
  <1>3. \A f \in IdentityFields \ {"symbol"} : Cell(f) = IF p[f] = "" THEN s[f] ELSE p[f]
    BY DEF IdentityFields
  <1>4. Cell("of") = p.of \cup s.of
    BY DEF IdentityFields
  <1>5. Cell("name") = p["name"] /\ Cell("score") = p["score"]
    BY DEF IdentityFields
  <1> HIDE DEF Cell
  <1> QED
    BY <1>1, <1>2, <1>3, <1>4, <1>5 DEF RowFields, IdentityFields

(* What does not decide the key is missing in both, or decides it later.   *)
LEMMA FilledKeepsKey ==
  ASSUME NEW p, GoodRow(p), NEW s, GoodRow(s), CanonicalCompanyKey(p) = CanonicalCompanyKey(s)
  PROVE  /\ CanonicalCompanyKey(Filled(p, s)) = CanonicalCompanyKey(p)
         /\ Regular(Filled(p, s))
  <1> DEFINE m == Filled(p, s)
  <1>1. /\ m.symbol = IF p.symbol = <<>> THEN s.symbol ELSE p.symbol
        /\ m.exchange = IF p.exchange = "" THEN s.exchange ELSE p.exchange
        /\ m.market = IF p.market = "" THEN s.market ELSE p.market
        /\ m.country = IF p.country = "" THEN s.country ELSE p.country
        /\ m.lei = IF p.lei = "" THEN s.lei ELSE p.lei
        /\ m.wikidata_id = IF p.wikidata_id = "" THEN s.wikidata_id ELSE p.wikidata_id
        /\ m.jurisdiction = IF p.jurisdiction = "" THEN s.jurisdiction ELSE p.jurisdiction
        /\ m.company_number = IF p.company_number = "" THEN s.company_number ELSE p.company_number
        /\ m.name = p.name
    BY FilledFields DEF GoodRow, IsRow
  <1> HIDE DEF m
  <1>2. Regular(p) /\ Regular(s)
    BY DEF GoodRow
  <1>3. Regular(m)
    BY <1>1, <1>2 DEF Regular
  <1>4. KeyKind(p) = KeyKind(s)
    BY SameKey
  <1>5. KeyOfKind(KeyKind(p), m) = KeyOfKind(KeyKind(p), p) /\ KeyKind(m) = KeyKind(p)
    <2>1. CASE KeyKind(p) = "symbol"
      <3>1. p.symbol # <<>> /\ p.exchange # ""
        BY <2>1, KindIs
      <3>2. m.symbol = p.symbol /\ m.exchange = p.exchange
        BY <1>1, <3>1
      <3> QED
        BY <2>1, <3>1, <3>2 DEF KeyOfKind, KeyKind
    <2>2. CASE KeyKind(p) = "symbol-market"
      <3>1. p.symbol # <<>> /\ p.exchange = "" /\ p.market # "" /\ s.exchange = ""
        BY <1>4, <2>2, KindIs
      <3>2. m.symbol = p.symbol /\ m.exchange = "" /\ m.market = p.market
        BY <1>1, <3>1
      <3> QED
        BY <2>2, <3>1, <3>2 DEF KeyOfKind, KeyKind
    <2>3. CASE KeyKind(p) \notin {"symbol", "symbol-market"}
      <3>1. /\ ~(p.symbol # <<>> /\ (p.exchange # "" \/ p.market # ""))
            /\ ~(s.symbol # <<>> /\ (s.exchange # "" \/ s.market # ""))
        BY <1>4, <2>3, KindIs
      <3>2. m.exchange = "" /\ m.market = ""
        BY <1>1, <1>2, <3>1 DEF Regular
      <3>3. CASE KeyKind(p) = "lei"
        <4>1. p.lei # "" /\ m.lei = p.lei
          BY <1>1, <3>3, KindIs
        <4> QED
          BY <3>2, <3>3, <4>1 DEF KeyOfKind, KeyKind
      <3>4. CASE KeyKind(p) = "wikidata"
        <4>1. p.lei = "" /\ s.lei = "" /\ p.wikidata_id # ""
          BY <1>4, <3>4, KindIs
        <4>2. m.lei = "" /\ m.wikidata_id = p.wikidata_id
          BY <1>1, <4>1
        <4> QED
          BY <3>2, <3>4, <4>1, <4>2 DEF KeyOfKind, KeyKind
      <3>5. CASE KeyKind(p) = "registry"
        <4>1. /\ p.lei = "" /\ s.lei = "" /\ p.wikidata_id = "" /\ s.wikidata_id = ""
              /\ p.company_number # "" /\ p.jurisdiction # ""
          BY <1>4, <3>5, KindIs
        <4>2. /\ m.lei = "" /\ m.wikidata_id = "" /\ m.company_number = p.company_number
              /\ m.jurisdiction = p.jurisdiction
          BY <1>1, <4>1
        <4> QED
          BY <3>2, <3>5, <4>1, <4>2 DEF KeyOfKind, KeyKind
      <3>6. CASE KeyKind(p) \in {"name-country", "name"}
        <4>1. /\ p.lei = "" /\ s.lei = "" /\ p.wikidata_id = "" /\ s.wikidata_id = ""
              /\ ~(p.company_number # "" /\ p.jurisdiction # "")
              /\ ~(s.company_number # "" /\ s.jurisdiction # "")
          BY <1>4, <3>6, KindIs
        <4>2. p.company_number = "" /\ s.company_number = ""
          BY <1>2, <4>1 DEF Regular
        <4>3. m.lei = "" /\ m.wikidata_id = "" /\ m.company_number = ""
          BY <1>1, <4>1, <4>2
        <4>4. CASE KeyKind(p) = "name-country"
          <5>1. p.country # "" /\ m.country = p.country
            BY <1>1, <4>4, KindIs
          <5> QED
            BY <1>1, <3>2, <4>3, <4>4, <5>1 DEF KeyOfKind, KeyKind
        <4>5. CASE KeyKind(p) = "name"
          <5>1. p.country = "" /\ s.country = ""
            BY <1>4, <4>5, KindIs
          <5>2. m.country = ""
            BY <1>1, <5>1
          <5> QED
            BY <1>1, <3>2, <4>3, <4>5, <5>2 DEF KeyOfKind, KeyKind
        <4> QED
          BY <3>6, <4>4, <4>5
      <3> QED
        BY <2>3, <3>3, <3>4, <3>5, <3>6, KindIs
    <2> QED
      BY <2>1, <2>2, <2>3
  <1>6. CanonicalCompanyKey(m) = CanonicalCompanyKey(p)
    <2>1. /\ CanonicalCompanyKey(m) = KeyOfKind(KeyKind(m), m)
          /\ CanonicalCompanyKey(p) = KeyOfKind(KeyKind(p), p)
      BY KeyIs
    <2> QED
      BY <1>5, <2>1
  <1> QED
    BY <1>3, <1>6 DEF m

(* Rows of one key, unless it is a mere name, are about one company.       *)
LEMMA OneCompany ==
  ASSUME NEW p, NEW s, CanonicalCompanyKey(p) = CanonicalCompanyKey(s), KeyKind(p) # "name",
         NEW c \in Companies, Tells(p, c), NEW d \in Companies, Tells(s, d)
  PROVE  c = d
  <1> SUFFICES ASSUME c # d
               PROVE  FALSE
    OBVIOUS
  <1>0. /\ Facts[c].symbol = Facts[d].symbol => PlacesOf(c) \cap PlacesOf(d) = {}
        /\ Facts[c].lei = Facts[d].lei => Facts[c].lei = ""
        /\ Facts[c].wikidata_id = Facts[d].wikidata_id => Facts[c].wikidata_id = ""
        /\ Facts[c].jurisdiction = Facts[d].jurisdiction /\ Facts[c].company_number = Facts[d].company_number
             => Facts[c].company_number = ""
        /\ Facts[c].name = Facts[d].name /\ Facts[c].country = Facts[d].country => Facts[c].country = ""
    BY IdentifiersAssumption
  <1>1. KeyKind(s) = KeyKind(p)
    BY SameKey
  <1>2. CASE KeyKind(p) = "symbol"
    <2>1. /\ p.symbol # <<>> /\ s.symbol # <<>> /\ p.exchange # "" /\ s.exchange # ""
          /\ CanonicalSymbol(p.symbol) = CanonicalSymbol(s.symbol) /\ p.exchange = s.exchange
      BY <1>1, <1>2, SameKey, KindIs
    <2>2. /\ Facts[c].symbol = Facts[d].symbol /\ p.exchange \in PlacesOf(c) /\ p.exchange \in PlacesOf(d)
      BY <2>1 DEF Tells
    <2> QED
      BY <1>0, <2>2
  <1>3. CASE KeyKind(p) = "symbol-market"
    <2>1. /\ p.symbol # <<>> /\ s.symbol # <<>> /\ p.market # "" /\ s.market # ""
          /\ CanonicalSymbol(p.symbol) = CanonicalSymbol(s.symbol) /\ p.market = s.market
      BY <1>1, <1>3, SameKey, KindIs
    <2>2. /\ Facts[c].symbol = Facts[d].symbol /\ p.market \in PlacesOf(c) /\ p.market \in PlacesOf(d)
      BY <2>1 DEF Tells
    <2> QED
      BY <1>0, <2>2
  <1>4. CASE KeyKind(p) = "lei"
    <2>1. p.lei # "" /\ p.lei = s.lei
      BY <1>4, SameKey, KindIs
    <2> QED
      BY <1>0, <2>1 DEF Tells
  <1>5. CASE KeyKind(p) = "wikidata"
    <2>1. p.wikidata_id # "" /\ p.wikidata_id = s.wikidata_id
      BY <1>5, SameKey, KindIs
    <2> QED
      BY <1>0, <2>1 DEF Tells
  <1>6. CASE KeyKind(p) = "registry"
    <2>1. /\ p.company_number # "" /\ p.jurisdiction # ""
          /\ p.jurisdiction = s.jurisdiction /\ p.company_number = s.company_number
      BY <1>6, SameKey, KindIs
    <2> QED
      BY <1>0, <2>1 DEF Tells
  <1>7. CASE KeyKind(p) = "name-country"
    <2>1. p.country # "" /\ p.name = s.name /\ p.country = s.country
      BY <1>7, SameKey, KindIs
    <2> QED
      BY <1>0, <2>1 DEF Tells
  <1> QED
    BY <1>2, <1>3, <1>4, <1>5, <1>6, <1>7, KindIs

LEMMA FilledIsGood ==
  ASSUME NEW p, GoodRow(p), NEW s, GoodRow(s), CanonicalCompanyKey(p) = CanonicalCompanyKey(s)
  PROVE  GoodRow(Filled(p, s))
  <1> DEFINE m == Filled(p, s)
  <1>1. /\ DOMAIN m = RowFields
        /\ m.symbol = IF p.symbol = <<>> THEN s.symbol ELSE p.symbol
        /\ m.exchange = IF p.exchange = "" THEN s.exchange ELSE p.exchange
        /\ m.market = IF p.market = "" THEN s.market ELSE p.market
        /\ m.country = IF p.country = "" THEN s.country ELSE p.country
        /\ m.lei = IF p.lei = "" THEN s.lei ELSE p.lei
        /\ m.wikidata_id = IF p.wikidata_id = "" THEN s.wikidata_id ELSE p.wikidata_id
        /\ m.jurisdiction = IF p.jurisdiction = "" THEN s.jurisdiction ELSE p.jurisdiction
        /\ m.company_number = IF p.company_number = "" THEN s.company_number ELSE p.company_number
        /\ m.of = p.of \cup s.of
        /\ m.name = p.name /\ m.score = p.score
    BY FilledFields DEF GoodRow, IsRow
  <1>2. CanonicalCompanyKey(m) = CanonicalCompanyKey(p) /\ Regular(m)
    BY FilledKeepsKey
  <1> HIDE DEF m
  <1>3. KeyKind(m) = KeyKind(p) /\ KeyKind(s) = KeyKind(p)
    BY <1>2, SameKey
  <1>4. IsTruthful(m)
    <2>1. CASE KeyKind(p) = "name"
      BY <1>3, <2>1 DEF IsTruthful
    <2>2. CASE KeyKind(p) # "name"
      <3>1. PICK c \in Companies : p.of = {c} /\ Tells(p, c)
        BY <2>2 DEF GoodRow, IsTruthful
      <3>2. PICK d \in Companies : s.of = {d} /\ Tells(s, d)
        BY <1>3, <2>2 DEF GoodRow, IsTruthful
      <3>3. c = d
        BY <2>2, <3>1, <3>2, OneCompany
      <3>4. m.of = {c}
        BY <1>1, <3>1, <3>2, <3>3
      <3>5. Tells(m, c)
        BY <1>1, <3>1, <3>2, <3>3 DEF Tells
      <3> QED
        BY <3>4, <3>5 DEF IsTruthful
    <2> QED
      BY <2>1, <2>2
  <1>5. IsRow(m)
    BY <1>1 DEF GoodRow, IsRow
  <1>6. GoodRow(m)
    BY <1>2, <1>4, <1>5 DEF GoodRow
  <1> QED
    BY <1>6 DEF m

LEMMA MergeIsGood ==
  ASSUME NEW existing, GoodRow(existing), NEW incoming, GoodRow(incoming),
         CanonicalCompanyKey(existing) = CanonicalCompanyKey(incoming)
  PROVE  /\ GoodRow(MergeCompany(existing, incoming))
         /\ CanonicalCompanyKey(MergeCompany(existing, incoming)) = CanonicalCompanyKey(existing)
  <1> DEFINE newer == Weight(incoming) > Weight(existing)
             p == IF newer THEN incoming ELSE existing
             s == IF newer THEN existing ELSE incoming
             m == Filled(p, s)
             points == Smallest(100, Largest(p.score, s.score) + 3)
             t == [m EXCEPT !.score = points, !.reason = "several sources"]
  <1>1. /\ GoodRow(p) /\ GoodRow(s) /\ CanonicalCompanyKey(p) = CanonicalCompanyKey(existing)
        /\ CanonicalCompanyKey(s) = CanonicalCompanyKey(existing)
    <2> HIDE DEF newer
    <2>1. CASE newer
      BY <2>1
    <2>2. CASE ~newer
      BY <2>2
    <2> QED
      BY <2>1, <2>2
  <1>2. MergeCompany(existing, incoming) = IF p.provider = s.provider THEN m ELSE t
    BY DEF MergeCompany
  <1> HIDE DEF p, s
  <1>3. GoodRow(m) /\ CanonicalCompanyKey(m) = CanonicalCompanyKey(existing)
    BY <1>1, FilledIsGood, FilledKeepsKey
  <1> HIDE DEF m
  <1>4. points \in Nat
    BY <1>1 DEF GoodRow, IsRow, Smallest, Largest
  <1> HIDE DEF points
  <1>5. IsRow(t) /\ SameIdentity(m, t)
    BY <1>3, <1>4 DEF GoodRow, IsRow, SameIdentity, RowFields
  <1> HIDE DEF t
  <1>6. GoodRow(t) /\ CanonicalCompanyKey(t) = CanonicalCompanyKey(existing)
    BY <1>3, <1>5, IdentityDecides
  <1> QED
    BY <1>2, <1>3, <1>6

(* A sequence is one over its own elements.                                *)
LEMMA OverItsElements ==
  ASSUME NEW S, NEW s \in Seq(S)
  PROVE  s \in Seq(ToSet(s)) /\ ToSet(s) \in SUBSET S /\ ToSet(s) = {s[i] : i \in 1..Len(s)}
  <1>1. s \in [1..Len(s) -> S] /\ Len(s) \in Nat /\ DOMAIN s = 1..Len(s)
    BY LenProperties
  <1>2. ToSet(s) = {s[i] : i \in 1..Len(s)}
    BY <1>1 DEF ToSet
  <1>3. s \in [1..Len(s) -> ToSet(s)] /\ ToSet(s) \in SUBSET S
    BY <1>1, <1>2
  <1>4. s \in Seq(ToSet(s))
    BY <1>1, <1>3, SeqDef
  <1> QED
    BY <1>2, <1>3, <1>4

GoodRows(rows) == rows \in Seq(ToSet(rows)) /\ \A r \in ToSet(rows) : GoodRow(r)

(* A row under its key, and such rows under keys that differ.              *)
IsEntry(e) == GoodRow(e.row) /\ e = [key |-> CanonicalCompanyKey(e.row), row |-> e.row]

KeysApart(entries) == \A i, j \in DOMAIN entries : entries[i].key = entries[j].key => i = j

GoodEntries(entries) ==
    entries \in Seq(ToSet(entries)) /\ (\A e \in ToSet(entries) : IsEntry(e)) /\ KeysApart(entries)

EntryKeys(entries) == {entries[i].key : i \in DOMAIN entries}

LEMMA GoodRowsAre ==
  ASSUME NEW S, \A r \in S : GoodRow(r), NEW rows \in Seq(S)
  PROVE  GoodRows(rows)
  BY OverItsElements DEF GoodRows

LEMMA GoodRowAt ==
  ASSUME NEW rows, GoodRows(rows)
  PROVE  /\ Len(rows) \in Nat /\ DOMAIN rows = 1..Len(rows)
         /\ \A i \in DOMAIN rows : GoodRow(rows[i])
  <1>1. rows \in Seq(ToSet(rows)) /\ \A r \in ToSet(rows) : GoodRow(r)
    BY DEF GoodRows
  <1>2. /\ Len(rows) \in Nat /\ DOMAIN rows = 1..Len(rows)
        /\ ToSet(rows) = {rows[i] : i \in 1..Len(rows)}
    BY <1>1, LenProperties, OverItsElements
  <1> QED
    BY <1>1, <1>2

LEMMA GoodEntryAt ==
  ASSUME NEW entries, GoodEntries(entries)
  PROVE  /\ Len(entries) \in Nat /\ DOMAIN entries = 1..Len(entries)
         /\ \A i \in DOMAIN entries :
              IsEntry(entries[i]) /\ entries[i].key = CanonicalCompanyKey(entries[i].row)
  <1>1. entries \in Seq(ToSet(entries)) /\ \A e \in ToSet(entries) : IsEntry(e)
    BY DEF GoodEntries
  <1>2. /\ Len(entries) \in Nat /\ DOMAIN entries = 1..Len(entries)
        /\ ToSet(entries) = {entries[i] : i \in 1..Len(entries)}
    BY <1>1, LenProperties, OverItsElements
  <1>3. \A i \in DOMAIN entries : IsEntry(entries[i])
    BY <1>1, <1>2
  <1>4. \A i \in DOMAIN entries : entries[i].key = CanonicalCompanyKey(entries[i].row)
    BY <1>3 DEF IsEntry
  <1> QED
    BY <1>2, <1>3, <1>4

LEMMA WithRowIsGood ==
  ASSUME NEW entries, GoodEntries(entries), NEW row, GoodRow(row)
  PROVE  /\ GoodEntries(WithRow(entries, row))
         /\ EntryKeys(WithRow(entries, row)) = EntryKeys(entries) \cup {CanonicalCompanyKey(row)}
  <1> DEFINE key == CanonicalCompanyKey(row)
             S == ToSet(entries)
             len == Len(entries)
  <1>1. /\ len \in Nat /\ DOMAIN entries = 1..len
        /\ \A i \in DOMAIN entries :
              IsEntry(entries[i]) /\ entries[i].key = CanonicalCompanyKey(entries[i].row)
    BY GoodEntryAt
  <1>2. entries \in Seq(S) /\ (\A e \in S : IsEntry(e)) /\ KeysApart(entries)
    BY DEF GoodEntries
  <1>3. CASE \E i \in DOMAIN entries : entries[i].key = key
    <2> DEFINE at == CHOOSE i \in DOMAIN entries : entries[i].key = key
               e == [entries[at] EXCEPT !.row = MergeCompany(entries[at].row, row)]
               new == [entries EXCEPT ![at] = e]
    <2>1. at \in 1..len /\ entries[at].key = key
      BY <1>1, <1>3
    <2>2. WithRow(entries, row) = new
      BY <1>3 DEF WithRow
    <2> HIDE DEF at
    <2>3. GoodRow(entries[at].row) /\ CanonicalCompanyKey(entries[at].row) = key
      BY <1>1, <2>1 DEF IsEntry
    <2>4. /\ GoodRow(MergeCompany(entries[at].row, row))
          /\ CanonicalCompanyKey(MergeCompany(entries[at].row, row)) = key
      BY <2>3, MergeIsGood
    <2>5. IsEntry(e) /\ e.key = key
      <3>1. entries[at] = [key |-> key, row |-> entries[at].row]
        BY <1>1, <2>1, <2>3 DEF IsEntry
      <3>2. e = [key |-> key, row |-> MergeCompany(entries[at].row, row)]
        BY <3>1
      <3> HIDE DEF e, key
      <3>3. e.row = MergeCompany(entries[at].row, row) /\ e.key = key
        BY <3>2
      <3> QED
        BY <2>4, <3>2, <3>3 DEF IsEntry
    <2> HIDE DEF e
    <2>6. /\ new \in Seq(S \cup {e}) /\ Len(new) = len
          /\ \A j \in 1..len : new[j] = IF j = at THEN e ELSE entries[j]
      <3>1. entries \in Seq(S \cup {e})
        BY <1>2, SeqMonotonic
      <3> HIDE DEF S
      <3> QED
        BY <2>1, <3>1, ExceptSeq
    <2> HIDE DEF new
    <2>7. DOMAIN new = 1..len
      BY <2>6, LenProperties
    <2>8. \A j \in 1..len : new[j].key = entries[j].key
      BY <2>1, <2>5, <2>6
    <2>9. KeysApart(new)
      BY <1>1, <1>2, <2>7, <2>8 DEF KeysApart
    <2>10. GoodEntries(new)
      BY <1>2, <2>5, <2>6, <2>9, OverItsElements DEF GoodEntries
    <2>11. EntryKeys(new) = EntryKeys(entries)
      BY <1>1, <2>7, <2>8 DEF EntryKeys
    <2>12. key \in EntryKeys(entries)
      BY <1>1, <2>1 DEF EntryKeys
    <2> QED
      BY <2>2, <2>10, <2>11, <2>12
  <1>4. CASE ~\E i \in DOMAIN entries : entries[i].key = key
    <2> DEFINE e == [key |-> key, row |-> row]
               new == Append(entries, e)
    <2>1. WithRow(entries, row) = new
      BY <1>4 DEF WithRow
    <2>2. IsEntry(e) /\ e.key = key
      BY DEF IsEntry
    <2> HIDE DEF e
    <2>3. /\ new \in Seq(S \cup {e}) /\ Len(new) = len + 1
          /\ \A j \in 1..len : new[j] = entries[j]
          /\ new[len + 1] = e
      <3>1. entries \in Seq(S \cup {e})
        BY <1>2, SeqMonotonic
      <3> HIDE DEF S
      <3> QED
        BY <3>1, AppendProperties
    <2> HIDE DEF new
    <2>4. DOMAIN new = 1..len + 1 /\ 1..len + 1 = (1..len) \cup {len + 1}
      BY <1>1, <2>3, LenProperties
    <2>5. KeysApart(new)
      <3> SUFFICES ASSUME NEW i \in 1..len + 1, NEW j \in 1..len + 1, new[i].key = new[j].key
                   PROVE  i = j
        BY <2>4 DEF KeysApart
      <3>1. CASE i \in 1..len /\ j \in 1..len
        BY <1>1, <1>2, <2>3, <3>1 DEF KeysApart
      <3>2. CASE i \in 1..len /\ j = len + 1
        <4>1. entries[i].key = key
          BY <2>2, <2>3, <3>2
        <4> QED
          BY <1>1, <1>4, <3>2, <4>1
      <3>3. CASE i = len + 1 /\ j \in 1..len
        <4>1. entries[j].key = key
          BY <2>2, <2>3, <3>3
        <4> QED
          BY <1>1, <1>4, <3>3, <4>1
      <3> QED
        BY <2>4, <3>1, <3>2, <3>3
    <2>6. GoodEntries(new)
      BY <1>2, <2>2, <2>3, <2>5, OverItsElements DEF GoodEntries
    <2>7. EntryKeys(new) = EntryKeys(entries) \cup {key}
      <3>1. \A j \in 1..len : new[j].key = entries[j].key
        BY <2>3
      <3>2. new[len + 1].key = key
        BY <2>2, <2>3
      <3> HIDE DEF key
      <3> QED
        BY <1>1, <2>4, <3>1, <3>2 DEF EntryKeys
    <2> QED
      BY <2>1, <2>6, <2>7
  <1> QED
    BY <1>3, <1>4

(* The recursion of Deduped.                                               *)
LEMMA DedupedFollows ==
  ASSUME NEW rows, Len(rows) \in Nat, NEW q
  PROVE  \E upTo : /\ upTo[0] = <<>>
                   /\ \A n \in 1..Len(rows) : upTo[n] = WithRow(upTo[n - 1], ScoreCompany(rows[n], q))
                   /\ Deduped(rows, q) = upTo[Len(rows)]
  <1> DEFINE Step(f, n) == IF n = 0 THEN <<>> ELSE WithRow(f[n - 1], ScoreCompany(rows[n], q))
             T == {m \in Nat : \E f : f = [n \in 0..m |-> Step(f, n)]}
             len == Len(rows)
  <1>1. 0 \in T
    <2> DEFINE f == [n \in 0..0 |-> <<>>]
    <2>1. f = [n \in 0..0 |-> Step(f, n)]
      OBVIOUS
    <2> HIDE DEF f
    <2> QED
      BY <2>1
  <1>2. \A m \in T : m + 1 \in T
    <2> SUFFICES ASSUME NEW m \in T
                 PROVE  m + 1 \in T
      OBVIOUS
    <2>1. PICK f : f = [n \in 0..m |-> Step(f, n)]
      OBVIOUS
    <2> DEFINE g == [n \in 0..m + 1 |-> IF n = m + 1 THEN Step(f, n) ELSE f[n]]
    <2>2. m \in Nat
      OBVIOUS
    <2>3. \A n \in 0..m + 1 : g[n] = Step(g, n)
      <3> SUFFICES ASSUME NEW n \in 0..m + 1
                   PROVE  g[n] = Step(g, n)
        OBVIOUS
      <3>1. CASE n = 0
        BY <2>1, <2>2, <3>1
      <3>2. CASE n # 0
        <4>1. n - 1 \in 0..m /\ n - 1 # m + 1 /\ n - 1 \in 0..m + 1
          BY <2>2, <3>2
        <4>2. g[n - 1] = f[n - 1]
          BY <4>1
        <4>3. g[n] = Step(f, n)
          <5>1. CASE n = m + 1
            BY <5>1
          <5>2. CASE n # m + 1
            <6>1. n \in 0..m
              BY <2>2, <5>2
            <6> HIDE DEF Step
            <6> QED
              BY <2>1, <5>2, <6>1
          <5> QED
            BY <5>1, <5>2
        <4> HIDE DEF g
        <4> QED
          BY <4>2, <4>3
      <3> QED
        BY <3>1, <3>2
    <2>4. g = [n \in 0..m + 1 |-> Step(g, n)]
      <3> HIDE DEF Step
      <3> QED
        BY <2>3
    <2> HIDE DEF g, Step
    <2> QED
      BY <2>2, <2>4
  <1>3. len \in T
    <2>1. T \in SUBSET Nat
      OBVIOUS
    <2> HIDE DEF T
    <2> QED
      BY <1>1, <1>2, <2>1, NaturalInduction
  <1> DEFINE upTo == CHOOSE f : f = [n \in 0..len |-> Step(f, n)]
  <1>4. upTo = [n \in 0..len |-> Step(upTo, n)]
    <2>1. PICK f : f = [n \in 0..len |-> Step(f, n)]
      BY <1>3
    <2> HIDE DEF Step
    <2> QED
      BY <2>1
  <1>5. Deduped(rows, q) = upTo[len]
    BY DEF Deduped
  <1> HIDE DEF upTo
  <1>6. upTo[0] = <<>>
    BY <1>4
  <1>7. \A n \in 1..len : upTo[n] = WithRow(upTo[n - 1], ScoreCompany(rows[n], q))
    <2> SUFFICES ASSUME NEW n \in 1..len
                 PROVE  upTo[n] = WithRow(upTo[n - 1], ScoreCompany(rows[n], q))
      OBVIOUS
    <2>1. n \in 0..len /\ n # 0
      OBVIOUS
    <2>2. upTo[n] = Step(upTo, n)
      <3> HIDE DEF Step
      <3> QED
        BY <1>4, <2>1
    <2> HIDE DEF len
    <2> QED
      BY <2>1, <2>2
  <1> QED
    BY <1>5, <1>6, <1>7

(* One entry for each key of the rows, and no others.                      *)
LEMMA DedupedIsGood ==
  ASSUME NEW rows, GoodRows(rows), NEW q
  PROVE  GoodEntries(Deduped(rows, q)) /\ EntryKeys(Deduped(rows, q)) = KeysOf(rows)
  <1> DEFINE len == Len(rows)
  <1>0. len \in Nat /\ DOMAIN rows = 1..len /\ \A i \in 1..len : GoodRow(rows[i])
    BY GoodRowAt
  <1>1. PICK upTo : /\ upTo[0] = <<>>
                    /\ \A n \in 1..len : upTo[n] = WithRow(upTo[n - 1], ScoreCompany(rows[n], q))
                    /\ Deduped(rows, q) = upTo[len]
    BY <1>0, DedupedFollows
  <1> HIDE DEF len
  <1> DEFINE Reached(n) == /\ GoodEntries(upTo[n])
                           /\ EntryKeys(upTo[n]) = {CanonicalCompanyKey(rows[i]) : i \in 1..n}
             T == {n \in Nat : n <= len => Reached(n)}
  <1>2. 0 \in T
    <2>1. <<>> \in Seq({}) /\ DOMAIN <<>> = {} /\ 1..0 = {}
      BY EmptySeq
    <2>2. GoodEntries(<<>>)
      BY <2>1, OverItsElements DEF GoodEntries, KeysApart
    <2>3. EntryKeys(<<>>) = {}
      BY <2>1 DEF EntryKeys
    <2>4. Reached(0)
      BY <1>1, <2>1, <2>2, <2>3
    <2> HIDE DEF Reached
    <2> QED
      BY <2>4
  <1>3. \A n \in T : n + 1 \in T
    <2> SUFFICES ASSUME NEW n \in Nat, n + 1 <= len, Reached(n)
                 PROVE  Reached(n + 1)
      <3> HIDE DEF Reached
      <3>1. \A n \in Nat : n + 1 <= len => n <= len
        BY <1>0
      <3> QED
        BY <3>1
    <2>1. n + 1 \in 1..len /\ (n + 1) - 1 = n
      BY <1>0
    <2> DEFINE row == ScoreCompany(rows[n + 1], q)
    <2>2. upTo[n + 1] = WithRow(upTo[n], row)
      BY <1>1, <2>1
    <2>3. GoodRow(row) /\ CanonicalCompanyKey(row) = CanonicalCompanyKey(rows[n + 1])
      BY <1>0, <2>1, ScoreKeeps
    <2> HIDE DEF row
    <2>4. /\ GoodEntries(upTo[n + 1])
          /\ EntryKeys(upTo[n + 1]) = EntryKeys(upTo[n]) \cup {CanonicalCompanyKey(rows[n + 1])}
      BY <2>2, <2>3, WithRowIsGood
    <2>5. 1..n + 1 = (1..n) \cup {n + 1}
      OBVIOUS
    <2>6. EntryKeys(upTo[n]) = {CanonicalCompanyKey(rows[i]) : i \in 1..n}
      OBVIOUS
    <2>7. EntryKeys(upTo[n + 1]) = {CanonicalCompanyKey(rows[i]) : i \in 1..n + 1}
      BY ONLY <2>4, <2>5, <2>6
    <2> QED
      BY <2>4, <2>7
  <1>4. len \in T
    <2>1. T \in SUBSET Nat
      OBVIOUS
    <2> HIDE DEF T
    <2> QED
      BY <1>0, <1>2, <1>3, <2>1, NaturalInduction
  <1>5. Reached(len)
    <2> HIDE DEF Reached
    <2> QED
      BY <1>0, <1>4
  <1> QED
    BY <1>0, <1>1, <1>5 DEF KeysOf

(* Ranking: the places of the entries are a permutation of 1..Len.         *)
LEMMA WeightIsNatural ==
  ASSUME NEW r, r.score \in Nat
  PROVE  Weight(r) \in Nat
  <1> DEFINE first == IF r.reason = "exact symbol" THEN 1000000 ELSE 0
             third == IF IsListed(r) THEN 500 ELSE 0
  <1>1. first \in Nat
    OBVIOUS
  <1>2. third \in Nat
    OBVIOUS
  <1>3. Weight(r) = first + r.score * 1000 + third + AuthorityOf(r.provider)
    BY DEF Weight
  <1>4. AuthorityOf(r.provider) \in Nat
    BY AuthorityIsNatural
  <1> HIDE DEF first, third
  <1>5. r.score * 1000 \in Nat
    OBVIOUS
  <1> QED
    BY <1>1, <1>2, <1>3, <1>4, <1>5

AheadOf(entries, i) == {j \in DOMAIN entries : ComesBefore(entries, j, i)}

LEMMA PlaceInjective ==
  ASSUME NEW entries, GoodEntries(entries)
  PROVE  /\ \A i \in DOMAIN entries : Place(entries, i) \in DOMAIN entries
         /\ \A i, j \in DOMAIN entries : Place(entries, i) = Place(entries, j) => i = j
  <1> DEFINE D == DOMAIN entries
             len == Len(entries)
             W(i) == Weight(entries[i].row)
  <1>1. len \in Nat /\ D = 1..len /\ \A i \in D : W(i) \in Nat
    BY GoodEntryAt, WeightIsNatural DEF IsEntry, GoodRow, IsRow
  <1>2. \A i, j : ComesBefore(entries, i, j) <=> W(i) > W(j) \/ (W(i) = W(j) /\ i < j)
    BY DEF ComesBefore
  <1> HIDE DEF W, D
  <1>3. IsFiniteSet(D) /\ Cardinality(D) = len
    BY <1>1, FS_Interval
  <1>4. ASSUME NEW i \in D
        PROVE  /\ IsFiniteSet(AheadOf(entries, i)) /\ Cardinality(AheadOf(entries, i)) \in Nat
               /\ Cardinality(AheadOf(entries, i)) <= len - 1
    <2>1. i \notin AheadOf(entries, i)
      BY <1>1, <1>2 DEF AheadOf
    <2>2. AheadOf(entries, i) \in SUBSET (D \ {i})
      BY <2>1 DEF AheadOf, D
    <2>3. IsFiniteSet(D \ {i}) /\ Cardinality(D \ {i}) = len - 1
      BY <1>3, FS_RemoveElement
    <2> QED
      BY <2>2, <2>3, FS_Subset, FS_CardinalityType
  <1>5. \A i \in D : Place(entries, i) = 1 + Cardinality(AheadOf(entries, i))
    BY DEF Place, AheadOf
  <1>6. ASSUME NEW i \in D, NEW j \in D, ComesBefore(entries, i, j)
        PROVE  Place(entries, i) # Place(entries, j)
    <2>1. AheadOf(entries, i) \in SUBSET AheadOf(entries, j)
      <3> SUFFICES ASSUME NEW k \in D, ComesBefore(entries, k, i)
                   PROVE  ComesBefore(entries, k, j)
        BY DEF AheadOf, D
      <3>1. W(i) \in Nat /\ W(j) \in Nat /\ W(k) \in Nat /\ i \in Nat /\ j \in Nat /\ k \in Nat
        BY <1>1
      <3> QED
        BY <1>2, <1>6, <3>1
    <2>2. i \in AheadOf(entries, j) /\ i \notin AheadOf(entries, i)
      BY <1>1, <1>2, <1>6 DEF AheadOf, D
    <2>3. Cardinality(AheadOf(entries, i)) # Cardinality(AheadOf(entries, j))
      BY <1>4, <2>1, <2>2, FS_Subset
    <2> QED
      BY <1>4, <1>5, <2>3
  <1>7. ASSUME NEW i \in D, NEW j \in D, i # j
        PROVE  ComesBefore(entries, i, j) \/ ComesBefore(entries, j, i)
    <2>1. W(i) \in Nat /\ W(j) \in Nat /\ i \in Nat /\ j \in Nat
      BY <1>1
    <2> QED
      BY <1>2, <1>7, <2>1
  <1>8. \A i, j \in D : Place(entries, i) = Place(entries, j) => i = j
    BY <1>6, <1>7
  <1>9. \A i \in D : Place(entries, i) \in D
    BY <1>1, <1>4, <1>5
  <1> QED
    BY <1>8, <1>9 DEF D

LEMMA EveryPlaceTaken ==
  ASSUME NEW entries, GoodEntries(entries), NEW n \in DOMAIN entries
  PROVE  \E i \in DOMAIN entries : Place(entries, i) = n
  <1> DEFINE D == DOMAIN entries
             place == [i \in D |-> Place(entries, i)]
  <1>1. place \in Injection(D, D)
    BY PlaceInjective DEF Injection, IsInjective
  <1>2. IsFiniteSet(D)
    BY GoodEntryAt, FS_Interval
  <1> HIDE DEF D
  <1>3. place \in Surjection(D, D)
    BY <1>1, <1>2, FS_Injection
  <1>4. \E i \in D : place[i] = n
    BY <1>3 DEF Surjection, D
  <1> QED
    BY <1>4 DEF D

(* What is ranked: the rows of the entries, each at its place.             *)
RowsApart(rows) ==
    \A i, j \in DOMAIN rows : CanonicalCompanyKey(rows[i]) = CanonicalCompanyKey(rows[j]) => i = j

LEMMA RankedAre ==
  ASSUME NEW rows, GoodRows(rows), NEW q
  PROVE  /\ GoodRows(RankAndDedupe(rows, q)) /\ RowsApart(RankAndDedupe(rows, q))
         /\ KeysOf(RankAndDedupe(rows, q)) = KeysOf(rows)
  <1> DEFINE entries == Deduped(rows, q)
             D == DOMAIN entries
             at == [n \in D |-> CHOOSE i \in D : Place(entries, i) = n]
             ranked == RankAndDedupe(rows, q)
             S == {entries[i].row : i \in D}
  <1>0. GoodEntries(entries) /\ EntryKeys(entries) = KeysOf(rows)
    BY DedupedIsGood
  <1>1. ranked = [n \in D |-> entries[at[n]].row]
    BY DEF RankAndDedupe
  <1> HIDE DEF ranked, entries
  <1>2. /\ Len(entries) \in Nat /\ D = 1..Len(entries)
        /\ \A i \in D : GoodRow(entries[i].row) /\ entries[i].key = CanonicalCompanyKey(entries[i].row)
    BY <1>0, GoodEntryAt DEF IsEntry
  <1>3. \A n \in D : at[n] \in D /\ Place(entries, at[n]) = n
    BY <1>0, EveryPlaceTaken
  <1>4. \A i \in D : at[Place(entries, i)] = i
    BY <1>0, <1>3, PlaceInjective
  <1>5. \A m, n \in D : at[m] = at[n] => m = n
    BY <1>3
  <1> HIDE DEF at, D
  <1>6. \A r \in S : GoodRow(r)
    BY <1>2
  <1>7. ranked \in Seq(S)
    <2>1. ranked \in [1..Len(entries) -> S]
      BY <1>1, <1>2, <1>3
    <2> QED
      BY <1>2, <2>1, SeqDef
  <1>8. DOMAIN ranked = D /\ \A n \in D : CanonicalCompanyKey(ranked[n]) = entries[at[n]].key
    BY <1>1, <1>2, <1>3
  <1> HIDE DEF S
  <1>9. GoodRows(ranked)
    BY <1>6, <1>7, GoodRowsAre
  <1>10. RowsApart(ranked)
    <2>1. \A i, j \in D : entries[i].key = entries[j].key => i = j
      BY <1>0 DEF GoodEntries, KeysApart, D
    <2> QED
      BY <1>3, <1>5, <1>8, <2>1 DEF RowsApart
  <1>11. KeysOf(ranked) = EntryKeys(entries)
    <2>1. KeysOf(ranked) = {entries[at[n]].key : n \in D}
      BY <1>8 DEF KeysOf
    <2>2. EntryKeys(entries) = {entries[i].key : i \in D}
      BY DEF EntryKeys, D
    <2>3. \A i \in D : \E n \in D : at[n] = i
      BY <1>0, <1>4, PlaceInjective DEF D
    <2> QED
      BY <1>3, <2>1, <2>2, <2>3
  <1> QED
    BY <1>0, <1>9, <1>10, <1>11 DEF ranked

LEMMA FirstOnesAre ==
  ASSUME NEW rows, GoodRows(rows), RowsApart(rows)
  PROVE  GoodRows(FirstOnes(rows)) /\ RowsApart(FirstOnes(rows))
  <1> DEFINE S == ToSet(rows)
             n == Smallest(Len(rows), Cut)
             first == FirstOnes(rows)
  <1>1. /\ Len(rows) \in Nat /\ DOMAIN rows = 1..Len(rows)
        /\ rows \in Seq(S) /\ \A r \in S : GoodRow(r)
    BY GoodRowAt DEF GoodRows
  <1>2. n \in Nat /\ n <= Len(rows) /\ first = SubSeq(rows, 1, n)
    BY <1>1, RankingAssumption DEF Smallest, FirstOnes
  <1> HIDE DEF n, first, S
  <1>3. /\ first \in Seq(S) /\ Len(first) = n
        /\ \A i \in 1..n : first[i] = rows[i]
    <2>1. \A i \in 1..n : rows[i] \in S
      BY <1>1, <1>2
    <2>2. /\ first \in Seq(S)
          /\ Len(first) = IF 1 <= n THEN n - 1 + 1 ELSE 0
          /\ \A i \in 1..n - 1 + 1 : first[i] = rows[1 + i - 1]
      BY <1>2, <2>1, SubSeqProperties
    <2>3. n - 1 + 1 = n /\ (~(1 <= n) => n = 0) /\ \A i \in 1..n : 1 + i - 1 = i
      BY <1>2
    <2> QED
      BY <2>2, <2>3
  <1>4. GoodRows(first)
    BY <1>1, <1>3, GoodRowsAre
  <1>5. DOMAIN first = 1..n
    BY <1>3, LenProperties
  <1>6. RowsApart(first)
    BY <1>1, <1>2, <1>3, <1>5 DEF RowsApart
  <1> QED
    BY <1>4, <1>6 DEF first

LEMMA GoodConcat ==
  ASSUME NEW l, GoodRows(l), NEW r, GoodRows(r)
  PROVE  GoodRows(l \o r)
  <1> DEFINE S == ToSet(l) \cup ToSet(r)
  <1>1. l \in Seq(S) /\ r \in Seq(S) /\ \A e \in S : GoodRow(e)
    BY SeqMonotonic DEF GoodRows
  <1> HIDE DEF S
  <1>2. l \o r \in Seq(S)
    BY <1>1, ConcatIsSeq
  <1> QED
    BY <1>1, <1>2, GoodRowsAre

(* The other way round, the rows and so their keys are the same.           *)
LEMMA GoodReverse ==
  ASSUME NEW rows, GoodRows(rows)
  PROVE  GoodRows(Reverse(rows)) /\ KeysOf(Reverse(rows)) = KeysOf(rows)
  <1> DEFINE S == ToSet(rows)
             len == Len(rows)
             back == Reverse(rows)
  <1>1. len \in Nat /\ DOMAIN rows = 1..len /\ rows \in Seq(S) /\ \A r \in S : GoodRow(r)
    BY GoodRowAt DEF GoodRows
  <1>2. back = [i \in 1..len |-> rows[len - i + 1]]
    BY DEF Reverse
  <1> HIDE DEF S, len, back
  <1>3. \A i \in 1..len : len - i + 1 \in 1..len /\ len - (len - i + 1) + 1 = i
    BY <1>1
  <1>4. back \in [1..len -> S]
    <2>1. \A i \in 1..len : rows[i] \in S
      BY <1>1, ElementOfSeq DEF len
    <2> QED
      BY <1>2, <1>3, <2>1
  <1>5. back \in Seq(S)
    BY <1>1, <1>4, SeqDef
  <1>6. GoodRows(back)
    BY <1>1, <1>5, GoodRowsAre
  <1>7. KeysOf(back) = {CanonicalCompanyKey(rows[len - i + 1]) : i \in 1..len}
    BY <1>2 DEF KeysOf
  <1>8. KeysOf(rows) = {CanonicalCompanyKey(rows[i]) : i \in 1..len}
    BY <1>1 DEF KeysOf
  <1>9. KeysOf(back) = KeysOf(rows)
    BY <1>3, <1>7, <1>8
  <1> QED
    BY <1>6, <1>9 DEF back

LEMMA AsManyKeysAsRows ==
  ASSUME NEW rows, GoodRows(rows), RowsApart(rows)
  PROVE  Cardinality(KeysOf(rows)) = Len(rows)
  <1> DEFINE len == Len(rows)
             keyOf == [i \in 1..len |-> CanonicalCompanyKey(rows[i])]
  <1>1. len \in Nat /\ DOMAIN rows = 1..len
    BY GoodRowAt
  <1>2. KeysOf(rows) = {CanonicalCompanyKey(rows[i]) : i \in 1..len}
    BY <1>1 DEF KeysOf
  <1>3. keyOf \in Surjection(1..len, KeysOf(rows))
    BY <1>2 DEF Surjection
  <1>4. keyOf \in Injection(1..len, KeysOf(rows))
    BY <1>1, <1>2 DEF RowsApart, Injection, IsInjective
  <1> HIDE DEF len, keyOf
  <1>5. IsFiniteSet(1..len) /\ Cardinality(1..len) = len
    BY <1>1, FS_Interval
  <1> QED
    BY <1>3, <1>4, <1>5, FS_Surjection DEF len

(* Replies: what a provider tells of a company is true of it.              *)
LEMMA SpelledSymbol ==
  ASSUME NEW pair \in STRING \X STRING, NEW spelt
  PROVE  pair \o <<spelt>> # <<>> /\ CanonicalSymbol(pair \o <<spelt>>) = pair
  <1> DEFINE S == {pair[1], pair[2], spelt}
             last == <<spelt>>
             long == pair \o last
  <1>1. pair = <<pair[1], pair[2]>>
    OBVIOUS
  <1>2. <<pair[1], pair[2]>> \in Seq(S) /\ last \in Seq(S)
    OBVIOUS
  <1>3. pair \in Seq(S) /\ Len(pair) = 2 /\ Len(last) = 1
    BY <1>1, <1>2
  <1> HIDE DEF S, last
  <1>4. Len(long) = 3 /\ long \in Seq(S) /\ long[1] = pair[1] /\ long[2] = pair[2]
    <2>1. /\ long \in Seq(S) /\ Len(long) = Len(pair) + Len(last)
          /\ \A i \in 1..Len(pair) + Len(last) : long[i] = IF i <= Len(pair) THEN pair[i] ELSE last[i - Len(pair)]
      BY <1>2, <1>3, ConcatProperties
    <2> QED
      BY <1>3, <2>1
  <1>5. long # <<>>
    BY <1>4, EmptySeq
  <1> QED
    BY <1>1, <1>4, <1>5 DEF CanonicalSymbol, last

LeftOut == {{}, {"exchange", "market"}, {"country", "company_number"}}

LEMMA RowIsGood ==
  ASSUME NEW p \in DOMAIN Copies, NEW c \in Companies, NEW q0 \in Queries, NEW left \in LeftOut
  PROVE  GoodRow(RowOf(p, c, AnalyzeQuery(q0), left))
  <1> DEFINE q == AnalyzeQuery(q0)
             r == RowOf(p, c, q, left)
             exchange == ExchangeName(p, Facts[c].exchange)
             copied(f, value) == IF f \in Copies[p] \ left THEN value ELSE ""
             spelt == IF Facts[c].symbol = <<>> \/ "symbol" \notin Copies[p] THEN <<>>
                      ELSE Facts[c].symbol \o <<Spelling[p]>>
             points == IF p \in ListedProviders /\ ExactSymbol(spelt, q) THEN 100
                       ELSE BaseScore[q.text.alike[c]]
  <1>1. /\ DOMAIN r = RowFields
        /\ r.of = {c} /\ r.name = Facts[c].name /\ r.symbol = spelt /\ r.score = points
        /\ r.exchange = copied("exchange", exchange)
        /\ r.market = copied("market", IF p = "fmp" THEN exchange ELSE Facts[c].market)
        /\ r.country = copied("country", Facts[c].country)
        /\ r.lei = copied("lei", Facts[c].lei)
        /\ r.wikidata_id = copied("wikidata_id", Facts[c].wikidata_id)
        /\ r.jurisdiction = copied("jurisdiction", Facts[c].jurisdiction)
        /\ r.company_number = copied("company_number", Facts[c].company_number)
    <2> HIDE DEF q
    <2> QED
      BY DEF RowOf, RowFields
  <1> HIDE DEF r, exchange, spelt
  <1>2. points \in Nat
    <2>1. \A level \in Levels : BaseScore[level] \in Nat
      BY DEF Levels, BaseScore
    <2>2. q.text.alike[c] \in Levels
      BY RankingAssumption DEF AnalyzeQuery
    <2> HIDE DEF q
    <2> QED
      BY <2>1, <2>2
  <1> HIDE DEF q, points
  <1>3. /\ "symbol" \notin Copies[p] => "exchange" \notin Copies[p] /\ "market" \notin Copies[p]
        /\ "company_number" \in Copies[p] => "jurisdiction" \in Copies[p]
    BY DEF Copies
  <1>4. "jurisdiction" \notin left
    BY DEF LeftOut
  <1>5. exchange # "" => exchange \in PlacesOf(c)
    BY DEF exchange, ExchangeName, PlacesOf
  <1>6. Facts[c].market # "" => Facts[c].market \in PlacesOf(c)
    BY DEF PlacesOf
  <1>7. /\ Facts[c].symbol = <<>> => PlacesOf(c) = {}
        /\ Facts[c].company_number # "" => Facts[c].jurisdiction # ""
    BY IdentifiersAssumption
  <1>8. r.symbol # <<>> => Facts[c].symbol # <<>> /\ CanonicalSymbol(r.symbol) = Facts[c].symbol
    BY <1>1, SpelledSymbol, RankingAssumption DEF spelt
  <1>9. r.symbol = <<>> => Facts[c].symbol = <<>> \/ "symbol" \notin Copies[p]
    BY <1>1, SpelledSymbol, RankingAssumption DEF spelt
  <1>10. Regular(r)
    <2>1. ASSUME r.symbol = <<>>
          PROVE  r.exchange = "" /\ r.market = ""
      <3>1. CASE "symbol" \notin Copies[p]
        BY <1>1, <1>3, <3>1
      <3>2. CASE Facts[c].symbol = <<>>
        BY <1>1, <1>5, <1>6, <1>7, <3>2
      <3> QED
        BY <1>9, <2>1, <3>1, <3>2
    <2>2. ASSUME r.company_number # ""
          PROVE  r.jurisdiction # ""
      BY <1>1, <1>3, <1>4, <1>7, <2>2
    <2> QED
      BY <2>1, <2>2 DEF Regular
  <1>11. Tells(r, c)
    <2>1. r.exchange # "" => r.exchange \in PlacesOf(c)
      BY <1>1, <1>5
    <2>2. r.market # "" => r.market \in PlacesOf(c)
      BY <1>1, <1>5, <1>6
    <2>3. /\ r.country \in {"", Facts[c].country} /\ r.lei \in {"", Facts[c].lei}
          /\ r.wikidata_id \in {"", Facts[c].wikidata_id}
          /\ r.jurisdiction \in {"", Facts[c].jurisdiction} /\ r.company_number \in {"", Facts[c].company_number}
      BY <1>1
    <2> QED
      BY <1>1, <1>8, <2>1, <2>2, <2>3 DEF Tells
  <1>12. GoodRow(r)
    BY <1>1, <1>2, <1>10, <1>11 DEF GoodRow, IsRow, IsTruthful
  <1> QED
    BY <1>12 DEF r, q

LEMMA RepliesAreGood ==
  ASSUME NEW q0 \in Queries, query = AnalyzeQuery(q0), NEW p \in DOMAIN Copies, NEW reply \in Replies(p)
  PROVE  GoodRows(reply)
  <1>1. PICK left \in LeftOut :
          reply = SetToSeq({row \in {RowOf(p, c, query, left) : c \in KnownTo[p]} : Finds(p, row, query)})
    BY DEF Replies, LeftOut
  <1> DEFINE all == {RowOf(p, c, query, left) : c \in KnownTo[p]}
             rows == {row \in all : Finds(p, row, query)}
             f == [c \in KnownTo[p] |-> RowOf(p, c, query, left)]
  <1>2. KnownTo[p] \in SUBSET Companies /\ IsFiniteSet(KnownTo[p])
    BY RankingAssumption, FS_Subset
  <1>3. f \in Surjection(KnownTo[p], all)
    BY DEF Surjection
  <1>4. IsFiniteSet(all)
    <2> HIDE DEF f, all
    <2> QED
      BY <1>2, <1>3, FS_Surjection
  <1>5. \A row \in all : GoodRow(row)
    BY <1>2, RowIsGood
  <1> HIDE DEF all
  <1>6. IsFiniteSet(rows) /\ \A row \in rows : GoodRow(row)
    BY <1>4, <1>5, FS_Subset
  <1> QED
    BY <1>1, <1>6, EnumeratedOnce, GoodRowsAre DEF all

(* The invariant: the rows gathered, kept and shown are good ones, and no  *)
(* two cards have one key.                                                 *)
RankInv ==
    /\ \E q \in Queries : query = AnalyzeQuery(q)
    /\ toAsk \in Seq(DOMAIN Copies)
    /\ GoodRows(found) /\ GoodRows(supplement.rows) /\ GoodRows(cards)
    /\ RowsApart(cards)

LEMMA NothingIsGood ==
  GoodRows(<<>>) /\ RowsApart(<<>>)
  <1>1. <<>> \in Seq({}) /\ DOMAIN <<>> = {}
    BY EmptySeq
  <1> QED
    BY <1>1, GoodRowsAre DEF RowsApart

LEMMA RankInvInit ==
  RankingInit => RankInv
  BY NothingIsGood, RankingAssumption DEF RankingInit, RankInv, NoSupplement

LEMMA RankInvStep ==
  RankInv /\ [RankingNext]_rankingVars => RankInv'
  <1> SUFFICES ASSUME RankInv, [RankingNext]_rankingVars
               PROVE  RankInv'
    OBVIOUS
  <1> USE DEF RankInv
  <1>0. PICK q0 \in Queries : query = AnalyzeQuery(q0)
    OBVIOUS
  <1>1. CASE AskLocally
    <2>1. toAsk \in Seq(DOMAIN Copies) /\ toAsk # <<>>
      BY <1>1 DEF AskLocally
    <2>2. Head(toAsk) \in DOMAIN Copies /\ toAsk' \in Seq(DOMAIN Copies)
      BY <1>1, <2>1, HeadTailProperties DEF AskLocally
    <2>3. \A reply \in Replies(Head(toAsk)) : GoodRows(found \o reply)
      BY <1>0, <2>2, RepliesAreGood, GoodConcat
    <2>4. GoodRows(found')
      BY <1>1, <2>3 DEF AskLocally
    <2>5. UNCHANGED <<query, cards, supplement>>
      BY <1>1 DEF AskLocally
    <2> QED
      BY <2>2, <2>4, <2>5
  <1>2. CASE RankLocally
    <2>1. GoodRows(cards') /\ RowsApart(cards')
      BY <1>2, RankedAre, FirstOnesAre DEF RankLocally
    <2>2. UNCHANGED <<query, toAsk, supplement>> /\ found' = <<>>
      BY <1>2 DEF RankLocally
    <2> QED
      BY <2>1, <2>2, NothingIsGood
  <1>3. CASE RankOnline
    <2> DEFINE online == FirstOnes(RankAndDedupe(found, query))
    <2>1. GoodRows(online)
      BY RankedAre, FirstOnesAre
    <2>2. /\ supplement' = [rows |-> online, cached |-> TRUE] /\ cards' = MergeResponses(cards, online, query)
          /\ found' = <<>> /\ UNCHANGED <<query, toAsk>>
      BY <1>3 DEF RankOnline
    <2> HIDE DEF online
    <2>3. GoodRows(cards') /\ RowsApart(cards')
      BY <2>1, <2>2, GoodConcat, RankedAre, FirstOnesAre DEF MergeResponses
    <2>4. GoodRows(supplement'.rows)
      BY <2>1, <2>2
    <2> QED
      BY <2>2, <2>3, <2>4, NothingIsGood
  <1>4. CASE ServeSupplement
    <2>1. GoodRows(cards') /\ RowsApart(cards')
      BY <1>4, GoodConcat, RankedAre, FirstOnesAre DEF ServeSupplement, MergeResponses
    <2>2. UNCHANGED <<query, toAsk, found, supplement>>
      BY <1>4 DEF ServeSupplement
    <2> QED
      BY <2>1, <2>2
  <1>5. CASE SearchAgain
    <2>1. toAsk' = LocalAsked /\ cards' = <<>> /\ UNCHANGED <<query, found, supplement>>
      BY <1>5 DEF SearchAgain
    <2> QED
      BY <2>1, NothingIsGood, RankingAssumption
  <1>6. ASSUME NEW p \in OnlineAsked, Harvest(p)
        PROVE  RankInv'
    <2>1. p \in DOMAIN Copies
      BY RankingAssumption
    <2>2. \A reply \in Replies(p) \cup {<<>>} : GoodRows(found \o reply)
      BY <1>0, <2>1, RepliesAreGood, GoodConcat, NothingIsGood
    <2>3. GoodRows(found')
      BY <1>6, <2>2 DEF Harvest
    <2>4. UNCHANGED <<query, toAsk, cards, supplement>>
      BY <1>6 DEF Harvest
    <2> QED
      BY <2>3, <2>4
  <1>7. CASE UNCHANGED rankingVars
    BY <1>7 DEF rankingVars
  <1> QED
    BY <1>1, <1>2, <1>3, <1>4, <1>5, <1>6, <1>7 DEF RankingNext

LEMMA RankInvSays ==
  RankInv => CardsAreCompanies
  <1> SUFFICES ASSUME RankInv
               PROVE  CardsAreCompanies
    OBVIOUS
  <1>1. GoodRows(cards) /\ RowsApart(cards) /\ GoodRows(found)
    BY DEF RankInv
  <1>2. ASSUME NEW i \in DOMAIN cards
        PROVE  Cardinality(cards[i].of) = 1 \/ CanonicalCompanyKey(cards[i])[1] = "name"
    <2>1. IsTruthful(cards[i])
      BY <1>1, GoodRowAt DEF GoodRow
    <2>2. CASE KeyKind(cards[i]) = "name"
      BY <2>2, KeyIs
    <2>3. CASE \E c \in Companies : cards[i].of = {c}
      BY <2>3, FS_Singleton
    <2> QED
      BY <2>1, <2>2, <2>3 DEF IsTruthful
  <1>3. Cardinality(KeysOf(cards)) = Len(cards)
    BY <1>1, AsManyKeysAsRows
  <1>4. KeysOf(RankAndDedupe(found, query)) = KeysOf(RankAndDedupe(Reverse(found), query))
    BY <1>1, RankedAre, GoodReverse
  <1> QED
    BY <1>2, <1>3, <1>4 DEF CardsAreCompanies

(* A card of the search page is about one company, unless its rows bore    *)
(* nothing but a name; no two cards have the key of one company, although  *)
(* merging fills in fields (MergeCompany) and the answers are ranked up to *)
(* three times; and the order of the online answers does not decide which  *)
(* companies there are.                                                    *)
THEOREM CardsNameOneCompany == RankingSpec => []CardsAreCompanies
  <1>1. RankingSpec => []RankInv
    BY RankInvInit, RankInvStep, PTL DEF RankingSpec
  <1> QED
    BY <1>1, RankInvSays, PTL

(* The page: a group holds the rows it asks for.                           *)
LEMMA HeldRows ==
  ASSUME NEW S, NEW s \in Seq(S), NEW W
  PROVE  /\ RowsAt(s, {i \in DOMAIN s : s[i] \in W}) \in Seq(S)
         /\ ToSet(RowsAt(s, {i \in DOMAIN s : s[i] \in W})) = ToSet(s) \cap W
  <1> DEFINE places == {i \in DOMAIN s : s[i] \in W}
             held == RowsAt(s, places)
  <1>1. DOMAIN s = 1..Len(s) /\ ToSet(s) = {s[i] : i \in 1..Len(s)}
    BY ElementsAre DEF Elements
  <1>2. places \in SUBSET (1..Len(s))
    BY <1>1
  <1>3. held \in Seq(S) /\ Elements(held) = {s[i] : i \in places}
    BY <1>2, RowsAtHolds
  <1>4. {s[i] : i \in places} = ToSet(s) \cap W
    BY <1>1
  <1> HIDE DEF held
  <1>5. ToSet(held) = ToSet(s) \cap W
    BY <1>3, <1>4, ElementsAre
  <1> QED
    BY <1>3, <1>5 DEF held

LEMMA PassedRows ==
  ASSUME NEW S, NEW s \in Seq(S), NEW scope
  PROVE  FilterCompanies(s, scope) \in Seq(S)
  <1> DEFINE W == {r \in S : PassesFilter(scope, r)}
  <1>1. {i \in DOMAIN s : PassesFilter(scope, s[i])} = {i \in DOMAIN s : s[i] \in W}
    BY ElementsAre
  <1> HIDE DEF W
  <1>2. FilterCompanies(s, scope) = RowsAt(s, {i \in DOMAIN s : s[i] \in W})
    BY <1>1 DEF FilterCompanies, RowsThat
  <1>3. RowsAt(s, {i \in DOMAIN s : s[i] \in W}) \in Seq(S)
    BY HeldRows
  <1> QED
    BY <1>2, <1>3

LEMMA BestRows ==
  ASSUME NEW S, NEW s \in Seq(S)
  PROVE  /\ BestMatches(s) \in Seq(S)
         /\ \A r \in ToSet(BestMatches(s)) : r \in ToSet(s)
  <1> DEFINE W == {r \in S : r.score >= 85}
             strong == RowsAt(s, {i \in DOMAIN s : s[i] \in W})
             n == Smallest(3, Len(strong))
             best == SubSeq(strong, 1, n)
  <1>1. {i \in DOMAIN s : s[i].score >= 85} = {i \in DOMAIN s : s[i] \in W}
    BY ElementsAre
  <1>2. BestMatches(s) = best
    BY <1>1 DEF BestMatches, RowsThat
  <1> HIDE DEF W
  <1>3. strong \in Seq(S) /\ ToSet(strong) = ToSet(s) \cap W
    BY HeldRows
  <1> HIDE DEF strong
  <1>4. Len(strong) \in Nat /\ \A i \in 1..Len(strong) : strong[i] \in S /\ strong[i] \in ToSet(strong)
    BY <1>3, ElementsAre
  <1>5. n \in Nat /\ n <= Len(strong)
    BY <1>4 DEF Smallest
  <1> HIDE DEF n
  <1>6. /\ best \in Seq(S)
        /\ Len(best) = IF 1 <= n THEN n - 1 + 1 ELSE 0
        /\ \A i \in 1..n - 1 + 1 : best[i] = strong[1 + i - 1]
    BY <1>4, <1>5, SubSeqProperties
  <1>7. Len(best) = n /\ \A i \in 1..n : best[i] = strong[i]
    BY <1>5, <1>6
  <1> HIDE DEF best
  <1>8. \A i \in 1..Len(best) : best[i] \in ToSet(strong)
    BY <1>4, <1>5, <1>7
  <1>9. ToSet(best) = {best[i] : i \in 1..Len(best)}
    BY <1>6, ElementsAre DEF Elements
  <1> QED
    BY <1>2, <1>3, <1>6, <1>8, <1>9

LEMMA GroupsAre ==
  ASSUME NEW S, NEW s \in Seq(S), NEW g, g = GroupCompanies(s)
  PROVE  /\ DOMAIN g = {"best", "financial", "entity", "related"}
         /\ ToSet(g.best) \in SUBSET ToSet(s)
         /\ ToSet(g.financial) = {r \in ToSet(s) : DedupeKey(r) \notin ShownKeys(g.best) /\ Financial(r)}
         /\ ToSet(g.entity) =
              {r \in ToSet(s) : DedupeKey(r) \notin ShownKeys(g.best) \cup ShownKeys(g.financial) /\ Entity(r)}
         /\ ToSet(g.related) =
              {r \in ToSet(s) : DedupeKey(r) \notin (ShownKeys(g.best) \cup ShownKeys(g.financial)) \cup ShownKeys(g.entity)
                                /\ r.score < 85}
  <1> DEFINE best == BestMatches(s)
             W1 == {r \in S : DedupeKey(r) \notin ShownKeys(best) /\ Financial(r)}
             financial == RowsThat(s, LAMBDA row : DedupeKey(row) \notin ShownKeys(best) /\ Financial(row))
             keys == ShownKeys(best) \cup ShownKeys(financial)
             W2 == {r \in S : DedupeKey(r) \notin keys /\ Entity(r)}
             entity == RowsThat(s, LAMBDA row : DedupeKey(row) \notin keys /\ Entity(row))
             all == keys \cup ShownKeys(entity)
             W3 == {r \in S : DedupeKey(r) \notin all /\ r.score < 85}
             related == RowsThat(s, LAMBDA row : DedupeKey(row) \notin all /\ row.score < 85)
  <1>0. g = [best |-> best, financial |-> financial, entity |-> entity, related |-> related]
    BY DEF GroupCompanies, GroupsBelow
  <1>1. (\A i \in DOMAIN s : s[i] \in S) /\ ToSet(s) \in SUBSET S
    BY ElementsAre
  <1>2. ToSet(best) \in SUBSET ToSet(s)
    BY BestRows
  <1> HIDE DEF best
  <1>3. ToSet(financial) = ToSet(s) \cap W1
    <2>1. financial = RowsAt(s, {i \in DOMAIN s : s[i] \in W1})
      <3>1. {i \in DOMAIN s : DedupeKey(s[i]) \notin ShownKeys(best) /\ Financial(s[i])} = {i \in DOMAIN s : s[i] \in W1}
        BY <1>1
      <3> QED
        BY <3>1 DEF RowsThat
    <2> HIDE DEF W1, financial
    <2> QED
      BY <2>1, HeldRows
  <1> HIDE DEF financial
  <1>4. ToSet(entity) = ToSet(s) \cap W2
    <2> HIDE DEF keys
    <2>1. entity = RowsAt(s, {i \in DOMAIN s : s[i] \in W2})
      <3>1. {i \in DOMAIN s : DedupeKey(s[i]) \notin keys /\ Entity(s[i])} = {i \in DOMAIN s : s[i] \in W2}
        BY <1>1
      <3> QED
        BY <3>1 DEF RowsThat
    <2> HIDE DEF W2, entity
    <2> QED
      BY <2>1, HeldRows
  <1> HIDE DEF entity
  <1>5. ToSet(related) = ToSet(s) \cap W3
    <2> HIDE DEF all
    <2>1. related = RowsAt(s, {i \in DOMAIN s : s[i] \in W3})
      <3>1. {i \in DOMAIN s : DedupeKey(s[i]) \notin all /\ s[i].score < 85} = {i \in DOMAIN s : s[i] \in W3}
        BY <1>1
      <3> QED
        BY <3>1 DEF RowsThat
    <2> HIDE DEF W3, related
    <2> QED
      BY <2>1, HeldRows
  <1> HIDE DEF related
  <1>6. /\ DOMAIN g = {"best", "financial", "entity", "related"}
        /\ g.best = best /\ g.financial = financial /\ g.entity = entity /\ g.related = related
    BY <1>0
  <1>7. ToSet(financial) = {r \in ToSet(s) : DedupeKey(r) \notin ShownKeys(best) /\ Financial(r)}
    BY <1>1, <1>3
  <1>8. ToSet(entity) = {r \in ToSet(s) : DedupeKey(r) \notin keys /\ Entity(r)}
    BY <1>1, <1>4
  <1>9. ToSet(related) = {r \in ToSet(s) : DedupeKey(r) \notin all /\ r.score < 85}
    BY <1>1, <1>5
  <1> QED
    BY <1>2, <1>6, <1>7, <1>8, <1>9

LEMMA EachInOneGroup ==
  ASSUME NEW S, \A r \in S : r.score \in Nat, NEW s \in Seq(S), NEW g, g = GroupCompanies(s), NEW row \in ToSet(s)
  PROVE  /\ Cardinality(GroupsWith(g, row)) <= 1
         /\ GroupsWith(g, row) = {} => Overlooked(row) \/ \E h \in DOMAIN g : DedupeKey(row) \in ShownKeys(g[h])
  <1> DEFINE key == DedupeKey(row)
             Shown(h) == ShownKeys(g[h])
             in == GroupsWith(g, row)
  <1>0. DOMAIN g = {"best", "financial", "entity", "related"} /\ in \in SUBSET DOMAIN g
    BY GroupsAre DEF GroupsWith
  <1>1. \A h \in DOMAIN g : h \in in <=> row \in ToSet(g[h])
    BY DEF GroupsWith
  <1>2. \A h \in DOMAIN g : row \in ToSet(g[h]) => key \in Shown(h)
    BY DEF ShownKeys
  <1>3. row \in ToSet(g["financial"]) <=> key \notin Shown("best") /\ Financial(row)
    BY GroupsAre
  <1>4. row \in ToSet(g["entity"]) <=> key \notin Shown("best") \cup Shown("financial") /\ Entity(row)
    BY GroupsAre
  <1>5. row \in ToSet(g["related"])
          <=> key \notin (Shown("best") \cup Shown("financial")) \cup Shown("entity") /\ row.score < 85
    BY GroupsAre
  <1>6. row.score \in Nat
    BY OverItsElements
  <1> HIDE DEF key, Shown, in
  <1>7. \A h, k \in in : h = k
    <2>1. "best" \in in => in \subseteq {"best"}
      BY <1>0, <1>1, <1>2, <1>3, <1>4, <1>5
    <2>2. "financial" \in in => in \subseteq {"best", "financial"}
      BY <1>0, <1>1, <1>2, <1>3, <1>4, <1>5
    <2>3. "entity" \in in => in \subseteq {"best", "financial", "entity"}
      BY <1>0, <1>1, <1>2, <1>3, <1>4, <1>5
    <2> QED
      BY <1>0, <2>1, <2>2, <2>3
  <1>8. Cardinality(in) <= 1
    <2>1. CASE in = {}
      BY <2>1, FS_EmptySet
    <2>2. CASE in # {}
      <3>1. PICK h : h \in in
        BY <2>2
      <3>2. in = {h}
        BY <1>7, <3>1
      <3>3. Cardinality({h}) = 1
        BY FS_Singleton
      <3> QED
        BY <3>2, <3>3
    <2> QED
      BY <2>1, <2>2
  <1>9. ASSUME in = {}, \A h \in DOMAIN g : key \notin Shown(h)
        PROVE  Overlooked(row)
    BY <1>0, <1>1, <1>3, <1>4, <1>5, <1>6, <1>9 DEF Overlooked
  <1> QED
    BY <1>8, <1>9 DEF in, key, Shown

LEMMA RankInvShows ==
  RankInv => PageShowsEveryCard
  <1> SUFFICES ASSUME RankInv, NEW scope \in Scopes, NEW rows, rows = FilterCompanies(cards, scope),
                      NEW g, g = GroupCompanies(rows), NEW row \in ToSet(rows)
               PROVE  /\ Cardinality(GroupsWith(g, row)) <= 1
                      /\ GroupsWith(g, row) = {} =>
                           Overlooked(row) \/ \E h \in DOMAIN g : DedupeKey(row) \in ShownKeys(g[h])
    BY DEF PageShowsEveryCard
  <1> DEFINE S == ToSet(cards)
  <1>1. cards \in Seq(S) /\ \A r \in S : r.score \in Nat
    BY DEF RankInv, GoodRows, GoodRow, IsRow
  <1> HIDE DEF S
  <1>2. rows \in Seq(S)
    BY <1>1, PassedRows
  <1> QED
    BY <1>1, <1>2, EachInOneGroup

(* Whatever the sources answered, a card that passes the filter of the     *)
(* page is in one group and in one only, except those overlooked and those *)
(* taken for a card that is shown (_group_companies).                      *)
THEOREM CardsAreShownOnce == RankingSpec => []PageShowsEveryCard
  <1>1. RankingSpec => []RankInv
    BY RankInvInit, RankInvStep, PTL DEF RankingSpec
  <1> QED
    BY <1>1, RankInvShows, PTL
=============================================================================
